-------------------------- MODULE CommandPathProofs --------------------------
(***************************************************************************)
(* What holds of CommandPath for every value of its constants: any number  *)
(* of applications, roots, books and retries, any user methods and         *)
(* appliers.  What a replay computes is looked into only where exists() is *)
(* at stake; the other proofs see only which pages it is given.            *)
(***************************************************************************)
EXTENDS CommandPath, SequenceFacts

-----------------------------------------------------------------------------
(***************************************************************************)
(* Lemmas on the operators.                                                *)
(***************************************************************************)
\* The two things dispatch can do with an application's command: throw, or
\* answer with one page that carries the sequence it was given.
LEMMA RespondShape ==
    ASSUME NEW m, NEW seq \in Nat, NEW command \in CommandBooks
    PROVE  LET answer == respond(m, seq, Contextual(command))
           IN  \/ answer = InvalidArgument
               \/ answer = CommandRejected
               \/ \E event \in EventAnys : answer = Events(new_event_book(event, seq))
<1> DEFINE urls == Contextual(command).urls
<1>1. urls = <<command.url>> /\ urls # <<>> /\ Head(urls) = command.url
  BY DEF Contextual
<1>2. ~type_url_matches(command.url, NotificationType)
  BY UrlsAssumption DEF CommandBooks
<1>3. execute(m, seq, command.url) = CommandRejected
      \/ \E event \in EventAnys :
           execute(m, seq, command.url) = Events(new_event_book(event, seq))
  BY DEF execute
<1> QED  BY <1>1, <1>2, <1>3 DEF respond

\* What dispatch answers depends on the book alone, not on what the members
\* held before: the reset at its start is what makes one instance serve all.
LEMMA DispatchForgets ==
    ASSUME NEW m1, NEW m2, NEW book, NEW command
    PROVE  dispatch(m1, book, command) = dispatch(m2, book, command)
BY DEF dispatch, rebuilt, reset

\* A stored book is a book of pages, or no book for an aggregate without any.
LEMMA StoredType ==
    ASSUME TypeOK, NEW root \in Roots, NEW book \in Stored(root)
    PROVE  book \in LoadedBooks /\ next_sequence(book) = Len(log[root])
<1>1. log[root] \in Seq(Pages) /\ snapped[root] \in Nat /\ Len(log[root]) \in Nat
  BY DEF TypeOK
<1>2. CASE book = StoredBook(log[root], snapped[root])
  <2>1. SubSeq(log[root], snapped[root] + 1, Len(log[root])) \in Seq(Pages)
    <3>1. \A i \in snapped[root] + 1 .. Len(log[root]) : log[root][i] \in Pages
      BY <1>1, ElementOfSeq
    <3> QED  BY <1>1, <3>1, SubSeqProperties
  <2> QED  BY <1>1, <1>2, <2>1 DEF StoredBook, Book, LoadedBooks, next_sequence
<1>3. CASE book = NoBook /\ log[root] = <<>>
  BY <1>3 DEF NoBook, LoadedBooks, next_sequence
<1> QED  BY <1>2, <1>3 DEF Stored

LEMMA NextSequenceType ==
    ASSUME NEW book \in LoadedBooks
    PROVE  next_sequence(book) \in Nat
<1>1. CASE book = NoBook  BY <1>1 DEF NoBook, next_sequence
<1>2. CASE book # NoBook  BY <1>2 DEF LoadedBooks, next_sequence
<1> QED  BY <1>1, <1>2

LEMMA RequestType ==
    ASSUME NEW command \in CommandBooks, NEW try \in 1..MaxTries,
           NEW mode \in SyncModes, NEW seen \in Nat
    PROVE  Request(command, try, mode, seen) \in Calls
BY DEF Request, Calls, Stages, Statuses, LoadedBooks, Answers, NoAnswer, Throws

LEMMA AgainType ==
    ASSUME NEW call \in Calls, NEW status \in Statuses
    PROVE  [Again(call) EXCEPT !.stage = "done", !.status = status] \in Calls
<1>1. Again(call) \in Calls
  BY RequestType DEF Again, Calls
<1> QED  BY <1>1 DEF Calls, Stages

\* The answer that makes a call "decided".
LEMMA DecidedType ==
    ASSUME NEW event \in EventAnys, NEW seq \in Nat
    PROVE  LET answer == Events(new_event_book(event, seq))
           IN  /\ answer \in Answers
               /\ answer.kind = "events"
               /\ Head(answer.book.pages) = [sequence |-> seq, event |-> event]
<1>1. <<[sequence |-> seq, event |-> event]>> \in Seq(AnswerPages)
  BY DEF AnswerPages
<1> QED  BY <1>1 DEF Events, new_event_book, Book, Answers

-----------------------------------------------------------------------------
(***************************************************************************)
(* Type correctness, one lemma for the applications' steps and one for the *)
(* coordinator's.                                                          *)
(***************************************************************************)
LEMMA BecomesType ==
    ASSUME TypeOK, NEW call \in calls, NEW next \in Calls, Becomes(call, next)
    PROVE  calls' \subseteq Calls
BY DEF TypeOK, Becomes

LEMMA ApplicationType ==
    ASSUME TypeOK, NEW c \in Clients, Application(c)
    PROVE  TypeOK'
<1>1. CASE Prepare(c)
  <2>1. PICK root \in Roots, url \in Urls, mode \in SyncModes : \E book \in Stored(root) :
          client' = [client EXCEPT ![c] =
             [pc |-> "ready", built |-> @.built + 1, try |-> 0, mode |-> mode,
              seen |-> Len(log[root]),
              command |-> build(c, @.built + 1, root, next_sequence(book), url)]]
    BY <1>1 DEF Prepare
  <2>2. PICK book \in Stored(root) :
          client' = [client EXCEPT ![c] =
             [pc |-> "ready", built |-> @.built + 1, try |-> 0, mode |-> mode,
              seen |-> Len(log[root]),
              command |-> build(c, @.built + 1, root, next_sequence(book), url)]]
    BY <2>1
  <2>3. next_sequence(book) \in Nat /\ Len(log[root]) \in Nat
    BY StoredType DEF TypeOK
  <2>4. client[c].built + 1 \in 1..MaxBooks /\ client[c].built + 1 \in 0..MaxBooks
    BY <1>1, BoundsAssumption DEF TypeOK, Prepare
  <2>5. build(c, client[c].built + 1, root, next_sequence(book), url) \in CommandBooks
    BY <2>3, <2>4 DEF build, CommandBooks
  <2>6. 0 \in 0..MaxTries
    BY BoundsAssumption
  <2> QED  BY <1>1, <2>2, <2>3, <2>4, <2>5, <2>6 DEF TypeOK, Prepare
<1>2. CASE Send(c)
  <2>1. client[c].try + 1 \in 1..MaxTries /\ client[c].try + 1 \in 0..MaxTries
    BY <1>2, BoundsAssumption DEF TypeOK, Send
  <2>2. Request(client[c].command, client[c].try + 1, client[c].mode, client[c].seen) \in Calls
    BY <1>2, <2>1, RequestType DEF TypeOK, Send
  <2> QED  BY <1>2, <2>1, <2>2 DEF TypeOK, Send
<1>3. CASE Receive(c)     BY <1>3 DEF TypeOK, Receive
<1>4. CASE Disconnect(c)  BY <1>4 DEF TypeOK, Disconnect
<1>5. CASE GiveUp(c)      BY <1>5 DEF TypeOK, GiveUp
<1> QED  BY <1>1, <1>2, <1>3, <1>4, <1>5 DEF Application

LEMMA LoadShape ==
    ASSUME TypeOK, NEW call \in calls, Load(call)
    PROVE  \E book \in Stored(call.command.root) :
             /\ book \in LoadedBooks
             /\ next_sequence(book) = Len(log[call.command.root])
             /\ \/ /\ Locking /\ call.command.sequence # next_sequence(book)
                   /\ Ends(call, "conflict")
                \/ /\ Locking => call.command.sequence = next_sequence(book)
                   /\ Becomes(call, [call EXCEPT !.stage = "loaded", !.book = book])
<1>1. call.command.root \in Roots
  BY DEF TypeOK, Calls, CommandBooks
<1>2. PICK book \in Stored(call.command.root) :
         IF Locking /\ call.command.sequence # next_sequence(book)
         THEN Ends(call, "conflict")
         ELSE Becomes(call, [call EXCEPT !.stage = "loaded", !.book = book])
  BY DEF Load
<1> QED  BY <1>1, <1>2, StoredType

\* A dispatch ends the call with the exception, or leaves it decided with one
\* page that carries the sequence of the loaded book.
LEMMA DispatchShape ==
    ASSUME TypeOK, NEW call \in calls, Dispatch(call)
    PROVE  LET answer == dispatch(members, call.book, Contextual(call.command))
           IN  \/ /\ answer \in {InvalidArgument, CommandRejected}
                  /\ Ends(call, answer.kind)
               \/ \E event \in EventAnys :
                    /\ answer = Events(new_event_book(event, next_sequence(call.book)))
                    /\ Becomes(call, [call EXCEPT !.stage = "decided", !.answer = answer])
<1> DEFINE answer == dispatch(members, call.book, Contextual(call.command))
<1>1. next_sequence(call.book) \in Nat /\ call.command \in CommandBooks
  <2>1. call.book \in LoadedBooks /\ call.command \in CommandBooks
    BY DEF TypeOK, Calls
  <2> QED  BY <2>1, NextSequenceType
<1>2. \/ answer = InvalidArgument
      \/ answer = CommandRejected
      \/ \E event \in EventAnys :
           answer = Events(new_event_book(event, next_sequence(call.book)))
  BY <1>1, RespondShape DEF dispatch
<1>3. CASE answer \in {InvalidArgument, CommandRejected}
  <2>1. answer.kind # "events"
    BY <1>3 DEF InvalidArgument, CommandRejected, Throws
  <2> QED  BY <1>3, <2>1 DEF Dispatch
<1>4. ASSUME NEW event \in EventAnys,
             answer = Events(new_event_book(event, next_sequence(call.book)))
      PROVE  Becomes(call, [call EXCEPT !.stage = "decided", !.answer = answer])
  BY <1>4 DEF Dispatch, Events
<1> QED  BY <1>2, <1>3, <1>4

LEMMA EndsType ==
    ASSUME TypeOK, NEW call \in calls, NEW status \in Statuses, Ends(call, status)
    PROVE  calls' \subseteq Calls
<1>1. call \in Calls /\ "done" \in Stages
  BY DEF TypeOK, Stages
<1>2. [Again(call) EXCEPT !.stage = "done", !.status = status] \in Calls
  BY <1>1, AgainType
<1> QED  BY <1>2, BecomesType DEF Ends

(***************************************************************************)
(* Types alone are not inductive: what Record appends was computed by an   *)
(* earlier Dispatch.                                                       *)
(***************************************************************************)
Answered ==
    \A call \in calls : call.stage = "decided" =>
        \E event \in EventAnys :
            call.answer = Events(new_event_book(event, next_sequence(call.book)))

Base == TypeOK /\ Answered

LEMMA RecordShape ==
    ASSUME Base, NEW call \in calls, Record(call)
    PROVE  LET root == call.command.root
               page == Head(call.answer.book.pages)
           IN  /\ root \in Roots
               /\ log[root] \in Seq(Pages)
               /\ call.command \in CommandBooks
               /\ page.sequence = next_sequence(call.book)
               /\ page.sequence \in Nat
               /\ Recorded(page, call.command) \in Pages
<1>1. call.command \in CommandBooks /\ call.command.root \in Roots
      /\ call.book \in LoadedBooks
  BY DEF Base, TypeOK, Calls, CommandBooks
<1>2. log[call.command.root] \in Seq(Pages)
  BY <1>1 DEF Base, TypeOK
<1>3. PICK event \in EventAnys :
        call.answer = Events(new_event_book(event, next_sequence(call.book)))
  BY DEF Base, Answered, Record
<1>4. Head(call.answer.book.pages) = [sequence |-> next_sequence(call.book), event |-> event]
  BY <1>1, <1>3, DecidedType, NextSequenceType
<1> QED  BY <1>1, <1>2, <1>4, NextSequenceType DEF Recorded, Pages

LEMMA CoordinatorType ==
    ASSUME Base, NEW call \in calls, Serve(call) \/ Lose(call)
    PROVE  TypeOK'
<1> USE DEF Base
<1>1. call \in Calls
  BY DEF TypeOK
<1>2. CASE Accept(call)
  <2>1. [call EXCEPT !.stage = "accepted"] \in Calls
    BY <1>1 DEF Calls, Stages
  <2> QED  BY <1>2, <2>1, BecomesType DEF Accept, TypeOK
<1>3. CASE Lose(call)
  <2>1. Again(call) \in Calls
    BY <1>1, RequestType DEF Again, Calls
  <2>2. [Again(call) EXCEPT !.stage = "lost"] \in Calls
    BY <2>1 DEF Calls, Stages
  <2> QED  BY <1>3, <2>2, BecomesType DEF Lose, TypeOK
<1>4. CASE Load(call)
  <2>1. PICK book \in Stored(call.command.root) :
          /\ book \in LoadedBooks
          /\ \/ Ends(call, "conflict")
             \/ Becomes(call, [call EXCEPT !.stage = "loaded", !.book = book])
    BY <1>4, LoadShape
  <2>2. [call EXCEPT !.stage = "loaded", !.book = book] \in Calls
    BY <1>1, <2>1 DEF Calls, Stages
  <2>3. "conflict" \in Statuses
    BY DEF Statuses
  <2>4. calls' \subseteq Calls
    BY <2>1, <2>2, <2>3, EndsType, BecomesType
  <2> QED  BY <1>4, <2>4 DEF Load, TypeOK
<1>5. CASE Dispatch(call)
  <2> DEFINE answer == dispatch(members, call.book, Contextual(call.command))
  <2>1. CASE answer \in {InvalidArgument, CommandRejected} /\ Ends(call, answer.kind)
    <3>1. answer.kind \in Statuses
      BY <2>1 DEF InvalidArgument, CommandRejected, Throws, Statuses
    <3>2. calls' \subseteq Calls
      BY <2>1, <3>1, EndsType
    <3> QED  BY <1>5, <3>2 DEF Dispatch, TypeOK
  <2>2. ASSUME NEW event \in EventAnys,
               answer = Events(new_event_book(event, next_sequence(call.book))),
               Becomes(call, [call EXCEPT !.stage = "decided", !.answer = answer])
        PROVE  TypeOK'
    <3>1. answer \in Answers
      BY <1>1, <2>2, DecidedType, NextSequenceType DEF Calls
    <3>2. [call EXCEPT !.stage = "decided", !.answer = answer] \in Calls
      BY <1>1, <3>1 DEF Calls, Stages
    <3>3. calls' \subseteq Calls
      BY <2>2, <3>2, BecomesType
    <3> QED  BY <1>5, <3>3 DEF Dispatch, TypeOK
  <2> QED  BY <1>5, <2>1, <2>2, DispatchShape
<1>6. CASE Record(call)
  <2> DEFINE root == call.command.root
             page == Head(call.answer.book.pages)
  <2>1. "ok" \in Statuses /\ "conflict" \in Statuses
    BY DEF Statuses
  <2>2. calls' \subseteq Calls
    BY <1>6, <2>1, EndsType DEF Record
  <2>3. log' = log \/ log' = [log EXCEPT ![root] = Append(@, Recorded(page, call.command))]
    BY <1>6 DEF Record
  <2>4. Append(log[root], Recorded(page, call.command)) \in Seq(Pages)
    BY <1>6, RecordShape
  <2>5. log' \in [Roots -> Seq(Pages)]
    BY <2>3, <2>4 DEF TypeOK
  <2> QED  BY <1>6, <2>2, <2>5 DEF Record, TypeOK
<1> QED  BY <1>2, <1>3, <1>4, <1>5, <1>6 DEF Serve

LEMMA SnapshotType ==
    ASSUME TypeOK, NEW root \in Roots, TakeSnapshot(root)
    PROVE  TypeOK'
BY DEF TypeOK, TakeSnapshot

\* Of all steps only Dispatch makes a call decided, and nothing changes a
\* decided call's book or answer.
LEMMA AnsweredStep ==
    ASSUME Base, [Next]_vars
    PROVE  Answered'
<1> SUFFICES ASSUME NEW call \in calls', call.stage = "decided"
             PROVE  \E event \in EventAnys :
                      call.answer = Events(new_event_book(event, next_sequence(call.book)))
  BY DEF Answered
<1> USE DEF Base
<1>1. CASE call \in calls
  BY <1>1 DEF Answered
<1>2. CASE call \notin calls
  <2>1. CASE \E c \in Clients : Application(c)
    BY <1>2, <2>1
    DEF Application, Prepare, Send, Receive, Disconnect, GiveUp, Request
  <2>2. CASE \E root \in Roots : TakeSnapshot(root)
    BY <1>2, <2>2 DEF TakeSnapshot
  <2>3. CASE UNCHANGED vars
    BY <1>2, <2>3 DEF vars
  <2>4. ASSUME NEW old \in calls, Serve(old) \/ Lose(old)
        PROVE  \E event \in EventAnys :
                 call.answer = Events(new_event_book(event, next_sequence(call.book)))
    <3>1. old \in Calls
      BY DEF TypeOK
    <3>2. Again(old) \in Calls
      BY <3>1, RequestType DEF Again, Calls
    <3>3. ~Accept(old)
      BY <1>2, <3>1 DEF Accept, Becomes, Calls
    <3>4. ~Lose(old)
      BY <1>2, <3>2 DEF Lose, Becomes, Calls
    <3>5. ~Record(old)
      BY <1>2, <3>2 DEF Record, Ends, Becomes, Calls
    <3>6. ~Load(old)
      BY <1>2, <3>1, <3>2 DEF Load, Ends, Becomes, Calls
    <3>7. Dispatch(old)
      BY <2>4, <3>3, <3>4, <3>5, <3>6 DEF Serve
    <3> DEFINE answer == dispatch(members, old.book, Contextual(old.command))
    <3>8. ~Ends(old, answer.kind)
      BY <1>2, <3>2 DEF Ends, Becomes, Calls
    <3>9. PICK event \in EventAnys :
            /\ answer = Events(new_event_book(event, next_sequence(old.book)))
            /\ Becomes(old, [old EXCEPT !.stage = "decided", !.answer = answer])
      BY <3>7, <3>8, DispatchShape
    <3>10. call = [old EXCEPT !.stage = "decided", !.answer = answer]
      BY <1>2, <3>9 DEF Becomes
    <3> QED  BY <3>1, <3>9, <3>10 DEF Calls
  <2> QED  BY <2>1, <2>2, <2>3, <2>4 DEF Next
<1> QED  BY <1>1, <1>2

LEMMA BaseStep ==
    ASSUME Base, [Next]_vars
    PROVE  Base'
<1>1. CASE \E c \in Clients : Application(c)
  BY <1>1, ApplicationType, AnsweredStep DEF Base
<1>2. CASE \E call \in calls : Serve(call) \/ Lose(call)
  BY <1>2, CoordinatorType, AnsweredStep DEF Base
<1>3. CASE \E root \in Roots : TakeSnapshot(root)
  BY <1>3, SnapshotType, AnsweredStep DEF Base
<1>4. CASE UNCHANGED vars
  BY <1>4, AnsweredStep DEF Base, TypeOK, vars
<1> QED  BY <1>1, <1>2, <1>3, <1>4 DEF Next

LEMMA BaseInit == Init => Base
<1> SUFFICES ASSUME Init PROVE Base
  OBVIOUS
<1>1. 0 \in 0..MaxBooks /\ 0 \in 0..MaxTries
  BY BoundsAssumption
<1>2. <<>> \in Seq(Pages)
  OBVIOUS
<1> QED  BY <1>1, <1>2 DEF Init, Base, TypeOK, Answered

LEMMA BaseInvariant == Spec => []Base
<1> QED  BY BaseInit, BaseStep, PTL DEF Spec

\* Every variable stays within its type, whatever applications, books, retries
\* and user methods there are.
THEOREM TypeCorrect == Spec => []TypeOK
<1>1. Base => TypeOK
  BY DEF Base
<1> QED  BY <1>1, BaseInvariant, PTL

-----------------------------------------------------------------------------
(***************************************************************************)
(* Sequences.  The log only grows, so the sequence an application read, and *)
(* the one in a loaded book, are lengths the log has reached.               *)
(***************************************************************************)
Extends(old, new) ==
    /\ Len(new) \in Nat /\ Len(old) <= Len(new)
    /\ \A i \in 1..Len(old) : new[i] = old[i]

\* Recorded events are never taken back or changed.
LEMMA LogGrows ==
    ASSUME Base, [Next]_vars, NEW root \in Roots
    PROVE  Extends(log[root], log'[root])
<1>1. log[root] \in Seq(Pages)
  BY DEF Base, TypeOK
<1>2. CASE log' = log
  BY <1>1, <1>2 DEF Extends
<1>3. CASE log' # log
  <2>1. PICK call \in calls : Record(call)
    BY <1>3 DEF Next, vars, Application, Prepare, Send, Receive, Disconnect, GiveUp,
                Serve, Accept, Load, Dispatch, Lose, TakeSnapshot
  <2> DEFINE entry == Recorded(Head(call.answer.book.pages), call.command)
  <2>2. entry \in Pages /\ log \in [Roots -> Seq(Pages)]
    BY <2>1, RecordShape DEF Base, TypeOK
  <2>3. log' = [log EXCEPT ![call.command.root] = Append(@, entry)]
    BY <1>3, <2>1 DEF Record
  <2> QED  BY <1>1, <2>2, <2>3 DEF Extends
<1> QED  BY <1>2, <1>3

\* Where a call is: what it read, what it loaded, and the log.
InStep(call, length) ==
    /\ call.command.sequence = call.seen
    /\ call.seen <= length
    /\ call.stage \in {"loaded", "decided"} =>
         call.seen <= next_sequence(call.book) /\ next_sequence(call.book) <= length
    /\ call.status = "conflict" => call.seen < length

Sequences ==
    /\ \A c \in Clients : client[c].pc # "idle" =>
         /\ client[c].command.sequence = client[c].seen
         /\ client[c].seen <= Len(log[client[c].command.root])
    /\ \A call \in calls : InStep(call, Len(log[call.command.root]))

LEMMA InStepGrows ==
    ASSUME NEW call \in Calls, NEW m \in Nat, NEW n \in Nat, m <= n, InStep(call, m)
    PROVE  InStep(call, n)
<1>1. next_sequence(call.book) \in Nat /\ call.seen \in Nat
  BY NextSequenceType DEF Calls
<1> QED  BY <1>1 DEF InStep

LEMMA SequencesClients ==
    ASSUME Base, Sequences, [Next]_vars, NEW c \in Clients, client'[c].pc # "idle"
    PROVE  /\ client'[c].command.sequence = client'[c].seen
           /\ client'[c].seen <= Len(log'[client'[c].command.root])
<1> DEFINE root == client[c].command.root
<1>1. CASE client'[c].command = client[c].command /\ client'[c].seen = client[c].seen
           /\ client[c].pc # "idle"
  <2>1. root \in Roots /\ client[c].seen \in Nat /\ Len(log[root]) \in Nat
    BY <1>1 DEF Base, TypeOK, CommandBooks
  <2> QED  BY <1>1, <2>1, LogGrows DEF Sequences, Extends
<1>2. CASE Prepare(c)
  <2>1. PICK r \in Roots : \E url \in Urls, mode \in SyncModes : \E book \in Stored(r) :
          client' = [client EXCEPT ![c] =
             [pc |-> "ready", built |-> @.built + 1, try |-> 0, mode |-> mode,
              seen |-> Len(log[r]),
              command |-> build(c, @.built + 1, r, next_sequence(book), url)]]
    BY <1>2 DEF Prepare
  <2>2. Len(log[r]) \in Nat /\ \A book \in Stored(r) : next_sequence(book) = Len(log[r])
    BY StoredType DEF Base, TypeOK
  <2>3. client'[c].seen = Len(log[r]) /\ client'[c].command.root = r
        /\ client'[c].command.sequence = Len(log[r])
    BY <2>1, <2>2 DEF build, Base, TypeOK
  <2>4. log' = log
    BY <1>2 DEF Prepare
  <2> QED  BY <2>2, <2>3, <2>4
<1>3. ASSUME ~Prepare(c)
      PROVE  /\ client[c].pc # "idle"
             /\ client'[c].command = client[c].command
             /\ client'[c].seen = client[c].seen
  <2>1. ASSUME NEW d \in Clients, Application(d)
        PROVE  \/ client'[c] = client[c]
               \/ /\ client[c].pc # "idle"
                  /\ client'[c].command = client[c].command
                  /\ client'[c].seen = client[c].seen
    <3> USE DEF Base, TypeOK
    <3>1. CASE Prepare(d)
      BY <1>3, <3>1 DEF Prepare
    <3>2. CASE Send(d)
      BY <3>2 DEF Send
    <3>3. CASE Receive(d)
      BY <3>3 DEF Receive
    <3>4. CASE Disconnect(d)
      BY <3>4 DEF Disconnect
    <3>5. CASE GiveUp(d)
      BY <3>5 DEF GiveUp
    <3> QED  BY <2>1, <3>1, <3>2, <3>3, <3>4, <3>5 DEF Application
  <2>2. CASE client' = client
    BY <2>2
  <2> QED  BY <2>1, <2>2 DEF Next, vars, Serve, Accept, Load, Dispatch, Record, Lose, TakeSnapshot
<1> QED  BY <1>1, <1>2, <1>3

LEMMA SequencesCalls ==
    ASSUME Base, Sequences, [Next]_vars, NEW call \in calls'
    PROVE  InStep(call, Len(log'[call.command.root]))
<1> DEFINE length(x) == Len(log[x.command.root])
           longer(x) == Len(log'[x.command.root])
<1>1. \A x \in calls : /\ x \in Calls /\ x.command.root \in Roots
                       /\ length(x) \in Nat /\ longer(x) \in Nat
                       /\ length(x) <= longer(x)
                       /\ InStep(x, length(x))
  <2>1. \A x \in calls : x \in Calls /\ x.command.root \in Roots /\ InStep(x, length(x))
    BY DEF Base, TypeOK, Calls, CommandBooks, Sequences
  <2>2. \A root \in Roots : Len(log[root]) \in Nat
    BY DEF Base, TypeOK
  <2> QED  BY <2>1, <2>2, LogGrows DEF Extends
<1>2. CASE call \in calls
  BY <1>1, <1>2, InStepGrows
<1>3. CASE call \notin calls
  <2>1. CASE \E c \in Clients : Application(c)
    <3>1. PICK c \in Clients : Send(c)
      BY <1>3, <2>1 DEF Application, Prepare, Receive, Disconnect, GiveUp
    <3>2. call = Request(client[c].command, client[c].try + 1, client[c].mode, client[c].seen)
          /\ client[c].pc # "idle" /\ log' = log
      BY <1>3, <3>1 DEF Send
    <3> QED  BY <3>2 DEF Sequences, InStep, Request
  <2>2. CASE (\E root \in Roots : TakeSnapshot(root)) \/ UNCHANGED vars
    BY <1>3, <2>2 DEF TakeSnapshot, vars
  <2>3. ASSUME NEW old \in calls, Serve(old) \/ Lose(old)
        PROVE  InStep(call, longer(call))
    <3>1. Again(old) \in Calls /\ old \in Calls
      BY <1>1, RequestType DEF Again, Calls, CommandBooks
    <3>2. old.command.sequence = old.seen /\ old.seen <= length(old) /\ old.seen \in Nat
          /\ InStep(old, longer(old)) /\ old.seen <= longer(old)
      BY <1>1, InStepGrows DEF InStep, Calls
    <3>3. CASE Accept(old)
      <4>1. call = [old EXCEPT !.stage = "accepted"]
        BY <1>3, <3>3 DEF Accept, Becomes
      <4> QED  BY <3>1, <3>2, <4>1 DEF InStep, Calls
    <3>4. CASE Lose(old)
      <4>1. call = [Again(old) EXCEPT !.stage = "lost"]
        BY <1>3, <3>4 DEF Lose, Becomes
      <4> QED  BY <3>1, <3>2, <4>1 DEF InStep, Calls, Again, Request
    <3>5. CASE Load(old)
      <4>1. PICK book \in Stored(old.command.root) :
             /\ next_sequence(book) = length(old)
             /\ \/ /\ Locking /\ old.command.sequence # next_sequence(book)
                   /\ Ends(old, "conflict")
                \/ Becomes(old, [old EXCEPT !.stage = "loaded", !.book = book])
        BY <3>5, LoadShape DEF Base
      <4>2. log' = log
        BY <3>5 DEF Load
      <4>3. CASE old.command.sequence # next_sequence(book) /\ Ends(old, "conflict")
        <5>1. call = [Again(old) EXCEPT !.stage = "done", !.status = "conflict"]
          BY <1>3, <4>3 DEF Ends, Becomes
        <5>2. old.seen < length(old)
          BY <1>1, <3>2, <4>1, <4>3
        <5> QED  BY <3>1, <3>2, <4>2, <5>1, <5>2 DEF InStep, Again, Request
      <4>4. CASE Becomes(old, [old EXCEPT !.stage = "loaded", !.book = book])
        <5>1. call = [old EXCEPT !.stage = "loaded", !.book = book]
          BY <1>3, <4>4 DEF Becomes
        <5>2. next_sequence(call.book) = length(old) /\ call.stage = "loaded"
              /\ call.command = old.command /\ call.seen = old.seen
              /\ call.status = old.status
          BY <3>1, <4>1, <5>1 DEF Calls
        <5> QED  BY <1>1, <3>1, <3>2, <4>2, <5>2 DEF InStep
      <4> QED  BY <4>1, <4>3, <4>4
    <3>6. CASE Dispatch(old)
      <4> DEFINE answer == dispatch(members, old.book, Contextual(old.command))
      <4>1. \/ answer \in {InvalidArgument, CommandRejected} /\ Ends(old, answer.kind)
            \/ Becomes(old, [old EXCEPT !.stage = "decided", !.answer = answer])
        BY <3>6, DispatchShape DEF Base
      <4>2. CASE answer \in {InvalidArgument, CommandRejected} /\ Ends(old, answer.kind)
        <5>1. call = [Again(old) EXCEPT !.stage = "done", !.status = answer.kind]
          BY <1>3, <4>2 DEF Ends, Becomes
        <5>2. answer.kind # "conflict"
          BY <4>2 DEF InvalidArgument, CommandRejected, Throws
        <5> QED  BY <3>1, <3>2, <5>1, <5>2 DEF InStep, Again, Request
      <4>3. CASE Becomes(old, [old EXCEPT !.stage = "decided", !.answer = answer])
        <5>1. call = [old EXCEPT !.stage = "decided", !.answer = answer]
          BY <1>3, <4>3 DEF Becomes
        <5>2. old.stage = "loaded"
          BY <3>6 DEF Dispatch
        <5> QED  BY <3>1, <3>2, <5>1, <5>2 DEF InStep, Calls
      <4> QED  BY <4>1, <4>2, <4>3
    <3>7. CASE Record(old)
      <4> DEFINE page == Head(old.answer.book.pages)
      <4>1. page.sequence = next_sequence(old.book) /\ page.sequence \in Nat
        BY <3>7, RecordShape
      <4>2. CASE page.sequence = length(old)
        <5>1. call = [Again(old) EXCEPT !.stage = "done", !.status = "ok"]
          BY <1>3, <3>7, <4>2 DEF Record, Ends, Becomes
        <5> QED  BY <3>1, <3>2, <5>1 DEF InStep, Again, Request
      <4>3. CASE page.sequence # length(old)
        <5>1. call = [Again(old) EXCEPT !.stage = "done", !.status = "conflict"]
          BY <1>3, <3>7, <4>3 DEF Record, Ends, Becomes
        <5>2. old.seen <= page.sequence /\ page.sequence <= length(old)
          BY <1>1, <3>7, <4>1 DEF InStep, Record
        <5>3. old.seen < longer(old)
          BY <1>1, <3>2, <4>1, <4>3, <5>2
        <5> QED  BY <3>1, <3>2, <5>1, <5>3 DEF InStep, Again, Request
      <4> QED  BY <4>2, <4>3
    <3> QED  BY <2>3, <3>3, <3>4, <3>5, <3>6, <3>7 DEF Serve
  <2> QED  BY <2>1, <2>2, <2>3 DEF Next
<1> QED  BY <1>2, <1>3

LEMMA SequencesInvariant == Spec => []Sequences
<1>1. Init => Sequences
  BY DEF Init, Sequences
<1>2. Base /\ Sequences /\ [Next]_vars => Sequences'
  BY SequencesClients, SequencesCalls DEF Sequences
<1> QED  BY <1>1, <1>2, BaseInvariant, PTL DEF Spec

\* With or without the coordinator's check and its snapshots, a conflict means
\* that the aggregate moved on after the application looked.
THEOREM ConflictsAreReal == Spec => []ConflictMeansOvertaken
<1>1. Base /\ Sequences => ConflictMeansOvertaken
  <2> SUFFICES ASSUME Base, Sequences, NEW call \in calls, call.status = "conflict"
               PROVE  Len(log[call.command.root]) > call.seen
    BY DEF ConflictMeansOvertaken
  <2>1. call.command.root \in Roots /\ call.seen \in Nat
    BY DEF Base, TypeOK, Calls, CommandBooks
  <2>2. Len(log[call.command.root]) \in Nat
    BY <2>1 DEF Base, TypeOK
  <2> QED  BY <2>1, <2>2 DEF Sequences, InStep
<1> QED  BY <1>1, BaseInvariant, SequencesInvariant, PTL

-----------------------------------------------------------------------------
(***************************************************************************)
(* Histories.  While the coordinator takes no snapshots, a loaded book     *)
(* holds a prefix of the log, and prefixes do not change.                  *)
(***************************************************************************)
Prefix(history, n) == SubSeq(history, 1, n)

LEMMA PrefixOfExtension ==
    ASSUME NEW old \in Seq(Pages), NEW new \in Seq(Pages), Extends(old, new),
           NEW n \in 0..Len(old)
    PROVE  Prefix(new, n) = Prefix(old, n)
<1>1. n \in Nat /\ Len(old) \in Nat /\ Len(new) \in Nat /\ n <= Len(old) /\ n <= Len(new)
  BY DEF Extends
<1>2. \A i \in 1..n : old[i] \in Pages /\ new[i] \in Pages /\ new[i] = old[i]
  BY <1>1, ElementOfSeq DEF Extends
<1>3. /\ SubSeq(old, 1, n) \in Seq(Pages) /\ SubSeq(new, 1, n) \in Seq(Pages)
      /\ Len(SubSeq(old, 1, n)) = n /\ Len(SubSeq(new, 1, n)) = n
      /\ \A i \in 1..n : SubSeq(old, 1, n)[i] = old[i] /\ SubSeq(new, 1, n)[i] = new[i]
  BY <1>1, <1>2, SubSeqProperties
<1> QED  BY <1>2, <1>3, SeqEqual DEF Prefix

\* Dispatch on a book that holds the whole history decides what SequencedLog's
\* atomic step decides, whatever the one instance's members held before.
LEMMA DispatchDecides ==
    ASSUME NEW history, NEW book, NEW command,
           book.pages = history, next_sequence(book) = Len(history)
    PROVE  LET answer == dispatch(members, book, Contextual(command))
           IN  Decision(history, command) =
                 IF answer.kind = "events"
                 THEN {Recorded(Head(answer.book.pages), command)}
                 ELSE {}
<1> DEFINE whole == Book(Len(history), history)
<1>1. whole.pages = book.pages /\ next_sequence(whole) = next_sequence(book)
  BY DEF Book, next_sequence
<1>2. dispatch([state |-> Factory, exists |-> FALSE], whole, Contextual(command))
      = dispatch(members, book, Contextual(command))
  <2>1. dispatch(members, whole, Contextual(command))
        = dispatch(members, book, Contextual(command))
    BY <1>1 DEF dispatch, rebuilt, replay
  <2> QED  BY <2>1, DispatchForgets
<1> QED  BY <1>2 DEF Decision

\* The coordinator without snapshots: what a call loaded, and what it decided.
OnHistory(call, history) ==
    LET n == next_sequence(call.book)
    IN  /\ call.stage \in {"loaded", "decided"} => call.book.pages = Prefix(history, n)
        /\ call.stage = "decided" =>
             Recorded(Head(call.answer.book.pages), call.command)
                 \in Decision(Prefix(history, n), call.command)

Histories ==
    /\ \A root \in Roots : snapped[root] = 0
    /\ \A call \in calls : OnHistory(call, log[call.command.root])
    /\ DecidedOnHistory

LEMMA StoredHistory ==
    ASSUME Base, NEW root \in Roots, snapped[root] = 0, NEW book \in Stored(root)
    PROVE  book.pages = Prefix(log[root], Len(log[root]))
<1>1. log[root] \in Seq(Pages)
  BY DEF Base, TypeOK
<1>2. SubSeq(log[root], 1, Len(log[root])) = log[root]
  BY <1>1, SubSeqFull
<1>3. CASE book = StoredBook(log[root], 0)
  BY <1>3 DEF StoredBook, Book, Prefix
<1>4. CASE book = NoBook /\ log[root] = <<>>
  BY <1>2, <1>4 DEF NoBook, Prefix
<1> QED  BY <1>3, <1>4 DEF Stored

LEMMA OnHistoryGrows ==
    ASSUME Base, Sequences, [Next]_vars, NEW call \in calls,
           OnHistory(call, log[call.command.root]), Base'
    PROVE  OnHistory(call, log'[call.command.root])
<1> DEFINE root == call.command.root
           n == next_sequence(call.book)
<1>1. root \in Roots /\ n \in Nat
  BY NextSequenceType DEF Base, TypeOK, Calls, CommandBooks
<1>2. log[root] \in Seq(Pages) /\ log'[root] \in Seq(Pages) /\ Extends(log[root], log'[root])
  BY <1>1, LogGrows DEF Base, TypeOK
<1>3. CASE call.stage \in {"loaded", "decided"}
  <2>1. n \in 0..Len(log[root])
    BY <1>1, <1>3 DEF Sequences, InStep
  <2>2. Prefix(log'[root], n) = Prefix(log[root], n)
    BY <1>2, <2>1, PrefixOfExtension
  <2> QED  BY <2>2 DEF OnHistory
<1>4. CASE call.stage \notin {"loaded", "decided"}
  BY <1>4 DEF OnHistory
<1> QED  BY <1>3, <1>4

LEMMA HistoriesCalls ==
    ASSUME Base, Base', Sequences, Histories, [Next]_vars, NEW call \in calls'
    PROVE  OnHistory(call, log'[call.command.root])
<1> DEFINE new(x) == log'[x.command.root]
           old(x) == log[x.command.root]
<1>1. \A x \in calls : OnHistory(x, new(x))
  BY OnHistoryGrows DEF Histories
<1>2. CASE call \in calls
  BY <1>1, <1>2
<1>3. CASE call \notin calls
  <2>1. CASE call.stage \notin {"loaded", "decided"}
    BY <2>1 DEF OnHistory
  <2>2. ASSUME NEW before \in calls, Load(before), call.stage = "loaded"
        PROVE  OnHistory(call, new(call))
    <3>1. before \in Calls /\ before.command.root \in Roots /\ Again(before) \in Calls
      BY RequestType DEF Base, TypeOK, Again, Calls, CommandBooks
    <3>2. PICK book \in Stored(before.command.root) :
            /\ next_sequence(book) = Len(old(before))
            /\ \/ Ends(before, "conflict")
               \/ Becomes(before, [before EXCEPT !.stage = "loaded", !.book = book])
      BY <2>2, LoadShape DEF Base
    <3>3. ~Ends(before, "conflict")
      BY <1>3, <2>2, <3>1 DEF Ends, Becomes, Calls
    <3>4. call = [before EXCEPT !.stage = "loaded", !.book = book]
      BY <1>3, <3>2, <3>3 DEF Becomes
    <3>5. call.book = book /\ call.command = before.command /\ call.stage = "loaded"
      BY <3>1, <3>4 DEF Calls
    <3>6. book.pages = Prefix(old(before), Len(old(before)))
      BY <3>1, StoredHistory DEF Histories
    <3>7. log' = log
      BY <2>2 DEF Load
    <3> QED  BY <3>2, <3>5, <3>6, <3>7 DEF OnHistory
  <2>3. ASSUME NEW before \in calls, Dispatch(before), call.stage = "decided"
        PROVE  OnHistory(call, new(call))
    <3> DEFINE answer == dispatch(members, before.book, Contextual(before.command))
               n == next_sequence(before.book)
               history == Prefix(old(before), n)
    <3>1. before \in Calls /\ before.command.root \in Roots /\ Again(before) \in Calls
      BY RequestType DEF Base, TypeOK, Again, Calls, CommandBooks
    <3>2. ~Ends(before, answer.kind)
      BY <1>3, <2>3, <3>1 DEF Ends, Becomes, Calls
    <3>3. PICK event \in EventAnys :
            /\ answer = Events(new_event_book(event, n))
            /\ Becomes(before, [before EXCEPT !.stage = "decided", !.answer = answer])
      BY <2>3, <3>2, DispatchShape DEF Base
    <3>4. call = [before EXCEPT !.stage = "decided", !.answer = answer]
      BY <1>3, <3>3 DEF Becomes
    <3>5. call.book = before.book /\ call.command = before.command
          /\ call.answer = answer
      BY <3>1, <3>4 DEF Calls
    <3>6. before.stage = "loaded" /\ log' = log
      BY <2>3 DEF Dispatch
    <3>7. before.book.pages = history
      BY <3>6 DEF Histories, OnHistory
    <3>8. n \in 0..Len(old(before)) /\ old(before) \in Seq(Pages) /\ n \in Nat
      <4>1. n \in Nat
        BY <3>1, NextSequenceType DEF Calls
      <4>2. old(before) \in Seq(Pages)
        BY <3>1 DEF Base, TypeOK
      <4>3. InStep(before, Len(old(before)))
        BY DEF Sequences
      <4> QED  BY <3>6, <4>1, <4>2, <4>3 DEF InStep
    <3>9. Len(history) = n
      <4>1. \A i \in 1..n : old(before)[i] \in Pages
        BY <3>8, ElementOfSeq
      <4> QED  BY <3>8, <4>1, SubSeqProperties DEF Prefix
    <3>10. answer.kind = "events"
      BY <3>1, <3>3, <3>8, DecidedType
    <3>11. Decision(history, before.command)
             = {Recorded(Head(answer.book.pages), before.command)}
      BY <3>7, <3>9, <3>10, DispatchDecides
    <3> QED  BY <3>5, <3>6, <3>7, <3>11 DEF OnHistory
  <2>4. ASSUME call.stage \in {"loaded", "decided"}
        PROVE  \E before \in calls : \/ Load(before) /\ call.stage = "loaded"
                                     \/ Dispatch(before) /\ call.stage = "decided"
    <3>1. \A x \in calls : x \in Calls /\ Again(x) \in Calls
      BY RequestType DEF Base, TypeOK, Again, Calls, CommandBooks
    <3>2. CASE \E c \in Clients : Application(c)
      BY <1>3, <2>4, <3>2
      DEF Application, Prepare, Send, Receive, Disconnect, GiveUp, Request
    <3>3. CASE (\E root \in Roots : TakeSnapshot(root)) \/ UNCHANGED vars
      BY <1>3, <3>3 DEF TakeSnapshot, vars
    <3>4. ASSUME NEW before \in calls, Serve(before) \/ Lose(before)
          PROVE  \/ Load(before) /\ call.stage = "loaded"
                 \/ Dispatch(before) /\ call.stage = "decided"
      <4>1. ~Accept(before)
        BY <1>3, <2>4, <3>1 DEF Accept, Becomes, Calls
      <4>2. ~Lose(before)
        BY <1>3, <2>4, <3>1 DEF Lose, Becomes, Calls
      <4>3. ~Record(before)
        BY <1>3, <2>4, <3>1 DEF Record, Ends, Becomes, Calls
      <4>4. Load(before) => call.stage = "loaded"
        BY <1>3, <2>4, <3>1 DEF Load, Ends, Becomes, Calls
      <4>5. Dispatch(before) => call.stage = "decided"
        BY <1>3, <2>4, <3>1 DEF Dispatch, Ends, Becomes, Calls
      <4> QED  BY <3>4, <4>1, <4>2, <4>3, <4>4, <4>5 DEF Serve
    <3> QED  BY <3>2, <3>3, <3>4 DEF Next
  <2> QED  BY <2>1, <2>2, <2>3, <2>4
<1> QED  BY <1>2, <1>3

LEMMA HistoriesLog ==
    ASSUME Base, Base', Sequences, Histories, [Next]_vars
    PROVE  DecidedOnHistory'
<1> SUFFICES ASSUME NEW root \in Roots, NEW i \in DOMAIN log'[root]
             PROVE  /\ log'[root][i] \in Decision(Prefix(log'[root], i - 1), log'[root][i].by)
                    /\ log'[root][i].sequence = i - 1
  BY DEF DecidedOnHistory, Prefix
<1>1. log[root] \in Seq(Pages) /\ log'[root] \in Seq(Pages) /\ Extends(log[root], log'[root])
  BY LogGrows DEF Base, TypeOK
<1>2. i \in Nat /\ i - 1 \in Nat /\ i \in 1..Len(log'[root])
  BY <1>1
<1>3. CASE i \in 1..Len(log[root])
  <2>1. log'[root][i] = log[root][i] /\ i \in DOMAIN log[root]
    BY <1>1, <1>3 DEF Extends
  <2>2. Prefix(log'[root], i - 1) = Prefix(log[root], i - 1)
    BY <1>1, <1>2, <1>3, PrefixOfExtension
  <2>3. /\ log[root][i] \in Decision(Prefix(log[root], i - 1), log[root][i].by)
        /\ log[root][i].sequence = i - 1
    BY <2>1 DEF Histories, DecidedOnHistory, Prefix
  <2>4. log'[root][i] \in Decision(Prefix(log'[root], i - 1), log'[root][i].by)
    BY <2>1, <2>2, <2>3
  <2> QED  BY <2>1, <2>3, <2>4
<1>4. CASE i \notin 1..Len(log[root])
  <2>1. log'[root] # log[root]
    BY <1>2, <1>4
  <2>2. PICK call \in calls : Record(call)
    BY <2>1 DEF Next, vars, Application, Prepare, Send, Receive, Disconnect, GiveUp,
                Serve, Accept, Load, Dispatch, Lose, TakeSnapshot
  <2> DEFINE page == Head(call.answer.book.pages)
             entry == Recorded(page, call.command)
             n == Len(log[root])
  <2>3. log' = [log EXCEPT ![call.command.root] = Append(@, entry)]
        /\ page.sequence = Len(log[call.command.root])
    BY <2>1, <2>2 DEF Record
  <2>4. call.command.root = root /\ log'[root] = Append(log[root], entry)
    BY <2>1, <2>3 DEF Base, TypeOK
  <2>5. i = n + 1 /\ log'[root][i] = entry /\ n \in Nat /\ entry \in Pages
    BY <1>1, <1>2, <1>4, <2>2, <2>4, RecordShape
  <2>6. Prefix(log'[root], n) = Prefix(log[root], n)
    BY <1>1, <2>5, PrefixOfExtension
  <2>7. page.sequence = next_sequence(call.book) /\ page.sequence = n
    BY <2>2, <2>3, <2>4, RecordShape
  <2>8. entry \in Decision(Prefix(log[root], n), call.command)
    BY <2>2, <2>4, <2>7 DEF Histories, OnHistory, Record
  <2>9. entry.by = call.command /\ entry.sequence = n
    BY <2>7 DEF Recorded
  <2> QED  BY <2>5, <2>6, <2>8, <2>9
<1> QED  BY <1>3, <1>4

LEMMA HistoriesInvariant ==
    ASSUME ~Snapshots
    PROVE  Spec => []Histories
<1>1. Init => Histories
  BY DEF Init, Histories, DecidedOnHistory
<1>2. ASSUME Base, Base', Sequences, Histories, [Next]_vars
      PROVE  Histories'
  <2>1. \A root \in Roots : snapped'[root] = 0
    BY <1>2 DEF Histories, Next, vars, Application, Prepare, Send, Receive, Disconnect, GiveUp,
                Serve, Accept, Load, Dispatch, Record, Lose, TakeSnapshot
  <2> QED  BY <1>2, <2>1, HistoriesCalls, HistoriesLog DEF Histories
<1> QED  BY <1>1, <1>2, BaseInvariant, SequencesInvariant, PTL DEF Spec

\* However commands, retries and lost connections interleave, and whether or
\* not the coordinator compares sequences: without snapshots the stamp and the
\* store's free-slot rule alone make the log one that a serial run explains.
THEOREM Serializable ==
    ASSUME ~Snapshots
    PROVE  Spec => []DecidedOnHistory
<1>1. Histories => DecidedOnHistory
  BY DEF Histories
<1> QED  BY <1>1, HistoriesInvariant, PTL

-----------------------------------------------------------------------------
(***************************************************************************)
(* exists().  Replaying pages that all hold an event tells a method that   *)
(* its aggregate exists as soon as there is one.                           *)
(***************************************************************************)
ReplayedBy(m, page, fixed) == replay_page(m, page)

Replaying == INSTANCE FoldFacts WITH Step <- ReplayedBy

\* A method that asks require_not_exists makes a creation of no aggregate that
\* exists, whatever its state.
CreationsRequireNotExists == \A state, url : Method(state, TRUE, url) \notin Creations

LEMMA ReplayIsFold ==
    ASSUME NEW m, NEW book
    PROVE  replay(m, book) = Replaying!Fold(m, book.pages, 0)
BY DEF replay, ReplayedBy, FoldLeft, MapThenFoldSet, Max,
       Replaying!Fold, Replaying!FoldLeft, Replaying!MapThenFoldSet, Replaying!Max

LEMMA ReplayTurn ==
    ASSUME NEW m, NEW b, IsSequence(b), NEW page
    PROVE  /\ Replaying!Fold(m, <<>>, 0) = m
           /\ Replaying!Fold(m, Append(b, page), 0) = replay_page(Replaying!Fold(m, b, 0), page)
<1>1. Replaying!Fold(m, Append(b, page), 0) = ReplayedBy(Replaying!Fold(m, b, 0), page, 0)
  BY Replaying!FoldAppend DEF IsSequence, ToSet, Replaying!IsSequence, Replaying!ToSet
<1> QED  BY <1>1, Replaying!FoldNothing DEF ReplayedBy

LEMMA PageMakesExist ==
    ASSUME NEW m, DOMAIN m = {"state", "exists"}, NEW page \in Pages
    PROVE  DOMAIN replay_page(m, page) = {"state", "exists"} /\ replay_page(m, page).exists = TRUE
BY EventsAssumption DEF replay_page, has_event, Pages

LEMMA HistoryMakesExist ==
    ASSUME NEW m, NEW history \in Seq(Pages), Len(history) > 0, NEW book, book.pages = history
    PROVE  rebuilt(m, book).exists = TRUE
<1> DEFINE n == Len(history)
           First(j) == SubSeq(history, 1, j)
           Run(j) == Replaying!Fold(reset(m), First(j), 0)
           T == {j \in 0..n : DOMAIN Run(j) = {"state", "exists"} /\ (j > 0 => Run(j).exists = TRUE)}
<1>1. n \in Nat /\ n > 0 /\ IsSequence(history) /\ \A j \in 1..n : history[j] \in Pages
  BY SeqIsSequence, ElementOfSeq
<1>2. 0 \in T
  <2>1. Run(0) = reset(m)
    BY <1>1, WholeFront, EmptyIsSequence, ReplayTurn
  <2> QED  BY <1>1, <2>1 DEF reset
<1>3. ASSUME NEW j \in 1..n, j - 1 \in T
      PROVE  j \in T
  <2>1. j \in 0..n /\ j - 1 \in 0..n
    BY <1>1
  <2>2. First(j) = Append(First(j - 1), history[j]) /\ IsSequence(First(j - 1))
    BY <1>1, <2>1, FrontGrows, FrontFacts
  <2> HIDE DEF First
  <2>3. Run(j) = replay_page(Run(j - 1), history[j])
    BY <2>2, ReplayTurn
  <2>4. DOMAIN Run(j - 1) = {"state", "exists"} /\ history[j] \in Pages
    BY <1>1, <1>3
  <2> HIDE DEF Run
  <2>5. DOMAIN Run(j) = {"state", "exists"} /\ Run(j).exists = TRUE
    BY <2>3, <2>4, PageMakesExist
  <2> QED  BY <2>1, <2>5
<1> HIDE DEF T
<1>4. 0..n \subseteq T
  BY <1>1, <1>2, <1>3, InductionUpTo
<1>5. n \in T
  BY <1>1, <1>4
<1>6. Run(n).exists = TRUE
  BY <1>1, <1>5 DEF T
<1>7. First(n) = history
  BY <1>1, WholeFront
<1> QED  BY <1>6, <1>7, ReplayIsFold DEF rebuilt

\* What is decided on a history with events was decided by a method that was
\* told so.
LEMMA DecisionsCreateNothing ==
    ASSUME CreationsRequireNotExists, NEW history \in Seq(Pages), Len(history) > 0,
           NEW command \in CommandBooks, NEW entry \in Decision(history, command)
    PROVE  entry.event \notin Creations
<1> DEFINE book == Book(Len(history), history)
           m == rebuilt([state |-> Factory, exists |-> FALSE], book)
           answer == respond(m, next_sequence(book), Contextual(command))
<1>1. book.pages = history /\ next_sequence(book) = Len(history)
  BY DEF Book, next_sequence
<1>2. m.exists = TRUE
  BY <1>1, HistoryMakesExist
<1>3. answer = dispatch([state |-> Factory, exists |-> FALSE], book, Contextual(command))
  BY DEF dispatch
<1>4. answer.kind = "events" /\ entry = Recorded(Head(answer.book.pages), command)
  BY <1>3 DEF Decision
<1> HIDE DEF m
<1>5. PICK event : answer = Events(new_event_book(event, next_sequence(book)))
                   /\ event = Method(m.state, m.exists, command.url)
  <2>1. LET urls == Contextual(command).urls
        IN  urls = <<command.url>> /\ urls # <<>> /\ Head(urls) = command.url
    BY DEF Contextual
  <2>2. ~type_url_matches(command.url, NotificationType)
    BY UrlsAssumption DEF CommandBooks
  <2>3. /\ InvalidArgument.kind # "events" /\ CommandRejected.kind # "events"
    BY DEF InvalidArgument, CommandRejected, Throws
  <2> QED  BY <1>4, <2>1, <2>2, <2>3 DEF respond, execute
<1>6. event \notin Creations
  BY <1>2, <1>5 DEF CreationsRequireNotExists
<1>7. Head(answer.book.pages).event = event
  BY <1>5 DEF Events, new_event_book, Book
<1> QED  BY <1>4, <1>6, <1>7 DEF Recorded

\* Without snapshots exists() tells every method the truth: an event that the
\* methods make only of an aggregate that does not exist comes first in its log.
THEOREM CreatedAtMostOnce ==
    ASSUME ~Snapshots, CreationsRequireNotExists
    PROVE  Spec => []NoSecondCreate
<1>1. Base /\ Histories => NoSecondCreate
  <2> SUFFICES ASSUME Base, Histories, NEW root \in Roots, NEW i \in DOMAIN log[root], i > 1
               PROVE  log[root][i].event \notin Creations
    BY DEF NoSecondCreate
  <2>1. log[root] \in Seq(Pages) /\ i \in 1..Len(log[root]) /\ Len(log[root]) \in Nat
    BY DEF Base, TypeOK
  <2>2. log[root][i].by \in CommandBooks
    <3>1. log[root][i] \in Pages
      BY <2>1, ElementOfSeq
    <3> QED  BY <3>1 DEF Pages
  <2>3. Prefix(log[root], i - 1) \in Seq(Pages) /\ Len(Prefix(log[root], i - 1)) = i - 1
    <3>1. \A k \in 1..i - 1 : log[root][k] \in Pages
      BY <2>1, ElementOfSeq
    <3> QED  BY <2>1, <3>1, SubSeqProperties DEF Prefix
  <2>4. log[root][i] \in Decision(Prefix(log[root], i - 1), log[root][i].by)
    BY DEF Histories, DecidedOnHistory, Prefix
  <2> QED  BY <2>1, <2>2, <2>3, <2>4, DecisionsCreateNothing
<1> QED  BY <1>1, BaseInvariant, HistoriesInvariant, PTL

-----------------------------------------------------------------------------
(***************************************************************************)
(* Identities.  A client and a number name one command book.               *)
(***************************************************************************)
Identities ==
    /\ \A c \in Clients : client[c].pc # "idle" =>
         client[c].command.client = c /\ client[c].command.number = client[c].built
    /\ \A call \in calls :
         LET c == call.command.client
         IN  /\ call.command.number <= client[c].built
             /\ call.command.number = client[c].built => call.command = client[c].command
    /\ \A x, y \in calls : /\ x.command.client = y.command.client
                           /\ x.command.number = y.command.number
                           => x.command = y.command

\* A coordinator step replaces one call by one for the same command book.
LEMMA SuccessorCall ==
    ASSUME Base, NEW old \in calls, Serve(old) \/ Lose(old)
    PROVE  \E next : Becomes(old, next) /\ next.command = old.command
<1>1. old \in Calls /\ Again(old) \in Calls /\ Again(old).command = old.command
  BY RequestType DEF Base, TypeOK, Again, Calls, CommandBooks, Request
<1> DEFINE kept == \E next : Becomes(old, next) /\ next.command = old.command
<1>a. ASSUME NEW status, Ends(old, status)
      PROVE  kept
  <2>1. [Again(old) EXCEPT !.stage = "done", !.status = status].command = old.command
    BY <1>1 DEF Calls
  <2> QED  BY <1>a, <2>1 DEF Ends
<1>2. CASE Accept(old)
  <2>1. [old EXCEPT !.stage = "accepted"].command = old.command
    BY <1>1 DEF Calls
  <2> QED  BY <1>2, <2>1 DEF Accept
<1>3. CASE Lose(old)
  <2>1. [Again(old) EXCEPT !.stage = "lost"].command = old.command
    BY <1>1 DEF Calls
  <2> QED  BY <1>3, <2>1 DEF Lose
<1>4. CASE Record(old)  BY <1>a, <1>4 DEF Record
<1>5. CASE Load(old)
  <2>1. PICK book \in Stored(old.command.root) :
          \/ Ends(old, "conflict")
          \/ Becomes(old, [old EXCEPT !.stage = "loaded", !.book = book])
    BY <1>5 DEF Load
  <2>2. [old EXCEPT !.stage = "loaded", !.book = book].command = old.command
    BY <1>1 DEF Calls
  <2> QED  BY <1>a, <2>1, <2>2
<1>6. CASE Dispatch(old)
  <2> DEFINE answer == dispatch(members, old.book, Contextual(old.command))
  <2>1. \/ Ends(old, answer.kind)
        \/ Becomes(old, [old EXCEPT !.stage = "decided", !.answer = answer])
    BY <1>6 DEF Dispatch
  <2>2. [old EXCEPT !.stage = "decided", !.answer = answer].command = old.command
    BY <1>1 DEF Calls
  <2> QED  BY <1>a, <2>1, <2>2
<1> QED  BY <1>2, <1>3, <1>4, <1>5, <1>6 DEF Serve

\* Where the command books of the calls come from.
LEMMA CommandOrigin ==
    ASSUME Base, [Next]_vars, NEW call \in calls'
    PROVE  \/ \E old \in calls : call.command = old.command
           \/ \E c \in Clients : Send(c) /\ call.command = client[c].command
<1>1. CASE \E c \in Clients : Application(c)
  BY <1>1 DEF Application, Prepare, Send, Receive, Disconnect, GiveUp, Request
<1>2. CASE (\E root \in Roots : TakeSnapshot(root)) \/ UNCHANGED vars
  BY <1>2 DEF TakeSnapshot, vars
<1>3. CASE \E old \in calls : Serve(old) \/ Lose(old)
  BY <1>3, SuccessorCall DEF Becomes
<1> QED  BY <1>1, <1>2, <1>3 DEF Next

LEMMA IdentitiesStep ==
    ASSUME Base, Base', Identities, [Next]_vars
    PROVE  Identities'
<1> DEFINE own(c) == client[c].command
<1>1. \A call \in calls : /\ call.command.client \in Clients
                          /\ call.command.number \in Nat
  BY DEF Base, TypeOK, Calls, CommandBooks
<1>2. \A c \in Clients : client[c].built \in Nat
  BY DEF Base, TypeOK
<1>3. CASE \E c \in Clients : Prepare(c)
  <2>1. PICK c \in Clients : Prepare(c)
    BY <1>3
  <2>2. PICK root \in Roots, url \in Urls, mode \in SyncModes : \E book \in Stored(root) :
          client' = [client EXCEPT ![c] =
             [pc |-> "ready", built |-> @.built + 1, try |-> 0, mode |-> mode,
              seen |-> Len(log[root]),
              command |-> build(c, @.built + 1, root, next_sequence(book), url)]]
    BY <2>1 DEF Prepare
  <2>3. /\ client'[c].built = client[c].built + 1
        /\ client'[c].command.client = c
        /\ client'[c].command.number = client[c].built + 1
        /\ \A d \in Clients : d # c => client'[d] = client[d]
    BY <2>2 DEF Base, TypeOK, build
  <2>4. calls' = calls
    BY <2>1 DEF Prepare
  <2> QED  BY <1>1, <1>2, <2>3, <2>4 DEF Identities
<1>4. CASE ~\E c \in Clients : Prepare(c)
  <2>1. \A c \in Clients : /\ client'[c].command = client[c].command
                           /\ client'[c].built = client[c].built
                           /\ client'[c].pc # "idle" => client[c].pc # "idle"
    <3>1. CASE client' = client
      BY <3>1
    <3>2. ASSUME NEW c \in Clients, Application(c)
          PROVE  <2>1
      <4> USE DEF Base, TypeOK
      <4>1. CASE Send(c)        BY <4>1 DEF Send
      <4>2. CASE Receive(c)     BY <4>2 DEF Receive
      <4>3. CASE Disconnect(c)  BY <4>3 DEF Disconnect
      <4>4. CASE GiveUp(c)      BY <4>4 DEF GiveUp
      <4> QED  BY <1>4, <3>2, <4>1, <4>2, <4>3, <4>4 DEF Application
    <3> QED  BY <3>1, <3>2
             DEF Next, vars, Serve, Accept, Load, Dispatch, Record, Lose, TakeSnapshot
  <2>2. \A call \in calls' : \/ \E old \in calls : call.command = old.command
                             \/ \E c \in Clients : /\ client[c].pc # "idle"
                                                   /\ call.command = own(c)
    BY CommandOrigin DEF Send
  <2>3. \A call \in calls' :
          /\ call.command.number <= client[call.command.client].built
          /\ call.command.number = client[call.command.client].built
               => call.command = own(call.command.client)
    BY <1>2, <2>2 DEF Identities
  <2>4. \A x, y \in calls' : /\ x.command.client = y.command.client
                             /\ x.command.number = y.command.number
                             => x.command = y.command
    BY <2>2, <2>3 DEF Identities
  <2>5. \A call \in calls' : call.command.client \in Clients
    BY DEF Base, TypeOK, Calls, CommandBooks
  <2> QED  BY <2>1, <2>3, <2>4, <2>5 DEF Identities
<1> QED  BY <1>3, <1>4

LEMMA IdentitiesInvariant == Spec => []Identities
<1>1. Init => Identities
  BY DEF Init, Identities
<1> QED  BY <1>1, IdentitiesStep, BaseInvariant, PTL DEF Spec

-----------------------------------------------------------------------------
(***************************************************************************)
(* Slots.  A coordinator that compares sequences lets a book into one slot *)
(* of the log only: the one it was made for.                               *)
(***************************************************************************)
InSlot(call, history) ==
    /\ call.stage \in {"loaded", "decided"} =>
         next_sequence(call.book) = call.command.sequence
    /\ call.status = "ok" =>
         /\ call.command.sequence + 1 \in 1..Len(history)
         /\ history[call.command.sequence + 1].by = call.command

Slots ==
    /\ \A call \in calls : InSlot(call, log[call.command.root])
    /\ \A root \in Roots : \A i \in 1..Len(log[root]) :
         /\ log[root][i].by.root = root
         /\ log[root][i].by.sequence = i - 1
         /\ \E call \in calls : call.command = log[root][i].by

\* What a coordinator step can make of a call.
Successor(old, call) ==
    /\ call.command = old.command
    /\ \/ call.stage \in {"lost", "accepted"} /\ call.status \in {"none", old.status}
       \/ Load(old) /\ call.stage = "done" /\ call.status = "conflict"
       \/ /\ Load(old)
          /\ call.stage = "loaded" /\ call.status = old.status
          /\ next_sequence(call.book) = Len(log[old.command.root])
          /\ Locking => old.command.sequence = next_sequence(call.book)
       \/ LET answer == dispatch(members, old.book, Contextual(old.command))
          IN  /\ Dispatch(old)
              /\ \/ /\ answer \in {InvalidArgument, CommandRejected}
                    /\ call.stage = "done" /\ call.status = answer.kind
                 \/ call = [old EXCEPT !.stage = "decided", !.answer = answer]
       \/ /\ Record(old)
          /\ call.stage = "done"
          /\ \/ call.status = "conflict"
             \/ /\ call.status = "ok"
                /\ Head(old.answer.book.pages).sequence = Len(log[old.command.root])

LEMMA NewCall ==
    ASSUME Base, [Next]_vars, NEW call \in calls', call \notin calls
    PROVE  \/ call.stage = "sent" /\ call.status = "none"
           \/ \E old \in calls : Successor(old, call)
<1>1. CASE \E c \in Clients : Application(c)
  BY <1>1 DEF Application, Prepare, Send, Receive, Disconnect, GiveUp, Request
<1>2. CASE (\E root \in Roots : TakeSnapshot(root)) \/ UNCHANGED vars
  BY <1>2 DEF TakeSnapshot, vars
<1>3. ASSUME NEW old \in calls, Serve(old) \/ Lose(old)
      PROVE  Successor(old, call)
  <2>1. old \in Calls /\ Again(old) \in Calls
        /\ Again(old).command = old.command /\ Again(old).status = "none"
    BY RequestType DEF Base, TypeOK, Again, Calls, CommandBooks, Request
  <2>2. ASSUME NEW status, Ends(old, status)
        PROVE  call.command = old.command /\ call.stage = "done" /\ call.status = status
    <3>1. call = [Again(old) EXCEPT !.stage = "done", !.status = status]
      BY <2>2 DEF Ends, Becomes
    <3> QED  BY <2>1, <3>1 DEF Calls
  <2>3. CASE Lose(old)
    <3>1. call = [Again(old) EXCEPT !.stage = "lost"]
      BY <2>3 DEF Lose, Becomes
    <3> QED  BY <2>1, <3>1 DEF Calls, Successor
  <2>4. CASE Accept(old)
    <3>1. call = [old EXCEPT !.stage = "accepted"]
      BY <2>4 DEF Accept, Becomes
    <3> QED  BY <2>1, <3>1 DEF Calls, Successor
  <2>5. CASE Load(old)
    <3>1. PICK book \in Stored(old.command.root) :
            /\ next_sequence(book) = Len(log[old.command.root])
            /\ \/ Ends(old, "conflict")
               \/ /\ Locking => old.command.sequence = next_sequence(book)
                  /\ Becomes(old, [old EXCEPT !.stage = "loaded", !.book = book])
      BY <2>5, LoadShape DEF Base
    <3>2. CASE Ends(old, "conflict")
      BY <2>2, <2>5, <3>2 DEF Successor
    <3>3. CASE /\ Locking => old.command.sequence = next_sequence(book)
               /\ Becomes(old, [old EXCEPT !.stage = "loaded", !.book = book])
      <4>1. call = [old EXCEPT !.stage = "loaded", !.book = book]
        BY <3>3 DEF Becomes
      <4>2. call.command = old.command /\ call.stage = "loaded"
            /\ call.status = old.status /\ call.book = book
        BY <2>1, <4>1 DEF Calls
      <4> QED  BY <2>5, <3>1, <3>3, <4>2 DEF Successor
    <3> QED  BY <3>1, <3>2, <3>3
  <2>6. CASE Dispatch(old)
    <3> DEFINE answer == dispatch(members, old.book, Contextual(old.command))
    <3>1. CASE answer \in {InvalidArgument, CommandRejected} /\ Ends(old, answer.kind)
      BY <2>2, <2>6, <3>1 DEF Successor
    <3>2. CASE Becomes(old, [old EXCEPT !.stage = "decided", !.answer = answer])
      <4>1. call = [old EXCEPT !.stage = "decided", !.answer = answer]
        BY <3>2 DEF Becomes
      <4>2. call.command = old.command
        BY <2>1, <4>1 DEF Calls
      <4> QED  BY <2>6, <4>1, <4>2 DEF Successor
    <3> QED  BY <2>6, <3>1, <3>2, DispatchShape DEF Base
  <2>7. CASE Record(old)
    BY <2>2, <2>7 DEF Record, Successor
  <2> QED  BY <1>3, <2>3, <2>4, <2>5, <2>6, <2>7 DEF Serve
<1> QED  BY <1>1, <1>2, <1>3 DEF Next

LEMMA InSlotGrows ==
    ASSUME NEW call \in Calls, NEW old, NEW new, Extends(old, new), Len(old) \in Nat,
           InSlot(call, old)
    PROVE  InSlot(call, new)
<1>1. call.command.sequence \in Nat
  BY DEF Calls, CommandBooks
<1> QED  BY <1>1 DEF InSlot, Extends

LEMMA SlotsCalls ==
    ASSUME Locking, Base, Base', Slots, [Next]_vars, NEW call \in calls'
    PROVE  InSlot(call, log'[call.command.root])
<1>1. \A x \in calls : /\ x \in Calls /\ x.command.root \in Roots
                       /\ InSlot(x, log'[x.command.root])
  <2>1. \A x \in calls : x \in Calls /\ x.command.root \in Roots
                         /\ InSlot(x, log[x.command.root])
    BY DEF Base, TypeOK, Calls, CommandBooks, Slots
  <2>2. \A root \in Roots : Len(log[root]) \in Nat
    BY DEF Base, TypeOK
  <2> QED  BY <2>1, <2>2, LogGrows, InSlotGrows
<1>2. CASE call \in calls
  BY <1>1, <1>2
<1>3. CASE call.stage = "sent" /\ call.status = "none"
  BY <1>3 DEF InSlot
<1>4. ASSUME NEW old \in calls, Successor(old, call)
      PROVE  InSlot(call, log'[call.command.root])
  <2>1. CASE call.stage \in {"lost", "accepted"} /\ call.status \in {"none", old.status}
    BY <1>1, <1>4, <2>1 DEF Successor, InSlot
  <2>2. CASE call.stage = "done" /\ call.status # "ok"
    BY <2>2 DEF InSlot
  <2>3. CASE call.stage = "loaded" /\ call.status = old.status
             /\ next_sequence(call.book) = old.command.sequence
    BY <1>1, <1>4, <2>3 DEF Successor, InSlot
  <2>4. CASE /\ Dispatch(old)
             /\ call = [old EXCEPT !.stage = "decided",
                          !.answer = dispatch(members, old.book, Contextual(old.command))]
    <3>1. call.command = old.command /\ call.book = old.book /\ call.status = old.status
          /\ old.stage = "loaded"
      BY <1>1, <2>4 DEF Calls, Dispatch
    <3> QED  BY <1>1, <3>1 DEF InSlot
  <2>5. CASE /\ Record(old) /\ call.stage = "done" /\ call.status = "ok"
             /\ Head(old.answer.book.pages).sequence = Len(log[old.command.root])
    <3> DEFINE root == old.command.root
               entry == Recorded(Head(old.answer.book.pages), old.command)
    <3>1. log'[root] = Append(log[root], entry) /\ log[root] \in Seq(Pages)
          /\ root \in Roots
      BY <1>1, <2>5 DEF Record, Base, TypeOK
    <3>2. Len(log[root]) = old.command.sequence
      <4>1. InSlot(old, log[root]) /\ old.stage = "decided"
        BY <2>5 DEF Slots, Record
      <4> QED  BY <2>5, <4>1, RecordShape DEF InSlot
    <3>3. entry \in Pages /\ entry.by = old.command
      BY <2>5, RecordShape DEF Recorded
    <3>4. call.command = old.command
      BY <1>4 DEF Successor
    <3>5. Len(log'[root]) = Len(log[root]) + 1 /\ log'[root][Len(log[root]) + 1] = entry
          /\ Len(log[root]) \in Nat
      BY <3>1, <3>3
    <3> QED  BY <2>5, <3>2, <3>3, <3>4, <3>5 DEF InSlot
  <2>6. "ok" \notin {"conflict", InvalidArgument.kind, CommandRejected.kind}
    BY DEF InvalidArgument, CommandRejected, Throws
  <2> QED  BY <1>4, <2>1, <2>2, <2>3, <2>4, <2>5, <2>6 DEF Successor
<1> QED  BY <1>2, <1>3, <1>4, NewCall

LEMMA SlotsLog ==
    ASSUME Locking, Base, Base', Slots, [Next]_vars,
           NEW root \in Roots, NEW i \in 1..Len(log'[root])
    PROVE  /\ log'[root][i].by.root = root
           /\ log'[root][i].by.sequence = i - 1
           /\ \E call \in calls' : call.command = log'[root][i].by
<1>1. log[root] \in Seq(Pages) /\ log'[root] \in Seq(Pages) /\ Extends(log[root], log'[root])
  BY LogGrows DEF Base, TypeOK
<1>2. \A x \in calls : \E y \in calls' : y.command = x.command
  <2>1. CASE calls \subseteq calls'
    BY <2>1
  <2>2. CASE \E old \in calls : Serve(old) \/ Lose(old)
    BY <2>2, SuccessorCall DEF Becomes
  <2> QED  BY <2>1, <2>2 DEF Next, vars, Application, Prepare, Send, Receive, Disconnect,
                           GiveUp, TakeSnapshot
<1>3. CASE i \in 1..Len(log[root])
  BY <1>1, <1>2, <1>3 DEF Slots, Extends
<1>4. CASE i \notin 1..Len(log[root])
  <2>1. log'[root] # log[root]
    BY <1>4
  <2>2. PICK call \in calls : Record(call)
    BY <2>1 DEF Next, vars, Application, Prepare, Send, Receive, Disconnect, GiveUp,
                Serve, Accept, Load, Dispatch, Lose, TakeSnapshot
  <2> DEFINE page == Head(call.answer.book.pages)
             entry == Recorded(page, call.command)
             n == Len(log[root])
  <2>3. log' = [log EXCEPT ![call.command.root] = Append(@, entry)]
        /\ page.sequence = Len(log[call.command.root])
    BY <2>1, <2>2 DEF Record
  <2>4. call.command.root = root /\ log'[root] = Append(log[root], entry)
    BY <2>1, <2>3 DEF Base, TypeOK
  <2>5. i = n + 1 /\ log'[root][i] = entry /\ n \in Nat
    BY <1>1, <1>4, <2>2, <2>4, RecordShape
  <2>6. call.command.sequence = n
    <3>1. call.stage = "decided" /\ InSlot(call, log[root])
      BY <2>2, <2>4 DEF Record, Slots
    <3> QED  BY <2>2, <2>3, <2>4, <3>1, RecordShape DEF InSlot
  <2>7. entry.by = call.command
    BY DEF Recorded
  <2> QED  BY <1>2, <2>4, <2>5, <2>6, <2>7
<1> QED  BY <1>3, <1>4

LEMMA SlotsInvariant ==
    ASSUME Locking
    PROVE  Spec => []Slots
<1>1. Init => Slots
  BY DEF Init, Slots
<1>2. ASSUME Base, Base', Slots, [Next]_vars
      PROVE  Slots'
  BY <1>2, SlotsCalls, SlotsLog DEF Slots
<1> QED  BY <1>1, <1>2, BaseInvariant, PTL DEF Spec

\* With the coordinator's check, no number of retries after any losses records
\* a command book twice, snapshots or not.
THEOREM RecordedAtMostOnce ==
    ASSUME Locking
    PROVE  Spec => []AtMostOnce
<1>1. Base /\ Slots /\ Identities => AtMostOnce
  <2> SUFFICES ASSUME Base, Slots, Identities,
                      NEW r1 \in Roots, NEW r2 \in Roots,
                      NEW i \in DOMAIN log[r1], NEW j \in DOMAIN log[r2],
                      log[r1][i].by.client = log[r2][j].by.client,
                      log[r1][i].by.number = log[r2][j].by.number
               PROVE  r1 = r2 /\ i = j
    BY DEF AtMostOnce
  <2>1. i \in 1..Len(log[r1]) /\ j \in 1..Len(log[r2]) /\ i \in Nat /\ j \in Nat
    BY DEF Base, TypeOK
  <2>2. log[r1][i].by = log[r2][j].by
    <3>1. PICK x \in calls : x.command = log[r1][i].by
      BY <2>1 DEF Slots
    <3>2. PICK y \in calls : y.command = log[r2][j].by
      BY <2>1 DEF Slots
    <3> QED  BY <3>1, <3>2 DEF Identities
  <2> QED  BY <2>1, <2>2 DEF Slots
<1> QED  BY <1>1, BaseInvariant, SlotsInvariant, IdentitiesInvariant, PTL

\* With the coordinator's check, a synchronous OK means recorded, at the place
\* the book was made for, for good.
THEOREM OkMeansRecorded ==
    ASSUME Locking
    PROVE  Spec => []OkIsRecorded
<1>1. Base /\ Slots => OkIsRecorded
  <2> SUFFICES ASSUME Base, Slots, NEW call \in calls, call.status = "ok"
               PROVE  \E i \in DOMAIN log[call.command.root] :
                        /\ i = call.command.sequence + 1
                        /\ log[call.command.root][i].by = call.command
    BY DEF OkIsRecorded
  <2>1. call.command.root \in Roots
    BY DEF Base, TypeOK, Calls, CommandBooks
  <2>2. DOMAIN log[call.command.root] = 1..Len(log[call.command.root])
    BY <2>1 DEF Base, TypeOK
  <2> QED  BY <2>2 DEF Slots, InSlot
<1> QED  BY <1>1, BaseInvariant, SlotsInvariant, PTL

-----------------------------------------------------------------------------
(***************************************************************************)
(* Refusals.  What was refused was refused on the one history the book can *)
(* be recorded on.                                                         *)
(***************************************************************************)
Refusing == {"InvalidArgumentError", "CommandRejectedError"}

Refused(call, history) ==
    call.status \in Refusing =>
        /\ call.command.sequence <= Len(history)
        /\ Decision(Prefix(history, call.command.sequence), call.command) = {}

Refusals == \A call \in calls : Refused(call, log[call.command.root])

LEMMA RefusedGrows ==
    ASSUME NEW old \in Seq(Pages), NEW new \in Seq(Pages), Extends(old, new),
           NEW call \in Calls, Refused(call, old)
    PROVE  Refused(call, new)
<1>1. CASE call.status \in Refusing
  <2>1. call.command.sequence \in 0..Len(old) /\ Len(old) \in Nat
    BY <1>1 DEF Refused, Calls, CommandBooks
  <2>2. Prefix(new, call.command.sequence) = Prefix(old, call.command.sequence)
    BY <2>1, PrefixOfExtension
  <2> QED  BY <1>1, <2>1, <2>2 DEF Refused, Extends
<1> QED  BY <1>1 DEF Refused

\* The aggregate refused: so would SequencedLog's atomic step.
LEMMA RefusedOnHistory ==
    ASSUME Base, Sequences, Histories, Slots, NEW old \in calls, Dispatch(old),
           dispatch(members, old.book, Contextual(old.command)).kind # "events"
    PROVE  /\ old.command.sequence <= Len(log[old.command.root])
           /\ Decision(Prefix(log[old.command.root], old.command.sequence), old.command) = {}
<1> DEFINE n == next_sequence(old.book)
           before == log[old.command.root]
<1>1. old.stage = "loaded" /\ n = old.command.sequence
  BY DEF Dispatch, Slots, InSlot
<1>2. n \in Nat /\ before \in Seq(Pages) /\ Len(before) \in Nat
  BY NextSequenceType DEF Base, TypeOK, Calls, CommandBooks
<1>3. n \in 0..Len(before)
  BY <1>1, <1>2 DEF Sequences, InStep
<1>4. Len(Prefix(before, n)) = n
  <2>1. \A i \in 1..n : before[i] \in Pages
    BY <1>2, <1>3, ElementOfSeq
  <2> QED  BY <1>2, <1>3, <2>1, SubSeqProperties DEF Prefix
<1>5. old.book.pages = Prefix(before, n)
  BY <1>1 DEF Histories, OnHistory
<1>6. Decision(Prefix(before, n), old.command) = {}
  BY <1>4, <1>5, DispatchDecides
<1> QED  BY <1>1, <1>2, <1>3, <1>6

LEMMA RefusalsStep ==
    ASSUME Base, Base', Sequences, Histories, Slots, Refusals, [Next]_vars
    PROVE  Refusals'
<1> SUFFICES ASSUME NEW call \in calls'
             PROVE  Refused(call, log'[call.command.root])
  BY DEF Refusals
<1>1. \A x \in calls : x \in Calls /\ Refused(x, log'[x.command.root])
  <2> SUFFICES ASSUME NEW x \in calls
               PROVE  x \in Calls /\ Refused(x, log'[x.command.root])
    OBVIOUS
  <2>1. x \in Calls /\ x.command.root \in Roots /\ Refused(x, log[x.command.root])
    BY DEF Base, TypeOK, Calls, CommandBooks, Refusals
  <2>2. log[x.command.root] \in Seq(Pages) /\ log'[x.command.root] \in Seq(Pages)
        /\ Extends(log[x.command.root], log'[x.command.root])
    BY <2>1, LogGrows DEF Base, TypeOK
  <2> QED  BY <2>1, <2>2, RefusedGrows
<1>2. CASE call \in calls
  BY <1>1, <1>2
<1>3. CASE call.status \notin Refusing
  BY <1>3 DEF Refused
<1>4. ASSUME NEW old \in calls, Successor(old, call), call.status \in Refusing
      PROVE  Refused(call, log'[call.command.root])
  <2>1. call.command = old.command
    BY <1>4 DEF Successor
  <2>2. CASE call.status = old.status
    BY <1>1, <2>1, <2>2 DEF Refused
  <2>3. CASE /\ Dispatch(old)
             /\ dispatch(members, old.book, Contextual(old.command))
                  \in {InvalidArgument, CommandRejected}
    <3>1. dispatch(members, old.book, Contextual(old.command)).kind # "events"
      BY <2>3 DEF InvalidArgument, CommandRejected, Throws
    <3>2. log' = log
      BY <2>3 DEF Dispatch
    <3> QED  BY <2>1, <2>3, <3>1, <3>2, RefusedOnHistory DEF Refused
  <2>4. \A answer : call = [old EXCEPT !.stage = "decided", !.answer = answer]
                      => call.status = old.status
    BY <1>1 DEF Calls
  <2> QED  BY <1>4, <2>2, <2>3, <2>4 DEF Successor, Refusing
<1> QED  BY <1>2, <1>3, <1>4, NewCall DEF Refusing

LEMMA RefusalsInvariant ==
    ASSUME Locking, ~Snapshots
    PROVE  Spec => []Refusals
<1>1. Init => Refusals
  BY DEF Init, Refusals
<1> QED  BY <1>1, RefusalsStep, BaseInvariant, SequencesInvariant, HistoriesInvariant,
            SlotsInvariant, PTL DEF Spec

\* With the check and without snapshots a refusal is final: whichever of the
\* calls for one book gets through, they are all decided on the same history.
THEOREM RefusalsAreFinal ==
    ASSUME Locking, ~Snapshots
    PROVE  Spec => []RefusalIsFinal
<1>1. Base /\ Histories /\ Slots /\ Refusals => RefusalIsFinal
  <2> SUFFICES ASSUME Base, Histories, Slots, Refusals,
                      NEW call \in calls, call.status \in Refusing,
                      NEW i \in DOMAIN log[call.command.root],
                      log[call.command.root][i].by = call.command
               PROVE  FALSE
    BY DEF RefusalIsFinal, Refusing
  <2> DEFINE history == log[call.command.root]
  <2>1. call.command.root \in Roots /\ i \in 1..Len(history) /\ i \in Nat
        /\ call.command.sequence \in Nat
    BY DEF Base, TypeOK, Calls, CommandBooks
  <2>2. call.command.sequence = i - 1
    BY <2>1 DEF Slots
  <2>3. history[i] \in Decision(Prefix(history, i - 1), call.command)
    BY <2>1 DEF Histories, DecidedOnHistory, Prefix
  <2> QED  BY <2>2, <2>3 DEF Refusals, Refused
<1> QED  BY <1>1, BaseInvariant, HistoriesInvariant, SlotsInvariant, RefusalsInvariant, PTL

-----------------------------------------------------------------------------
(***************************************************************************)
(* The refinement.  Recording is SequencedLog's Commit; every other step   *)
(* issues a book or stutters.                                              *)
(***************************************************************************)
LEMMA PromiseInit == Init => Promise!Init
BY DEF Init, Promise!Init

LEMMA PromiseStep ==
    ASSUME Base, Base', Sequences, Histories, Slots, [Next]_vars
    PROVE  Promise!Issue \/ (\E c \in {call.command : call \in calls} : Promise!Commit(c))
<1> DEFINE issued == {call.command : call \in calls}
           issuedNext == {call.command : call \in calls'}
<1>1. issuedNext \subseteq CommandBooks
  BY DEF Base, TypeOK, Calls
<1>2. ASSUME NEW old \in calls, Serve(old) \/ Lose(old)
      PROVE  issuedNext = issued
  BY <1>2, SuccessorCall DEF Becomes
<1>3. issued \subseteq issuedNext
  BY <1>2 DEF Next, vars, Application, Prepare, Send, Receive, Disconnect, GiveUp, TakeSnapshot
<1>4. CASE log' = log
  BY <1>1, <1>3, <1>4 DEF Promise!Issue
<1>5. CASE log' # log
  <2>1. PICK call \in calls : Record(call)
    BY <1>5 DEF Next, vars, Application, Prepare, Send, Receive, Disconnect, GiveUp,
                Serve, Accept, Load, Dispatch, Lose, TakeSnapshot
  <2> DEFINE page == Head(call.answer.book.pages)
             entry == Recorded(page, call.command)
             root == call.command.root
             n == Len(log[root])
  <2>2. log' = [log EXCEPT ![root] = Append(@, entry)] /\ page.sequence = n
    BY <1>5, <2>1 DEF Record
  <2>3. issuedNext = issued /\ call.command \in issued
    BY <1>2, <2>1 DEF Serve
  <2>4. call.stage = "decided" /\ root \in Roots
    BY <2>1 DEF Record, Base, TypeOK, Calls, CommandBooks
  <2>5. page.sequence = next_sequence(call.book)
    BY <2>1, RecordShape
  <2>6. n = call.command.sequence
    BY <2>2, <2>4, <2>5 DEF Slots, InSlot
  <2>7. Prefix(log[root], n) = log[root]
    BY <2>4, SubSeqFull DEF Prefix, Base, TypeOK
  <2>8. entry \in Decision(log[root], call.command)
    BY <2>2, <2>4, <2>5, <2>7 DEF Histories, OnHistory
  <2>9. Promise!Commit(call.command)
    BY <2>2, <2>3, <2>6, <2>8 DEF Promise!Commit
  <2> QED  BY <2>3, <2>9
<1> QED  BY <1>4, <1>5

\* With the coordinator's check and without snapshots, the whole path, with all
\* its interleavings, lost calls and retries, implements SequencedLog.
THEOREM CommandsAreAtomic ==
    ASSUME Locking, ~Snapshots
    PROVE  Spec => AtomicPromise
<1>1. Base /\ Base' /\ Sequences /\ Histories /\ Slots /\ [Next]_vars
      => [Promise!Next]_Promise!vars
  BY PromiseStep DEF Promise!Next
<1> QED  BY <1>1, PromiseInit, BaseInvariant, SequencesInvariant, HistoriesInvariant,
            SlotsInvariant, PTL DEF Spec, AtomicPromise, Promise!Spec
=============================================================================
