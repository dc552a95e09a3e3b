------------------------------ MODULE SagasProofs ---------------------------
(***************************************************************************)
(* The two halves of a saga: what it makes of the events it is given, and  *)
(* where the rejection of one of its commands ends.                        *)
(***************************************************************************)
EXTENDS SagaFlow, Unwinding, SequenceFacts, FiniteSetTheorems

-----------------------------------------------------------------------------
(***************************************************************************)
(* For every set of targets and happenings, and streams, books and targets *)
(* of every length: the commands that go out are those of the events       *)
(* handled, in order and each once, facts go out with their event, and a   *)
(* command whose sequence is beyond doubt is refused only because it was   *)
(* overtaken.                                                              *)
(***************************************************************************)
FetchedBooks == [target : Targets, view : Views, next : Nat]

FlowTypeOK ==
    /\ style \in Styles
    /\ source \in Seq(Happenings)
    /\ handled \in Nat /\ cut \in Nat
    /\ fetched \in Seq(FetchedBooks)
    /\ length \in [Targets -> Nat]
    /\ facts \in [Positions -> Nat] /\ injected \in [Positions -> Nat]

\* The book being handled lies within the stream.
Bounded == Len(source) <= MaxSource /\ handled + cut <= Len(source)

\* A sequence beyond doubt is the one its target had when it was fetched.
Trustworthy ==
    \A packed \in outbox :
        packed.clear => /\ packed.target \in Targets /\ packed.based \in Nat
                        /\ packed.sequence = packed.based

FlowInv == FlowTypeOK /\ Bounded /\ Trustworthy /\ EveryEventOnce /\ FactsWithTheirEvent

-----------------------------------------------------------------------------
(***************************************************************************)
(* What a dispatch makes of the pages it visits.                           *)
(***************************************************************************)
LEMMA OnceType ==
    ASSUME NEW pages
    PROVE  /\ Once(pages) \in [Positions -> Nat]
           /\ \A p \in Positions : Once(pages)[p] = IF p \in pages THEN 1 ELSE 0
BY DEF Once

LEMMA PlusType ==
    ASSUME NEW f \in [Positions -> Nat], NEW g \in [Positions -> Nat]
    PROVE  /\ Plus(f, g) \in [Positions -> Nat]
           /\ \A p \in Positions : Plus(f, g)[p] = f[p] + g[p]
BY DEF Plus

LEMMA OneMoreType ==
    ASSUME NEW f \in [Targets -> Nat], NEW t
    PROVE  [f EXCEPT ![t] = @ + 1] \in [Targets -> Nat]
<1>. DEFINE g == [f EXCEPT ![t] = @ + 1]
<1>1. g = [x \in Targets |-> g[x]]
  OBVIOUS
<1>2. \A x \in Targets : g[x] = IF x = t THEN f[x] + 1 ELSE f[x]
  OBVIOUS
<1>3. \A x \in Targets : g[x] \in Nat
  BY <1>2
<1>. HIDE DEF g
<1>4. [x \in Targets |-> g[x]] \in [Targets -> Nat]
  BY <1>3
<1>5. g \in [Targets -> Nat]
  BY <1>1, <1>4
<1>. QED BY <1>5 DEF g

\* Pages that are visited lie in the book, and have an event if it is answered.
LEMMA VisitedInBook ==
    ASSUME FlowTypeOK, Bounded, cut > 0
    PROVE  /\ Visited \subseteq handled + 1 .. handled + cut
           /\ ~Malformed => \A p \in Visited : source[p] # NoEvent
BY DEF FlowTypeOK, Bounded, Malformed, Visited, all_pages, last_page

\* The book found for a target is that target's.
LEMMA OwnBookIsOwn ==
    ASSUME FlowTypeOK, NEW t \in Targets, \E i \in DOMAIN fetched : fetched[i].target = t
    PROVE  \E k \in DOMAIN fetched : OwnBook(t) = fetched[k] /\ fetched[k].target = t
BY DEF OwnBook

\* Where the one book of a domain is the target's own, it gives the sequence.
LEMMA OnlyBookCounts ==
    ASSUME FlowTypeOK, NEW t \in Targets, \E i \in DOMAIN fetched : fetched[i].target = t,
           OwnBook(t).view # "absent", Cardinality(Of(t.domain)) = 1,
           NEW destinations \in Destinations
    PROVE  sequence_for(destinations, t.domain) = OwnBook(t).next
<1>1. PICK k \in DOMAIN fetched : OwnBook(t) = fetched[k] /\ fetched[k].target = t
  BY OwnBookIsOwn
<1>2. k \in Of(t.domain) /\ t.domain \in FetchedDomains
  BY <1>1 DEF Of, FetchedDomains
<1>3. IsFiniteSet(Of(t.domain))
  <2>1. DOMAIN fetched = 1..Len(fetched) /\ Len(fetched) \in Nat
    BY DEF FlowTypeOK
  <2>2. IsFiniteSet(DOMAIN fetched)
    BY <2>1, FS_Interval
  <2>. QED BY <2>2, FS_Subset DEF Of
<1>4. Of(t.domain) = {k}
  BY <1>2, <1>3, FS_Singleton
<1>5. destinations[t.domain] = k
  BY <1>2, <1>4 DEF Destinations
<1>. QED BY <1>1, <1>5 DEF sequence_for

LEMMA CommandsOfFacts ==
    ASSUME FlowTypeOK, NEW p \in 1..Len(source)
    PROVE  /\ source[p] \in Happenings
           /\ IsSequence(CommandsOf(p))
           /\ source[p] = NoEvent => CommandsOf(p) = <<>>
           /\ \A i \in DOMAIN CommandsOf(p) : /\ CommandsOf(p)[i] = [page |-> p, place |-> i]
                                              /\ Sends[source[p]][i] \in Targets
<1>1. source[p] \in Happenings
  BY DEF FlowTypeOK
<1>2. Sends[source[p]] \in Seq(Targets)
  BY <1>1, SagaAssumption
<1>. DEFINE n == Len(Sends[source[p]])
<1>3. n \in Nat /\ DOMAIN Sends[source[p]] = 1..n
  BY <1>2
<1>. HIDE DEF n
<1>4. CommandsOf(p) = [i \in 1..n |-> [page |-> p, place |-> i]]
  BY <1>3 DEF CommandsOf
<1>5. IsSequence(CommandsOf(p)) /\ Len(CommandsOf(p)) = n
  BY <1>3, <1>4, Made
<1>6. source[p] = NoEvent => CommandsOf(p) = <<>>
  <2>. SUFFICES ASSUME source[p] = NoEvent PROVE CommandsOf(p) = <<>>
    OBVIOUS
  <2>1. n = 0
    BY SagaAssumption DEF n
  <2>. QED BY <1>5, <2>1, EmptyIffNoPlace
<1>7. \A i \in 1..n : Sends[source[p]][i] \in Targets
  BY <1>2, <1>3
<1>. QED BY <1>1, <1>3, <1>4, <1>5, <1>6, <1>7

\* The pages of a book, and those before it.
Part(pages, p) == IF p \in pages THEN CommandsOf(p) ELSE <<>>
UpTo(n, pages) == [p \in 1..n |-> Part(pages, p)]
Within(pages) == [i \in 1..cut |-> Part(pages, handled + i)]

LEMMA PartIsSequence ==
    ASSUME FlowTypeOK, NEW pages, NEW p \in 1..Len(source)
    PROVE  IsSequence(Part(pages, p))
BY CommandsOfFacts, EmptyIsSequence DEF Part

\* What a book's pages give comes behind what the pages before it gave.
LEMMA BookFollows ==
    ASSUME FlowTypeOK, Bounded,
           NEW before \in SUBSET (1..handled), NEW now \in SUBSET (handled + 1 .. handled + cut)
    PROVE  FlattenSeq(UpTo(handled + cut, before \cup now))
             = FlattenSeq(UpTo(handled, before)) \o FlattenSeq(Within(now))
<1>. DEFINE n == handled
           f == UpTo(handled, before)
           g == Within(now)
           h == UpTo(handled + cut, before \cup now)
<1>1. /\ n \in Nat /\ cut \in Nat /\ n + cut \in Nat
      /\ 1..n \subseteq 1..Len(source)
      /\ \A i \in 1..cut : n + i \in 1..Len(source)
      /\ 1 .. n + cut \subseteq 1..Len(source)
  BY DEF FlowTypeOK, Bounded
<1>2. IsSequence(f) /\ Len(f) = n /\ \A i \in 1..n : f[i] = Part(before, i)
  <2>1. f = [i \in 1..n |-> Part(before, i)]
    BY DEF UpTo
  <2>. HIDE DEF f
  <2>. QED BY <1>1, <2>1, Made
<1>3. IsSequence(g) /\ Len(g) = cut /\ \A i \in 1..cut : g[i] = Part(now, n + i)
  <2>1. g = [i \in 1..cut |-> Part(now, n + i)]
    BY DEF Within
  <2>. HIDE DEF g
  <2>. QED BY <1>1, <2>1, Made
<1>4. IsSequence(h) /\ Len(h) = n + cut
      /\ \A i \in 1 .. n + cut : h[i] = Part(before \cup now, i)
  <2>1. h = [i \in 1 .. n + cut |-> Part(before \cup now, i)]
    BY DEF UpTo
  <2>. HIDE DEF h
  <2>. QED BY <1>1, <2>1, Made
<1>. HIDE DEF f, g, h
<1>5. /\ IsSequence(f \o g) /\ Len(f \o g) = n + cut
      /\ \A i \in 1..n : (f \o g)[i] = f[i]
      /\ \A i \in 1..cut : (f \o g)[n + i] = g[i]
  BY <1>2, <1>3, ConcatFacts
<1>6. ASSUME NEW i \in 1 .. n + cut
      PROVE  h[i] = (f \o g)[i]
  <2>1. CASE i <= n
    <3>1. i \in 1..n /\ i \notin now
      BY <1>1, <2>1
    <3>. QED BY <1>2, <1>4, <1>5, <3>1 DEF Part
  <2>2. CASE i > n
    <3>1. i - n \in 1..cut /\ n + (i - n) = i
      BY <1>1, <2>2
    <3>2. i \notin before
      BY <1>1, <2>2
    <3>3. (f \o g)[i] = Part(now, i)
      BY <1>3, <1>5, <3>1
    <3>4. h[i] = Part(before \cup now, i)
      BY <1>4
    <3>5. Part(before \cup now, i) = Part(now, i)
      BY <3>2 DEF Part
    <3>. QED BY <3>3, <3>4, <3>5, Zenon
  <2>3. i <= n \/ i > n
    BY <1>1
  <2>. QED BY <2>1, <2>2, <2>3
<1>7. h = f \o g
  BY <1>4, <1>5, <1>6, SameSequence
<1>8. FlattenSeq(f \o g) = FlattenSeq(f) \o FlattenSeq(g)
  <2>1. \A i \in 1..n : IsSequence(f[i])
    BY <1>1, <1>2, PartIsSequence
  <2>2. \A i \in 1..cut : IsSequence(g[i])
    BY <1>1, <1>3, PartIsSequence
  <2>. QED BY <1>2, <1>3, <2>1, <2>2, FlattenConcat
<1>. QED BY <1>7, <1>8 DEF f, g, h

\* The commands of a dispatch are of pages visited.
LEMMA CommandsAreOfPages ==
    ASSUME FlowTypeOK, Bounded, cut > 0, NEW command \in ToSet(Commands)
    PROVE  /\ command.page \in Visited
           /\ command.place \in DOMAIN Sends[source[command.page]]
           /\ Sends[source[command.page]][command.place] \in Targets
<1>. DEFINE g == Within(Visited)
           T == UNION {ToSet(CommandsOf(p)) : p \in Visited}
<1>1. Visited \subseteq handled + 1 .. handled + cut /\ Visited \subseteq 1..Len(source)
  BY VisitedInBook DEF FlowTypeOK, Bounded
<1>2. Commands = FlattenSeq(g)
  BY DEF Commands, Within, Part
<1>3. g \in Seq(Seq(T))
  <2>1. cut \in Nat /\ \A i \in 1..cut : handled + i \in 1..Len(source)
    BY DEF FlowTypeOK, Bounded
  <2>2. ASSUME NEW i \in 1..cut PROVE Part(Visited, handled + i) \in Seq(T)
    <3>1. CASE handled + i \in Visited
      <4>1. IsSequence(CommandsOf(handled + i)) /\ ToSet(CommandsOf(handled + i)) \subseteq T
        BY <1>1, <3>1, CommandsOfFacts
      <4>. QED BY <3>1, <4>1, InSeq DEF Part
    <3>2. CASE handled + i \notin Visited
      <4>1. <<>> \in Seq(T)
        OBVIOUS
      <4>. QED BY <3>2, <4>1 DEF Part
    <3>. QED BY <3>1, <3>2
  <2>. QED BY <2>1, <2>2, SeqDef DEF Within
<1>4. IsSequence(g) /\ \A i \in 1..Len(g) : g[i] \in Seq(T)
  BY <1>3, SeqIsSequence, Places
<1>5. Commands \in Seq(T)
  <2>. HIDE DEF g, T
  <2>. QED BY <1>2, <1>4, FlattenIn
<1>6. command \in T
  BY <1>5 DEF ToSet
<1>7. PICK p \in Visited : command \in ToSet(CommandsOf(p))
  BY <1>6
<1>8. /\ p \in 1..Len(source)
      /\ \A i \in DOMAIN CommandsOf(p) : /\ CommandsOf(p)[i] = [page |-> p, place |-> i]
                                         /\ Sends[source[p]][i] \in Targets
      /\ DOMAIN CommandsOf(p) = DOMAIN Sends[source[p]]
  BY <1>1, CommandsOfFacts DEF CommandsOf
<1>9. PICK i \in DOMAIN CommandsOf(p) : command = CommandsOf(p)[i]
  BY <1>7 DEF ToSet
<1>10. command.page = p /\ command.place = i
  <2>1. command = [page |-> p, place |-> i]
    BY <1>8, <1>9, Zenon
  <2>. QED BY <2>1
<1>. QED BY <1>8, <1>10

LEMMA CommandsAreTrustworthy ==
    ASSUME FlowTypeOK, Bounded, Ready, NEW destinations \in Destinations,
           NEW i \in DOMAIN Commands, pack(destinations, Commands[i]).clear
    PROVE  LET packed == pack(destinations, Commands[i])
           IN  /\ packed.target \in Targets /\ packed.based \in Nat
               /\ packed.sequence = packed.based
<1>. DEFINE command == Commands[i]
            t == Sends[source[command.page]][command.place]
<1>1. /\ command.page \in Visited /\ t \in Targets
      /\ command.place \in DOMAIN Sends[source[command.page]]
  <2>1. command \in ToSet(Commands) /\ cut > 0
    BY DEF ToSet, Ready
  <2>. HIDE DEF command
  <2>. QED BY <2>1, CommandsAreOfPages
<1>2. \E k \in DOMAIN fetched : fetched[k].target = t
  <2>1. t \in Range(Sends[source[command.page]])
    BY <1>1 DEF Range
  <2>2. t \in Prepared
    BY <1>1, <2>1 DEF Prepared
  <2>. QED BY <2>2 DEF Ready
<1>. HIDE DEF command
<1>3. style # "Saga"
  BY DEF pack, command
<1>4. pack(destinations, command)
        = [command |-> command, target |-> t, sequence |-> Stamp(destinations, t),
           based |-> OwnBook(t).next, clear |-> Clear(t)]
  BY <1>3 DEF pack
<1>. HIDE DEF t
<1>5. Clear(t)
  BY <1>4 DEF command
<1>6. Stamp(destinations, t) = OwnBook(t).next
  <2>1. CASE style = "EventRouter"
    BY <1>5, <2>1 DEF Clear, Stamp, get_sequence
  <2>2. CASE style # "EventRouter"
    BY <1>1, <1>2, <1>5, <2>2, OnlyBookCounts DEF Clear, Stamp
  <2>. QED BY <2>1, <2>2
<1>7. OwnBook(t).next \in Nat
  <2>1. PICK k \in DOMAIN fetched : OwnBook(t) = fetched[k]
    BY <1>1, <1>2, OwnBookIsOwn
  <2>2. fetched[k] \in FetchedBooks
    BY DEF FlowTypeOK
  <2>. QED BY <2>1, <2>2 DEF FetchedBooks
<1>. QED BY <1>1, <1>4, <1>6, <1>7 DEF command

-----------------------------------------------------------------------------
(***************************************************************************)
(* The invariant is inductive.                                             *)
(***************************************************************************)
\* The commands of so many pages of a stream, of those in the set only.
AnswersOf(stream, n, pages) ==
    FlattenSeq([p \in 1..n |->
        IF p \in pages THEN [i \in DOMAIN Sends[stream[p]] |-> [page |-> p, place |-> i]]
        ELSE <<>>])

Told(how, stream, n, commands) ==
    \E pages \in SUBSET (1..n) :
        /\ how \in {"Saga", "EventRouter"} => pages = 1..n
        /\ commands = AnswersOf(stream, n, pages)

LEMMA EveryEventTold == EveryEventOnce <=> Told(style, source, handled, returned)
BY DEF EveryEventOnce, Told, AnswersOf, CommandsOf

LEMMA EveryEventToldNext == EveryEventOnce' <=> Told(style', source', handled', returned')
BY DEF EveryEventOnce, Told, AnswersOf, CommandsOf

LEMMA StaysTold ==
    ASSUME EveryEventOnce, UNCHANGED <<style, handled, returned>>,
           \A p \in 1..handled : source'[p] = source[p]
    PROVE  EveryEventOnce'
<1>1. PICK pages \in SUBSET (1..handled) :
          /\ style \in {"Saga", "EventRouter"} => pages = 1..handled
          /\ returned = AnswersOf(source, handled, pages)
  BY EveryEventTold DEF Told
<1>2. AnswersOf(source', handled, pages) = AnswersOf(source, handled, pages)
  BY DEF AnswersOf
<1>3. Told(style', source', handled', returned')
  BY <1>1, <1>2 DEF Told
<1>. QED BY <1>3, EveryEventToldNext

LEMMA InitFlowInv == NothingSent => FlowInv
<1>. SUFFICES ASSUME NothingSent PROVE FlowInv
  OBVIOUS
<1>1. FlowTypeOK
  BY DEF NothingSent, FlowTypeOK, None, Positions
<1>2. Bounded /\ Trustworthy
  BY SagaAssumption DEF NothingSent, Bounded, Trustworthy
<1>3. EveryEventOnce
  <2>1. AnswersOf(source, 0, {}) = <<>>
    <3>1. [p \in 1..0 |-> IF p \in {}
                          THEN [i \in DOMAIN Sends[source[p]] |-> [page |-> p, place |-> i]]
                          ELSE <<>>] = <<>>
      OBVIOUS
    <3>. QED BY <3>1, FlattenNothing DEF AnswersOf
  <2>2. Told(style, source, handled, returned)
    BY <2>1 DEF NothingSent, Told
  <2>. QED BY <2>2, EveryEventTold
<1>4. FactsWithTheirEvent
  BY DEF NothingSent, FactsWithTheirEvent, None, Positions
<1>. QED BY <1>1, <1>2, <1>3, <1>4 DEF FlowInv

LEMMA HappenKeeps ==
    ASSUME FlowInv, NEW happening \in Happenings, Happen(happening) PROVE FlowInv'
<1>. USE DEF FlowInv, Happen
<1>0. \A p \in 1..handled : source'[p] = source[p]
  BY DEF FlowTypeOK, Bounded
<1>1. FlowTypeOK'
  BY DEF FlowTypeOK
<1>2. Bounded' /\ Trustworthy'
  BY SagaAssumption DEF FlowTypeOK, Bounded, Trustworthy
<1>3. EveryEventOnce'
  BY <1>0, StaysTold
<1>4. FactsWithTheirEvent'
  <2>. SUFFICES ASSUME NEW p \in Positions
                PROVE  injected'[p] = IF style' = "Saga" /\ p <= handled' /\ source'[p] # NoEvent
                                      THEN 1 ELSE 0
    BY DEF FactsWithTheirEvent
  <2>1. p \in 1..handled \/ ~(p <= handled)
    BY SagaAssumption DEF FlowTypeOK, Positions
  <2>. QED BY <1>0, <2>1 DEF FactsWithTheirEvent
<1>. QED BY <1>1, <1>2, <1>3, <1>4

LEMMA WriteKeeps == ASSUME FlowInv, NEW t \in Targets, Write(t) PROVE FlowInv'
<1>. USE DEF FlowInv, Write
<1>1. FlowTypeOK'
  BY DEF FlowTypeOK
<1>2. Bounded' /\ Trustworthy' /\ FactsWithTheirEvent'
  BY DEF Bounded, Trustworthy, FactsWithTheirEvent
<1>. QED BY <1>1, <1>2, StaysTold

LEMMA HandOverKeeps == ASSUME FlowInv, NEW n \in 1..MaxBatch, HandOver(n) PROVE FlowInv'
<1>. USE DEF FlowInv, HandOver
<1>1. FlowTypeOK'
  BY SagaAssumption DEF FlowTypeOK
<1>2. Bounded' /\ Trustworthy' /\ FactsWithTheirEvent'
  BY DEF Bounded, Trustworthy, FactsWithTheirEvent
<1>. QED BY <1>1, <1>2, StaysTold

LEMMA FetchKeeps ==
    ASSUME FlowInv, NEW t \in Targets, NEW view \in Views, Fetch(t, view)
    PROVE  FlowInv'
<1>. USE DEF FlowInv, Fetch
<1>1. FlowTypeOK'
  <2>1. [target |-> t, view |-> view, next |-> length[t]] \in FetchedBooks
    BY DEF FlowTypeOK, FetchedBooks
  <2>. QED BY <2>1 DEF FlowTypeOK
<1>2. Bounded' /\ Trustworthy' /\ FactsWithTheirEvent'
  BY DEF Bounded, Trustworthy, FactsWithTheirEvent
<1>. QED BY <1>1, <1>2, StaysTold

LEMMA DispatchKeeps ==
    ASSUME FlowInv, NEW destinations \in Destinations, Dispatch(destinations) PROVE FlowInv'
<1>. USE DEF FlowInv
<1>0. /\ cut > 0 /\ ~Malformed /\ Ready
      /\ handled' = handled + cut /\ cut' = 0 /\ fetched' = <<>>
      /\ returned' = returned \o Commands
      /\ source' = source /\ style' = style /\ length' = length
  BY DEF Dispatch, Returns, Ready
<1>a. /\ Visited \subseteq handled + 1 .. handled + cut
      /\ \A p \in Visited : source[p] # NoEvent
  BY <1>0, VisitedInBook
<1>1. FlowTypeOK'
  <2>1. facts' \in [Positions -> Nat] /\ injected' \in [Positions -> Nat]
    BY OnceType, PlusType DEF Dispatch, FlowTypeOK
  <2>. QED BY <1>0, <2>1 DEF FlowTypeOK
<1>2. Bounded'
  BY <1>0 DEF FlowTypeOK, Bounded
<1>3. Trustworthy'
  <2>1. outbox' = outbox \cup {pack(destinations, Commands[i]) : i \in DOMAIN Commands}
    BY DEF Dispatch, Returns
  <2>. QED BY <1>0, <2>1, CommandsAreTrustworthy DEF Trustworthy
<1>4. EveryEventOnce'
  <2>1. PICK before \in SUBSET (1..handled) :
            /\ style \in {"Saga", "EventRouter"} => before = 1..handled
            /\ returned = AnswersOf(source, handled, before)
    BY EveryEventTold DEF Told
  <2>. DEFINE now == IF style \in {"Saga", "EventRouter"} THEN handled + 1 .. handled + cut
                     ELSE Visited
  <2>2. now \in SUBSET (handled + 1 .. handled + cut)
    BY <1>a
  <2>3. Within(now) = Within(Visited)
    <3>1. ASSUME NEW i \in 1..cut PROVE Part(now, handled + i) = Part(Visited, handled + i)
      <4>1. handled + i \in handled + 1 .. handled + cut /\ handled + i \in 1..Len(source)
        BY DEF FlowTypeOK, Bounded
      <4>2. CASE style \in {"Saga", "EventRouter"} /\ handled + i \notin Visited
        <5>1. source[handled + i] = NoEvent
          BY <4>1, <4>2 DEF Visited, all_pages
        <5>. QED BY <4>1, <4>2, <5>1, CommandsOfFacts DEF Part
      <4>3. CASE style \notin {"Saga", "EventRouter"} \/ handled + i \in Visited
        BY <4>1, <4>3 DEF Part
      <4>. QED BY <4>2, <4>3
    <3>. QED BY <3>1 DEF Within
  <2>4. Commands = FlattenSeq(Within(now))
    BY <2>3 DEF Commands, Within, Part
  <2>5. /\ returned = FlattenSeq(UpTo(handled, before))
        /\ AnswersOf(source, handled + cut, before \cup now)
             = FlattenSeq(UpTo(handled + cut, before \cup now))
    BY <2>1 DEF AnswersOf, UpTo, Part, CommandsOf
  <2>6. returned' = AnswersOf(source, handled + cut, before \cup now)
    <3>. HIDE DEF now
    <3>. QED BY <1>0, <2>2, <2>4, <2>5, BookFollows
  <2>7. /\ before \cup now \in SUBSET (1 .. handled + cut)
        /\ style \in {"Saga", "EventRouter"} => before \cup now = 1 .. handled + cut
    BY <2>1, <2>2 DEF FlowTypeOK
  <2>8. Told(style', source', handled', returned')
    <3>. HIDE DEF now
    <3>. QED BY <1>0, <2>6, <2>7 DEF Told
  <2>. QED BY <2>8, EveryEventToldNext
<1>5. FactsWithTheirEvent'
  <2>1. CASE style = "Saga"
    <3>1. injected' = Plus(injected, Once(Visited))
      BY <2>1 DEF Dispatch
    <3>2. Once(Visited) \in [Positions -> Nat] /\ injected \in [Positions -> Nat]
      BY OnceType DEF FlowTypeOK
    <3>3. \A p \in Positions : injected'[p] = injected[p] + (IF p \in Visited THEN 1 ELSE 0)
      BY <3>1, <3>2, OnceType, PlusType
    <3>4. \A p \in Positions : p \in Nat
      BY SagaAssumption DEF Positions
    <3>5. Visited = all_pages
      BY <2>1 DEF Visited
    <3>. QED BY <1>0, <2>1, <3>3, <3>4, <3>5 DEF FactsWithTheirEvent, all_pages, FlowTypeOK
  <2>2. CASE style # "Saga"
    BY <1>0, <2>2 DEF Dispatch, FactsWithTheirEvent
  <2>. QED BY <2>1, <2>2
<1>. QED BY <1>1, <1>2, <1>3, <1>4, <1>5

LEMMA DispatchThrowsKeeps == ASSUME FlowInv, DispatchThrows PROVE FlowInv'
<1>. USE DEF FlowInv, DispatchThrows
<1>1. FlowTypeOK'
  <2>1. facts' = facts \/ \E pages : facts' = Once(pages)
    BY Zenon
  <2>2. facts' \in [Positions -> Nat]
    BY <2>1, OnceType DEF FlowTypeOK
  <2>. QED BY <2>2 DEF FlowTypeOK
<1>2. Bounded'
  BY DEF FlowTypeOK, Bounded
<1>3. Trustworthy' /\ FactsWithTheirEvent'
  BY DEF Trustworthy, FactsWithTheirEvent
<1>. QED BY <1>1, <1>2, <1>3, StaysTold

LEMMA DeliverKeeps == ASSUME FlowInv, NEW packed \in outbox, Deliver(packed) PROVE FlowInv'
<1>. USE DEF FlowInv, Deliver
<1>1. FlowTypeOK'
  <2>1. length' = length \/ \E t \in {packed.target} \cup Targets :
                                length' = [length EXCEPT ![t] = @ + 1]
    OBVIOUS
  <2>2. length' \in [Targets -> Nat]
    BY <2>1, OneMoreType DEF FlowTypeOK
  <2>. QED BY <2>2 DEF FlowTypeOK
<1>2. Bounded' /\ Trustworthy' /\ FactsWithTheirEvent'
  BY DEF Bounded, Trustworthy, FactsWithTheirEvent
<1>. QED BY <1>1, <1>2, StaysTold

LEMMA NextFlowInv == FlowInv /\ [Flow]_sagas => FlowInv'
<1>. SUFFICES ASSUME FlowInv, [Flow]_sagas PROVE FlowInv'
  OBVIOUS
<1>1. CASE UNCHANGED sagas
  BY <1>1, StaysTold DEF sagas, FlowInv, FlowTypeOK, Bounded, Trustworthy, FactsWithTheirEvent
<1>2. CASE Flow
  BY <1>2, HappenKeeps, WriteKeeps, HandOverKeeps, FetchKeeps, DispatchKeeps,
     DispatchThrowsKeeps, DeliverKeeps DEF Flow
<1>. QED BY <1>1, <1>2

LEMMA FlowInvariant == FlowSpec => []FlowInv
BY InitFlowInv, NextFlowInv, PTL DEF FlowSpec

-----------------------------------------------------------------------------
\* However a stream is cut into books and whatever handlers throw, the commands
\* returned are those of the events handled, in order and each once; in the two
\* styles that visit every page, of all of them.
THEOREM CommandsOnce == FlowSpec => []EveryEventOnce
<1>1. FlowInv => EveryEventOnce
  BY DEF FlowInv
<1>. QED BY <1>1, FlowInvariant, PTL

\* Facts get out with the commands of their event or not at all.
THEOREM FactsOnce == FlowSpec => []FactsWithTheirEvent
<1>1. FlowInv => FactsWithTheirEvent
  BY DEF FlowInv
<1>. QED BY <1>1, FlowInvariant, PTL

LEMMA DeliveryDecides ==
    ASSUME FlowInv, [Flow]_sagas, NEW packed \in outbox \ outbox', packed.clear
    PROVE  length' # length <=> length[packed.target] = packed.based
<1>1. PICK delivered \in outbox : Deliver(delivered)
  BY DEF Flow, sagas, Happen, Write, HandOver, Fetch, Dispatch, Returns, DispatchThrows
<1>2. packed = delivered
  BY <1>1 DEF Deliver
<1>3. /\ packed.sequence = packed.based /\ packed.target \in Targets
      /\ packed.sequence # Unset
  BY SagaAssumption DEF FlowInv, FlowTypeOK, Trustworthy
<1>4. CASE length[packed.target] = packed.based
  <2>1. length'[packed.target] = length[packed.target] + 1
    BY <1>1, <1>2, <1>3, <1>4 DEF Deliver, FlowInv, FlowTypeOK
  <2>2. length[packed.target] \in Nat
    BY <1>3 DEF FlowInv, FlowTypeOK
  <2>. QED BY <1>4, <2>1, <2>2
<1>5. CASE length[packed.target] # packed.based
  BY <1>1, <1>2, <1>3, <1>5 DEF Deliver
<1>. QED BY <1>4, <1>5

\* A command whose sequence is beyond doubt is refused exactly when its target
\* has moved since its book was fetched.
THEOREM RefusedOnlyIfOvertaken == FlowSpec => TakenUnlessOvertaken
<1>1. FlowInv /\ [Flow]_sagas =>
          [\A packed \in outbox \ outbox' : packed.clear =>
              (length' # length <=> length[packed.target] = packed.based)]_sagas
  BY DeliveryDecides
<1>. QED BY <1>1, FlowInvariant, PTL DEF FlowSpec, TakenUnlessOvertaken

-----------------------------------------------------------------------------
(***************************************************************************)
(* For chains of every length, built on any mix of the library's classes,  *)
(* with any registrations and any notification: where a rejection ends.    *)
(* A registry holds the answer that was registered last, and every hop's   *)
(* response follows from it.                                               *)
(***************************************************************************)
AnyAnswers == SUBSET {"events", "notification", "system_event"}
Responses  == SUBSET {"events", "notification", "system_event", "exception"}
Registrations == [by : Chain, key : RejectionKeys, answer : AnyAnswers]

SaidAt(c, key) == {i \in DOMAIN said : said[i].by = c /\ said[i].key = key}

\* What component c looks its handler up under.
Key(c) == IF kind[c] \in ByFullName THEN rejected(notification)
          ELSE extract_rejection_key(notification)

ChainTypeOK ==
    /\ kind \in [Chain -> Kinds]
    /\ said \in Seq(Registrations)
    /\ registry = [c \in Chain |-> registry[c]]
    /\ trail \in Seq(Responses)

Agrees ==
    \A c \in Chain : \A key :
        /\ key \in DOMAIN registry[c] <=> SaidAt(c, key) # {}
        /\ key \in DOMAIN registry[c] =>
             /\ registry[c][key] \in Answers(kind[c])
             /\ \E i \in SaidAt(c, key) : /\ \A j \in SaidAt(c, key) : j <= i
                                          /\ said[i].answer = registry[c][key]

Hops ==
    /\ Len(trail) <= Depth
    /\ trail # <<>> => notification # NoNotification
    /\ \A c \in DOMAIN trail : trail[c] = respond(kind[c], registry[c], notification)

ChainInv == ChainTypeOK /\ Agrees /\ Hops

-----------------------------------------------------------------------------
(***************************************************************************)
(* One hop.                                                                *)
(***************************************************************************)
\* The last registration is the one in the registry.
LEMMA LastIsRegistered ==
    ASSUME ChainTypeOK, Agrees, NEW c \in Chain
    PROVE  /\ Key(c) \notin DOMAIN registry[c] => Declared(c) = {}
           /\ Key(c) \in DOMAIN registry[c] => Declared(c) = {registry[c][Key(c)]}
<1>. DEFINE places == SaidAt(c, Key(c))
            last == {j \in places : \A k \in places : k <= j}
<1>1. Declared(c) = {said[i].answer : i \in last}
  BY Zenon DEF Declared, AnswerTo, FullKey, ShortKey, SaidAt, Key
<1>2. CASE Key(c) \notin DOMAIN registry[c]
  <2>1. places = {}
    BY <1>2 DEF Agrees
  <2>. QED BY <1>1, <1>2, <2>1
<1>3. CASE Key(c) \in DOMAIN registry[c]
  <2>1. PICK i \in places : /\ \A j \in places : j <= i
                            /\ said[i].answer = registry[c][Key(c)]
    BY <1>3 DEF Agrees
  <2>2. places \subseteq Nat
    BY DEF SaidAt, ChainTypeOK
  <2>3. \A j \in last : j = i
    BY <2>1, <2>2
  <2>4. i \in last
    BY <2>1
  <2>. QED BY <1>1, <1>3, <2>1, <2>3, <2>4
<1>. QED BY <1>2, <1>3

\* A registered answer is one that the component's handlers can give.
LEMMA AnswersAre ==
    ASSUME ChainTypeOK, Agrees, NEW c \in Chain, NEW key \in DOMAIN registry[c]
    PROVE  /\ kind[c] \in BySimpleName =>
                registry[c][key] \in {{}, Compensates, Forwards, {"events", "notification"}}
           /\ kind[c] = "ProcessManagerByHand" =>
                registry[c][key] \in {Compensates, {"events", "system_event"}}
<1>1. registry[c][key] \in Answers(kind[c])
  BY DEF Agrees
<1>2. CASE kind[c] \in BySimpleName
  <2>0. Answers(kind[c]) = SUBSET {"events", "notification"}
    BY <1>2 DEF Answers
  <2>1. registry[c][key] \in SUBSET {"events", "notification"}
    BY <1>1, <2>0
  <2>2. kind[c] # "ProcessManagerByHand"
    BY <1>2 DEF BySimpleName
  <2>. QED BY <2>1, <2>2 DEF Compensates, Forwards
<1>3. CASE kind[c] = "ProcessManagerByHand"
  <2>1. registry[c][key] \in {Compensates, Compensates \cup Escalates}
    BY <1>1, <1>3 DEF Answers, BySimpleName
  <2>2. Compensates \cup Escalates = {"events", "system_event"}
    BY DEF Compensates, Escalates
  <2>. QED BY <1>3, <2>1, <2>2 DEF BySimpleName
<1>. QED BY <1>2, <1>3

\* What each class makes of a registered answer, or of none.
LEMMA CommandRouterResponds ==
    ASSUME ChainTypeOK, Agrees, NEW c \in Chain, kind[c] = "CommandRouter"
    PROVE  LET r == respond(kind[c], registry[c], notification)
           IN  IF Key(c) \notin DOMAIN registry[c] THEN r = Escalates
               ELSE /\ r \in {{}, Compensates, Forwards}
                    /\ registry[c][Key(c)] \in {{}, Compensates, Forwards}
                         => r = registry[c][Key(c)]
                    /\ r = {} => registry[c][Key(c)] = {}
<1>1. Key(c) = extract_rejection_key(notification)
  BY DEF Key, ByFullName
<1>2. respond(kind[c], registry[c], notification) = command_router(registry[c], notification)
  BY DEF respond
<1>. QED BY <1>1, <1>2, AnswersAre DEF command_router, given, BySimpleName, Compensates, Forwards

LEMMA CommandHandlerRouterResponds ==
    ASSUME ChainTypeOK, Agrees, NEW c \in Chain, kind[c] = "CommandHandlerRouter"
    PROVE  LET r == respond(kind[c], registry[c], notification)
           IN  /\ r \in {Throws, Escalates, Compensates, Forwards}
               /\ notification.parsed =>
                    IF Key(c) \notin DOMAIN registry[c] THEN r = Escalates
                    ELSE registry[c][Key(c)] \in {Compensates, Forwards}
                           => r = registry[c][Key(c)]
<1>1. Key(c) = extract_rejection_key(notification)
  BY DEF Key, ByFullName
<1>2. respond(kind[c], registry[c], notification) = command_handler_router(registry[c], notification)
  BY DEF respond
<1>3. ASSUME NEW answer \in {{}, Compensates, Forwards, {"events", "notification"}}
      PROVE  /\ build_rejection_response(answer) \in {Escalates, Compensates, Forwards}
             /\ answer \in {Compensates, Forwards} => build_rejection_response(answer) = answer
             /\ answer = {} => build_rejection_response(answer) = Escalates
  BY DEF build_rejection_response, Compensates, Forwards
<1>. QED BY <1>1, <1>2, <1>3, AnswersAre DEF command_handler_router, given, BySimpleName,
     Compensates, Forwards

LEMMA ProcessManagerResponds ==
    ASSUME ChainTypeOK, Agrees, NEW c \in Chain, kind[c] = "ProcessManager"
    PROVE  LET r == respond(kind[c], registry[c], notification)
           IN  IF Key(c) \notin DOMAIN registry[c] THEN r = {}
               ELSE /\ r = registry[c][Key(c)]
                    /\ registry[c][Key(c)] \in {{}, Compensates, Forwards, {"events", "notification"}}
<1>1. Key(c) = extract_rejection_key(notification)
  BY DEF Key, ByFullName
<1>2. respond(kind[c], registry[c], notification) = process_manager(registry[c], notification)
  BY DEF respond
<1>. QED BY <1>1, <1>2, AnswersAre DEF process_manager, given, BySimpleName

LEMMA ProcessManagerRouterResponds ==
    ASSUME ChainTypeOK, Agrees, NEW c \in Chain, kind[c] = "ProcessManagerRouter"
    PROVE  respond(kind[c], registry[c], notification) \in {{}, Compensates, Throws}
<1>1. respond(kind[c], registry[c], notification)
        \in {Throws, given(registry[c], extract_rejection_key(notification)) \cap Compensates}
  BY DEF respond, process_manager_router
<1>. QED BY <1>1 DEF Compensates

LEMMA AggregatesRespond ==
    ASSUME ChainTypeOK, Agrees, NEW c \in Chain, kind[c] \in {"CommandHandlerBase", "AggregateByHand"}
    PROVE  LET r == respond(kind[c], registry[c], notification)
           IN  /\ r \in {Compensates, Escalates}
               /\ Named => r = IF Key(c) \in DOMAIN registry[c] THEN Compensates ELSE Escalates
<1>1. Key(c) = rejected(notification)
  BY DEF Key, ByFullName
<1>2. Named => /\ dispatch_key(from_notification(notification)) = rejected(notification)
               /\ dispatch_key(from_notification(notification)) # NoKey
  BY DEF Named, dispatch_key, from_notification, rejected_command_type, rejected, NoKey
<1>. QED BY <1>1, <1>2 DEF respond, command_handler, by_hand, emit_compensation_events,
     delegate_to_framework

LEMMA ByHandResponds ==
    ASSUME ChainTypeOK, Agrees, NEW c \in Chain, kind[c] = "ProcessManagerByHand"
    PROVE  LET r == respond(kind[c], registry[c], notification)
           IN  /\ r = Escalates \/ (Key(c) \in DOMAIN registry[c] /\ r = registry[c][Key(c)])
               /\ r \in {Compensates, Escalates, {"events", "system_event"}}
               /\ Named => IF Key(c) \in DOMAIN registry[c] THEN r = registry[c][Key(c)]
                           ELSE r = Escalates
<1>1. Key(c) = rejected(notification)
  BY DEF Key, ByFullName
<1>2. Named => /\ dispatch_key(from_notification(notification)) = rejected(notification)
               /\ dispatch_key(from_notification(notification)) # NoKey
  BY DEF Named, dispatch_key, from_notification, rejected_command_type, rejected, NoKey
<1>3. dispatch_key(from_notification(notification)) \in {NoKey, rejected(notification)}
  BY DEF dispatch_key, from_notification, rejected_command_type, rejected
<1>4. respond(kind[c], registry[c], notification) = pm_by_hand(registry[c], notification)
  BY DEF respond
<1>5. ASSUME NEW key \in DOMAIN registry[c]
      PROVE  pm_emit_compensation_events("system_event" \in registry[c][key]) = registry[c][key]
  BY AnswersAre DEF pm_emit_compensation_events, Compensates, Escalates
<1>. QED BY <1>1, <1>2, <1>3, <1>4, <1>5, AnswersAre DEF pm_by_hand, pm_delegate_to_framework,
     delegate_to_framework

LEMMA RespondType ==
    ASSUME ChainTypeOK, Agrees, NEW c \in Chain
    PROVE  respond(kind[c], registry[c], notification) \in Responses
<1>1. kind[c] \in Kinds
  BY DEF ChainTypeOK
<1>2. {{}, Compensates, Forwards, Escalates, Throws, {"events", "notification"},
       {"events", "system_event"}} \subseteq Responses
  BY DEF Compensates, Forwards, Escalates, Throws, Responses
<1>. QED BY <1>1, <1>2, CommandRouterResponds, CommandHandlerRouterResponds,
     ProcessManagerResponds, ProcessManagerRouterResponds, AggregatesRespond, ByHandResponds
     DEF Kinds, BySimpleName, ByFullName

-----------------------------------------------------------------------------
(***************************************************************************)
(* The invariant is inductive.                                             *)
(***************************************************************************)
LEMMA BuiltChainInv == Built => ChainInv
<1>. SUFFICES ASSUME Built PROVE ChainInv
  OBVIOUS
<1>1. ChainTypeOK
  BY DEF Built, ChainTypeOK
<1>2. Agrees
  BY DEF Built, Agrees, SaidAt
<1>3. Hops
  BY UnwindingAssumption DEF Built, Hops
<1>. QED BY <1>1, <1>2, <1>3 DEF ChainInv

LEMMA AnswerKeeps ==
    ASSUME ChainInv, NEW c0 \in Chain, NEW key0 \in RejectionKeys, NEW answer \in Answers(kind[c0]),
           Answer(c0, key0, answer)
    PROVE  ChainInv'
<1>. USE DEF ChainInv
<1>0. /\ said' = Append(said, [by |-> c0, key |-> key0, answer |-> answer])
      /\ kind' = kind /\ notification' = notification /\ trail' = trail
      /\ notification = NoNotification
  BY DEF Answer
<1>a. answer \in AnyAnswers
  BY DEF Answers, AnyAnswers, Compensates, Escalates
<1>b. [by |-> c0, key |-> key0, answer |-> answer] \in Registrations
  BY <1>a DEF Registrations
<1>c. /\ DOMAIN said = 1..Len(said) /\ Len(said) \in Nat
      /\ DOMAIN said' = 1..Len(said) + 1
      /\ \A i \in DOMAIN said : said'[i] = said[i]
      /\ said'[Len(said) + 1] = [by |-> c0, key |-> key0, answer |-> answer]
      /\ said' \in Seq(Registrations)
  BY <1>0, <1>b DEF ChainTypeOK
<1>d. \A c \in Chain : \A key :
          SaidAt(c, key)' = IF c = c0 /\ key = key0 THEN SaidAt(c, key) \cup {Len(said) + 1}
                            ELSE SaidAt(c, key)
  BY <1>c DEF SaidAt
<1>e. /\ registry' = [c \in Chain |-> registry'[c]]
      /\ \A c \in Chain : c # c0 => registry'[c] = registry[c]
      /\ registry'[c0] = [k \in DOMAIN registry[c0] \cup {key0} |->
                             IF k = key0 THEN answer ELSE registry[c0][k]]
  <2>1. DOMAIN registry = Chain
    BY DEF ChainTypeOK
  <2>2. registry' = [registry EXCEPT ![c0] =
                        [k \in DOMAIN registry[c0] \cup {key0} |->
                            IF k = key0 THEN answer ELSE registry[c0][k]]]
    BY DEF Answer
  <2>. QED BY <2>1, <2>2
<1>1. ChainTypeOK'
  BY <1>0, <1>c, <1>e DEF ChainTypeOK
<1>2. Agrees'
  <2>. SUFFICES ASSUME NEW c \in Chain, NEW key
                PROVE  /\ key \in DOMAIN registry'[c] <=> SaidAt(c, key)' # {}
                       /\ key \in DOMAIN registry'[c] =>
                            /\ registry'[c][key] \in Answers(kind[c])
                            /\ \E i \in SaidAt(c, key)' :
                                  /\ \A j \in SaidAt(c, key)' : j <= i
                                  /\ said'[i].answer = registry'[c][key]
    BY <1>0 DEF Agrees
  <2>1. CASE c = c0 /\ key = key0
    <3>1. SaidAt(c, key)' = SaidAt(c, key) \cup {Len(said) + 1}
      BY <1>d, <2>1
    <3>2. \A j \in SaidAt(c, key)' : j <= Len(said) + 1
      BY <1>c, <3>1 DEF SaidAt
    <3>3. key \in DOMAIN registry'[c] /\ registry'[c][key] = answer
      BY <1>e, <2>1
    <3>4. said'[Len(said) + 1].answer = answer
      BY <1>c
    <3>. QED BY <2>1, <3>1, <3>2, <3>3, <3>4
  <2>2. CASE ~(c = c0 /\ key = key0)
    <3>1. SaidAt(c, key)' = SaidAt(c, key)
      BY <1>d, <2>2
    <3>2. \A i \in SaidAt(c, key) : said'[i] = said[i]
      BY <1>c DEF SaidAt
    <3>3. /\ key \in DOMAIN registry'[c] <=> key \in DOMAIN registry[c]
          /\ key \in DOMAIN registry[c] => registry'[c][key] = registry[c][key]
      BY <1>e, <2>2
    <3>. QED BY <3>1, <3>2, <3>3 DEF Agrees
  <2>. QED BY <2>1, <2>2
<1>3. Hops'
  BY <1>0 DEF Hops, ChainTypeOK
<1>. QED BY <1>1, <1>2, <1>3

LEMMA RejectKeeps == ASSUME ChainInv, NEW told \in Notifications, Reject(told) PROVE ChainInv'
<1>. USE DEF ChainInv, Reject
<1>1. ChainTypeOK' /\ Agrees'
  BY DEF ChainTypeOK, Agrees, SaidAt
<1>2. Hops'
  BY DEF Hops, ChainTypeOK
<1>. QED BY <1>1, <1>2

LEMMA NotifyKeeps == ASSUME ChainInv, Notify PROVE ChainInv'
<1>. USE DEF ChainInv
<1>. DEFINE c == Len(trail) + 1
<1>0. /\ kind' = kind /\ registry' = registry /\ said' = said /\ notification' = notification
      /\ notification # NoNotification
      /\ trail' = Append(trail, respond(kind[c], registry[c], notification))
  BY DEF Notify
<1>1. c \in Chain /\ Len(trail) < Depth
  BY UnwindingAssumption DEF Notify, Settled, Hops, ChainTypeOK, Chain
<1>2. respond(kind[c], registry[c], notification) \in Responses
  BY <1>1, RespondType
<1>3. ChainTypeOK' /\ Agrees'
  BY <1>0, <1>2 DEF ChainTypeOK, Agrees, SaidAt
<1>4. Hops'
  <2>1. /\ Len(trail') = Len(trail) + 1 /\ DOMAIN trail' = DOMAIN trail \cup {c}
        /\ trail'[c] = respond(kind[c], registry[c], notification)
        /\ \A d \in DOMAIN trail : trail'[d] = trail[d]
    BY <1>0, <1>2 DEF ChainTypeOK
  <2>3. \A d \in DOMAIN trail' : trail'[d] = respond(kind[d], registry[d], notification)
    BY <2>1 DEF Hops
  <2>4. Len(trail') <= Depth
    BY <1>1, <2>1, UnwindingAssumption DEF ChainTypeOK
  <2>5. \A d \in DOMAIN trail' : trail'[d] = respond(kind'[d], registry'[d], notification')
    BY <1>0, <2>3, Zenon
  <2>. QED BY <1>0, <2>4, <2>5, Zenon DEF Hops
<1>. QED BY <1>3, <1>4

LEMMA NextChainInv == ChainInv /\ [Unwind]_unwinding => ChainInv'
<1>. SUFFICES ASSUME ChainInv, [Unwind]_unwinding PROVE ChainInv'
  OBVIOUS
<1>1. CASE UNCHANGED unwinding
  <2>1. /\ kind' = kind /\ registry' = registry /\ said' = said
        /\ notification' = notification /\ trail' = trail
    BY <1>1 DEF unwinding
  <2>2. ChainTypeOK' /\ Agrees'
    BY <2>1 DEF ChainInv, ChainTypeOK, Agrees, SaidAt
  <2>3. Hops'
    BY <2>1, Zenon DEF ChainInv, Hops
  <2>. QED BY <2>2, <2>3 DEF ChainInv
<1>2. CASE Unwind
  BY <1>2, AnswerKeeps, RejectKeeps, NotifyKeeps DEF Unwind, on_rejected, handles_rejection
<1>. QED BY <1>1, <1>2

LEMMA ChainInvariant == UnwindingSpec => []ChainInv
BY BuiltChainInv, NextChainInv, PTL DEF UnwindingSpec

-----------------------------------------------------------------------------
LEMMA HopsOfChain ==
    ASSUME ChainInv, NEW c \in DOMAIN trail
    PROVE  /\ c \in Chain /\ kind[c] \in Kinds
           /\ trail[c] = respond(kind[c], registry[c], notification)
<1>1. c \in Chain
  BY UnwindingAssumption DEF ChainInv, Hops, ChainTypeOK, Chain
<1>2. trail[c] = respond(kind[c], registry[c], notification)
  BY DEF ChainInv, Hops
<1>. QED BY <1>1, <1>2 DEF ChainInv, ChainTypeOK

\* Whatever the components of a chain are built on, a rejection passes exactly
\* those whose handler only forwards, ends with events at one that compensates,
\* and at one without a handler with the framework, or, at a ProcessManager, with
\* nothing.
THEOREM RejectionsEndWhereDeclared == UnwindingSpec => []EndsWhereDeclared
<1>1. ChainInv => EndsWhereDeclared
  <2>. SUFFICES ASSUME ChainInv, Named, NEW c \in DOMAIN trail, kind[c] # "ProcessManagerRouter"
                PROVE  /\ Declared(c) = {} => trail[c] = IF kind[c] = "ProcessManager" THEN {}
                                                        ELSE Escalates
                       /\ Declared(c) = {Forwards} => trail[c] = Forwards
                       /\ Declared(c) = {Compensates} => trail[c] = Compensates
    BY Zenon DEF EndsWhereDeclared
  <2>1. ChainTypeOK /\ Agrees /\ c \in Chain /\ kind[c] \in Kinds
        /\ trail[c] = respond(kind[c], registry[c], notification) /\ notification.parsed
    BY HopsOfChain DEF ChainInv, Named
  <2>2. CASE Key(c) \notin DOMAIN registry[c]
    <3>1. Declared(c) = {}
      BY <2>1, <2>2, LastIsRegistered
    <3>2. trail[c] = IF kind[c] = "ProcessManager" THEN {} ELSE Escalates
      BY <2>1, <2>2, CommandRouterResponds, CommandHandlerRouterResponds,
         ProcessManagerResponds, AggregatesRespond, ByHandResponds
         DEF Kinds, BySimpleName, ByFullName
    <3>. QED BY <3>1, <3>2
  <2>3. CASE Key(c) \in DOMAIN registry[c]
    <3>1. Declared(c) = {registry[c][Key(c)]}
      BY <2>1, <2>3, LastIsRegistered
    <3>2. registry[c][Key(c)] \in {Compensates, Forwards} => trail[c] = registry[c][Key(c)]
      <4>1. Compensates # {} /\ Forwards # {} /\ Forwards # Compensates
        BY DEF Compensates, Forwards
      <4>2. kind[c] \in {"CommandHandlerBase", "AggregateByHand"} =>
                registry[c][Key(c)] = Compensates
        BY <2>1, <2>3 DEF Agrees, Answers, BySimpleName
      <4>. QED BY <2>1, <2>3, <4>1, <4>2, CommandRouterResponds, CommandHandlerRouterResponds,
               ProcessManagerResponds, AggregatesRespond, ByHandResponds
               DEF Kinds, BySimpleName, ByFullName
    <3>3. \A a : Declared(c) = {a} => registry[c][Key(c)] = a
      BY <3>1
    <3>. QED BY <3>1, <3>2, <3>3
  <2>. QED BY <2>2, <2>3
<1>. QED BY <1>1, ChainInvariant, PTL

=============================================================================
