-------------------------- MODULE ProcessFlowProofs --------------------------
(***************************************************************************)
(* What holds of ProcessFlow for any handlers, appliers and happenings,    *)
(* any number of workflows and any way to cut books.                       *)
(*                                                                         *)
(* The walk over a book is followed page by page (WalkTurn, WalkStop):     *)
(* what it has gathered is what handling the pages one by one adds to what *)
(* the pages taken before came to.  Both are loops, FoldLefts that         *)
(* FoldFacts unrolls.                                                      *)
(***************************************************************************)
EXTENDS ProcessFlow, SequenceFacts, TLAPS

(***************************************************************************)
(* Events outside any workflow.                                            *)
(***************************************************************************)
Inert == /\ DOMAIN issued = Streams
         /\ DOMAIN injected = Streams
         /\ UncorrelatedIsInert

\* dispatch on a book without a correlation id returns {}, whatever its pages.
LEMMA StrayResult ==
    ASSUME NEW m, NEW trigger, NEW prior
    PROVE  LET result == DispatchResult(dispatch(m, NoCorrelation, trigger, prior, NoThrow))
           IN  /\ result.commands = <<>> /\ result.facts = <<>>
               /\ result.response = NoResponse
<1>1. NoThrow.stage # "rebuild"
  BY DEF NoThrow, Throws
<1> QED  BY <1>1 DEF dispatch, DispatchResult, clear_facts, Starting

LEMMA InertStep ==
    ASSUME Inert, [Next]_vars
    PROVE  Inert'
<1>1. CASE issued' = issued /\ injected' = injected
  BY <1>1 DEF Inert, UncorrelatedIsInert
<1>2. ASSUME NEW s \in Streams, Answered(s)
      PROVE  Inert'
  <2>1. PICK pages \in TriggerBooks(s) :
          LET result == DispatchResult(Dispatched(s, pages, NoThrow))
          IN  /\ issued' = [issued EXCEPT ![s] = @ \o result.commands]
              /\ injected' = [injected EXCEPT ![s] = @ \o result.facts]
    BY <1>2 DEF Answered
  <2> DEFINE result == DispatchResult(Dispatched(s, pages, NoThrow))
  <2>2. NoCorrelation \in Streams
    BY DEF Streams
  <2>3. DOMAIN issued' = Streams /\ DOMAIN injected' = Streams
    BY <2>1 DEF Inert
  <2>4. CASE s = NoCorrelation
    <3>1. result.commands = <<>> /\ result.facts = <<>>
      BY <2>4, StrayResult DEF Dispatched
    <3>2. issued'[s] = issued[s] \o result.commands
          /\ injected'[s] = injected[s] \o result.facts
      BY <2>1 DEF Inert
    <3> QED  BY <2>3, <2>4, <3>1, <3>2 DEF Inert, UncorrelatedIsInert
  <2>5. CASE s # NoCorrelation
    BY <2>1, <2>2, <2>3, <2>5 DEF Inert, UncorrelatedIsInert
  <2> QED  BY <2>4, <2>5
<1> QED  BY <1>1, <1>2 DEF Next, vars, Happen, Failed, Decide

\* Whatever handlers are registered and whatever books the coordinator cuts,
\* events without a correlation id never cause a command or a fact.
THEOREM StrayEventsAreInert == Spec => []UncorrelatedIsInert
<1>1. Init => Inert
  BY DEF Init, Inert, UncorrelatedIsInert, Streams, Nothing
<1>2. Inert => UncorrelatedIsInert
  BY DEF Inert
<1> QED  BY <1>1, <1>2, InertStep, PTL DEF Spec

-----------------------------------------------------------------------------
(***************************************************************************)
(* The loops as folds.                                                     *)
(***************************************************************************)
AppliedTo(state, page, fixed) == apply(state, page.event)
RebuiltBy(run, page, fixed) == rebuild_page(run, page)
TurnedBy(alone, page, fixed) == Turn(alone, page)

Walk       == INSTANCE FoldFacts WITH Step <- visit
Applying   == INSTANCE FoldFacts WITH Step <- AppliedTo
Rebuilding == INSTANCE FoldFacts WITH Step <- RebuiltBy
Turning    == INSTANCE FoldFacts WITH Step <- TurnedBy

Fresh(m) == [state |-> create_empty_state, exists |-> FALSE, facts |-> m.facts]

Start(m, prior) == Starting(clear_facts(rebuild_state(m, prior)))

\* dispatch, for a workflow, is the walk over its pages.
LEMMA DispatchIsWalk ==
    ASSUME NEW m, NEW s, s # NoCorrelation, NEW trigger, NEW prior
    PROVE  dispatch(m, s, trigger, prior, NoThrow)
             = Walk!Fold(Start(m, prior), trigger.pages, NoThrow)
<1>1. NoThrow.stage # "rebuild"
  BY DEF NoThrow, Throws
<1> QED
  BY <1>1 DEF dispatch, Start, FoldLeft, MapThenFoldSet, Max,
     Walk!Fold, Walk!FoldLeft, Walk!MapThenFoldSet, Walk!Max

LEMMA StateOfIsFold ==
    ASSUME NEW b
    PROVE  StateOf(b) = Applying!Fold(create_empty_state, b, 0)
BY DEF StateOf, AppliedTo, FoldLeft, MapThenFoldSet, Max,
       Applying!Fold, Applying!FoldLeft, Applying!MapThenFoldSet, Applying!Max

LEMMA RebuildIsFold ==
    ASSUME NEW m, NEW prior
    PROVE  rebuild_state(m, prior) = Rebuilding!Fold(Fresh(m), prior.pages, 0)
BY DEF rebuild_state, Fresh, RebuiltBy, FoldLeft, MapThenFoldSet, Max,
       Rebuilding!Fold, Rebuilding!FoldLeft, Rebuilding!MapThenFoldSet, Rebuilding!Max

\* What handling the pages of p one by one makes of `alone'.
After(alone, p) == Turning!Fold(alone, p, 0)

LEMMA AloneIsFold ==
    ASSUME NEW s
    PROVE  Alone(s) = After(Blank, taken[s])
BY DEF Alone, After, TurnedBy, FoldLeft, MapThenFoldSet, Max,
       Turning!Fold, Turning!FoldLeft, Turning!MapThenFoldSet, Turning!Max

LEMMA StateTurn ==
    ASSUME NEW b, IsSequence(b), NEW page
    PROVE  /\ StateOf(<<>>) = create_empty_state
           /\ StateOf(Append(b, page)) = apply(StateOf(b), page.event)
<1>1. StateOf(<<>>) = create_empty_state
  BY StateOfIsFold, Applying!FoldNothing
<1>2. Applying!Fold(create_empty_state, Append(b, page), 0)
        = AppliedTo(Applying!Fold(create_empty_state, b, 0), page, 0)
  BY Applying!FoldAppend DEF IsSequence, ToSet, Applying!IsSequence, Applying!ToSet
<1> QED  BY <1>1, <1>2, StateOfIsFold DEF AppliedTo

LEMMA RebuiltPage ==
    ASSUME NEW m, NEW b, IsSequence(b), NEW page
    PROVE  Rebuilding!Fold(m, Append(b, page), 0)
             = rebuild_page(Rebuilding!Fold(m, b, 0), page)
<1>1. Rebuilding!Fold(m, Append(b, page), 0)
        = RebuiltBy(Rebuilding!Fold(m, b, 0), page, 0)
  BY Rebuilding!FoldAppend DEF IsSequence, ToSet, Rebuilding!IsSequence, Rebuilding!ToSet
<1> QED  BY <1>1 DEF RebuiltBy

LEMMA WalkPage ==
    ASSUME NEW run, NEW pages, IsSequence(pages), NEW page
    PROVE  Walk!Fold(run, Append(pages, page), NoThrow)
             = visit(Walk!Fold(run, pages, NoThrow), page, NoThrow)
BY Walk!FoldAppend DEF IsSequence, ToSet, Walk!IsSequence, Walk!ToSet

LEMMA AfterPage ==
    ASSUME NEW alone, NEW p, IsSequence(p), NEW page
    PROVE  /\ After(alone, <<>>) = alone
           /\ After(alone, Append(p, page)) = Turn(After(alone, p), page)
<1>1. After(alone, <<>>) = alone
  BY Turning!FoldNothing DEF After
<1>2. After(alone, Append(p, page)) = TurnedBy(After(alone, p), page, 0)
  BY Turning!FoldAppend DEF After, IsSequence, ToSet, Turning!IsSequence, Turning!ToSet
<1> QED  BY <1>1, <1>2 DEF TurnedBy

LEMMA AfterBoth ==
    ASSUME NEW alone, NEW p, IsSequence(p), NEW q, IsSequence(q)
    PROVE  After(alone, p \o q) = After(After(alone, p), q)
<1>1. Turning!IsSequence(p) /\ Turning!IsSequence(q)
  BY DEF IsSequence, ToSet, Turning!IsSequence, Turning!ToSet
<1> DEFINE both == p \o q
<1>2. Turning!Fold(alone, both, 0) = Turning!Fold(Turning!Fold(alone, p, 0), q, 0)
  BY <1>1, Turning!FoldConcat
<1> QED  BY <1>2 DEF After

-----------------------------------------------------------------------------
(***************************************************************************)
(* The members.                                                            *)
(***************************************************************************)
Fields == {"state", "exists", "facts"}

LEMMA RebuildTurn ==
    ASSUME NEW m, DOMAIN m = Fields, NEW page
    PROVE  /\ DOMAIN rebuild_page(m, page) = Fields
           /\ rebuild_page(m, page).state = apply(m.state, page.event)
<1>1. CASE has_event(page) /\ type_name_from_url(page.event.url) \in appliers
  BY <1>1 DEF rebuild_page, Fields
<1>2. CASE ~has_event(page)
  BY <1>2, NameAssumption DEF rebuild_page, has_event, apply
<1>3. CASE has_event(page) /\ type_name_from_url(page.event.url) \notin appliers
  BY <1>3 DEF rebuild_page, apply
<1> QED  BY <1>1, <1>2, <1>3

\* Whatever the members were: the state rebuilt is that of the prior book.
LEMMA RebuiltState ==
    ASSUME NEW m, NEW b, IsSequence(b)
    PROVE  rebuild_state(m, Book(0, b)).state = StateOf(b)
<1> DEFINE n == Len(b)
           First(j) == SubSeq(b, 1, j)
           Run(j) == Rebuilding!Fold(Fresh(m), First(j), 0)
           T == {j \in 0..n : DOMAIN Run(j) = Fields /\ Run(j).state = StateOf(First(j))}
<1>1. n \in Nat
  BY Places
<1>2. 0 \in T
  <2>1. Run(0) = Fresh(m) /\ StateOf(First(0)) = create_empty_state
    BY WholeFront, EmptyIsSequence, Rebuilding!FoldNothing, StateTurn
  <2>2. DOMAIN Fresh(m) = Fields /\ Fresh(m).state = create_empty_state
    BY DEF Fresh, Fields
  <2> QED  BY <1>1, <2>1, <2>2
<1>3. ASSUME NEW j \in 1..n, j - 1 \in T
      PROVE  j \in T
  <2>1. j \in 0..n /\ j - 1 \in 0..n
    BY <1>1
  <2>2. First(j) = Append(First(j - 1), b[j]) /\ IsSequence(First(j - 1))
    BY <2>1, FrontGrows, FrontFacts
  <2> HIDE DEF First
  <2>3. Run(j) = rebuild_page(Run(j - 1), b[j])
    BY <2>2, RebuiltPage
  <2>4. StateOf(First(j)) = apply(StateOf(First(j - 1)), b[j].event)
    BY <2>2, StateTurn
  <2>5. DOMAIN Run(j - 1) = Fields /\ Run(j - 1).state = StateOf(First(j - 1))
    BY <1>3
  <2> HIDE DEF Run
  <2> QED  BY <2>1, <2>3, <2>4, <2>5, RebuildTurn
<1> HIDE DEF T
<1>4. 0..n \subseteq T
  BY <1>1, <1>2, <1>3, InductionUpTo
<1>5. n \in T
  BY <1>1, <1>4
<1>6. Rebuilding!Fold(Fresh(m), b, 0).state = StateOf(b)
  BY <1>5, WholeFront DEF T
<1> QED  BY <1>6, RebuildIsFold DEF Book

-----------------------------------------------------------------------------
(***************************************************************************)
(* What pages come to, one by one.                                         *)
(***************************************************************************)
Wholes == {"book", "commands", "facts", "forwarded"}

\* A record of what pages came to.
Sound(alone) ==
    /\ DOMAIN alone = Wholes
    /\ IsSequence(alone.book) /\ IsSequence(alone.commands)
    /\ IsSequence(alone.facts) /\ IsSequence(alone.forwarded)

\* What user code returns is typed: vectors of commands, of facts and of pages.
AnswersAreSequences ==
    \A state, event, key :
        /\ IsSequence(Handler(state, event).commands)
        /\ IsSequence(Handler(state, event).facts)
        /\ IsSequence(Rejection(state, key).facts)
        /\ IsSequence(Rejection(state, key).pages)
        /\ IsSequence(Rejection(state, key).notification)

LEMMA BlankIsSound == Sound(Blank)
BY EmptyIsSequence DEF Sound, Blank, Wholes

\* What user code does with an event in a state, none being registered included.
EffectOf(state, event) ==
    IF type_name_from_url(event.url) \in handlers THEN Handler(state, event)
    ELSE [commands |-> <<>>, facts |-> <<>>]

AnswerOf(state, key) ==
    IF key \in rejection_handlers THEN Rejection(state, key) ELSE Unanswered(state)

LEMMA EffectIsSequences ==
    ASSUME AnswersAreSequences, NEW state, NEW event, NEW key
    PROVE  /\ IsSequence(EffectOf(state, event).commands)
           /\ IsSequence(EffectOf(state, event).facts)
           /\ IsSequence(AnswerOf(state, key).facts)
           /\ IsSequence(AnswerOf(state, key).pages)
           /\ IsSequence(AnswerOf(state, key).notification)
<1>1. IsSequence(EffectOf(state, event).commands) /\ IsSequence(EffectOf(state, event).facts)
  BY EmptyIsSequence DEF EffectOf, AnswersAreSequences
<1>2. /\ IsSequence(AnswerOf(state, key).facts) /\ IsSequence(AnswerOf(state, key).pages)
      /\ IsSequence(AnswerOf(state, key).notification)
  BY EmptyIsSequence DEF AnswerOf, Unanswered, AnswersAreSequences
<1> QED  BY <1>1, <1>2

\* An event's turn.
LEMMA EventTurn ==
    ASSUME AnswersAreSequences, NEW alone, Sound(alone), NEW page, ~IsRejection(page)
    PROVE  LET next   == Turn(alone, page)
               effect == EffectOf(StateOf(Append(alone.book, page)), page.event)
           IN  /\ Sound(next)
               /\ next.book = Append(alone.book, page)
               /\ next.commands = alone.commands \o effect.commands
               /\ next.facts = alone.facts \o effect.facts
               /\ next.forwarded = alone.forwarded
<1> DEFINE next == Turn(alone, page)
           longer == Append(alone.book, page)
           effect == EffectOf(StateOf(longer), page.event)
<1>1. IsSequence(effect.commands) /\ IsSequence(effect.facts)
  BY EffectIsSequences
<1>2. IsSequence(longer)
  BY AppendFacts DEF Sound
<1>3. alone.commands \o <<>> = alone.commands /\ alone.facts \o <<>> = alone.facts
  BY EmptyIsSequence, ConcatFacts DEF Sound
<1>4. next = IF type_name_from_url(page.event.url) \in handlers
             THEN [alone EXCEPT !.book = longer,
                                !.commands = @ \o effect.commands,
                                !.facts = @ \o effect.facts]
             ELSE [alone EXCEPT !.book = longer]
  BY DEF Turn, Reaction, EffectOf
<1>5. type_name_from_url(page.event.url) \notin handlers
        => effect.commands = <<>> /\ effect.facts = <<>>
  BY DEF EffectOf
<1> HIDE DEF next, longer, effect
<1>6. /\ DOMAIN next = Wholes /\ next.book = longer
      /\ next.commands = alone.commands \o effect.commands
      /\ next.facts = alone.facts \o effect.facts
      /\ next.forwarded = alone.forwarded
  BY <1>3, <1>4, <1>5 DEF Sound, Wholes
<1>7. IsSequence(alone.commands \o effect.commands) /\ IsSequence(alone.facts \o effect.facts)
  BY <1>1, ConcatFacts DEF Sound
<1>8. Sound(next)
  BY <1>2, <1>6, <1>7 DEF Sound
<1> QED  BY <1>6, <1>8 DEF next, longer, effect

\* A rejection's turn.
LEMMA RejectionTurn ==
    ASSUME AnswersAreSequences, NEW alone, Sound(alone), NEW page, IsRejection(page)
    PROVE  LET next   == Turn(alone, page)
               answer == AnswerOf(StateOf(alone.book), RejectedKey(page.event))
           IN  /\ Sound(next)
               /\ next.book = alone.book \o answer.pages
               /\ next.commands = alone.commands
               /\ next.facts = alone.facts \o answer.facts
               /\ next.forwarded = alone.forwarded \o answer.notification
<1> DEFINE next == Turn(alone, page)
           key == RejectedKey(page.event)
           answer == AnswerOf(StateOf(alone.book), key)
<1>1. IsSequence(answer.facts) /\ IsSequence(answer.pages) /\ IsSequence(answer.notification)
  BY EffectIsSequences
<1>2. /\ alone.book \o <<>> = alone.book /\ alone.facts \o <<>> = alone.facts
      /\ alone.forwarded \o <<>> = alone.forwarded
  BY EmptyIsSequence, ConcatFacts DEF Sound
<1>3. next = IF key \in rejection_handlers
             THEN [alone EXCEPT !.book = @ \o answer.pages,
                                !.facts = @ \o answer.facts,
                                !.forwarded = @ \o answer.notification]
             ELSE alone
  BY DEF Turn, Compensation, AnswerOf
<1>4. key \notin rejection_handlers
        => answer.pages = <<>> /\ answer.facts = <<>> /\ answer.notification = <<>>
  BY DEF AnswerOf, Unanswered
<1> HIDE DEF next, answer, key
<1>5. /\ DOMAIN next = Wholes
      /\ next.book = alone.book \o answer.pages
      /\ next.commands = alone.commands
      /\ next.facts = alone.facts \o answer.facts
      /\ next.forwarded = alone.forwarded \o answer.notification
  BY <1>2, <1>3, <1>4 DEF Sound, Wholes
<1>6. /\ IsSequence(alone.book \o answer.pages) /\ IsSequence(alone.facts \o answer.facts)
      /\ IsSequence(alone.forwarded \o answer.notification)
  BY <1>1, ConcatFacts DEF Sound
<1>7. Sound(next)
  BY <1>5, <1>6 DEF Sound
<1> QED  BY <1>5, <1>7 DEF next, answer, key

-----------------------------------------------------------------------------
(***************************************************************************)
(* The walk, page by page.                                                 *)
(***************************************************************************)
Parts == {"members", "page", "commands", "response", "end"}

Shaped(run) == /\ DOMAIN run = Parts
               /\ DOMAIN run.members = Fields
               /\ run.page \in Nat
               /\ IsSequence(run.commands) /\ IsSequence(run.members.facts)

\* The walk `run', that began when the pages before had come to `from', has met
\* no notification; with its pages they come to `to'.
Tells(run, from, to) ==
    /\ Shaped(run)
    /\ run.end = "commands" /\ run.response = NoResponse
    /\ run.members.state = StateOf(to.book)
    /\ Sound(from) /\ Sound(to)
    /\ to.commands = from.commands \o run.commands
    /\ to.facts = from.facts \o run.members.facts
    /\ to.forwarded = from.forwarded

LEMMA StartTells ==
    ASSUME NEW m, NEW from, Sound(from)
    PROVE  Tells(Start(m, Book(0, from.book)), from, from)
<1> DEFINE run == Start(m, Book(0, from.book))
           built == rebuild_state(m, Book(0, from.book))
<1>1. built.state = StateOf(from.book)
  BY RebuiltState DEF Sound
<1> HIDE DEF built
<1>2. run = Starting([state |-> built.state, exists |-> built.exists, facts |-> <<>>])
  BY DEF Start, clear_facts, built
<1>3. /\ DOMAIN run = Parts /\ DOMAIN run.members = Fields /\ run.page = 0
      /\ run.commands = <<>> /\ run.members.facts = <<>> /\ run.members.state = built.state
      /\ run.end = "commands" /\ run.response = NoResponse
  BY <1>2 DEF Starting, Parts, Fields
<1> HIDE DEF run
<1>4. Shaped(run)
  BY <1>3, EmptyIsSequence DEF Shaped
<1>5. from.commands \o <<>> = from.commands /\ from.facts \o <<>> = from.facts
  BY EmptyIsSequence, ConcatFacts DEF Sound
<1>6. Tells(run, from, from)
  BY <1>1, <1>3, <1>4, <1>5 DEF Tells
<1> QED  BY <1>6 DEF run

\* What handling `event' makes of `run'.
Reacted(run, event, next) ==
    LET state  == apply(run.members.state, event)
        effect == EffectOf(state, event)
    IN  /\ DOMAIN next = Parts /\ DOMAIN next.members = Fields
        /\ next.page = run.page + 1
        /\ next.end = "commands" /\ next.response = run.response
        /\ next.members.state = state
        /\ next.members.facts = run.members.facts \o effect.facts
        /\ next.commands = run.commands \o effect.commands

LEMMA ReactDoes ==
    ASSUME NEW run, Shaped(run), run.end = "commands", NEW event
    PROVE  Reacted(run, event, react([run EXCEPT !.page = @ + 1], event, NoThrow))
<1> DEFINE here == [run EXCEPT !.page = @ + 1]
           next == react(here, event, NoThrow)
           state == apply(run.members.state, event)
           effect == Handler(state, event)
           applied == [here EXCEPT !.members.state = state]
<1>1. DOMAIN here = Parts /\ here.page = run.page + 1 /\ here.end = "commands"
      /\ here.response = run.response /\ here.members = run.members
      /\ here.commands = run.commands
  BY DEF Shaped, Parts
<1>2. NoThrow # Throws("applier", here.page) /\ NoThrow # Throws("handler", here.page)
  BY DEF NoThrow, Throws
<1> HIDE DEF here
<1>3. DOMAIN applied = Parts /\ DOMAIN applied.members = Fields
      /\ applied.members.state = state /\ applied.members.facts = run.members.facts
      /\ applied.page = here.page /\ applied.end = "commands"
      /\ applied.response = run.response /\ applied.commands = run.commands
  BY <1>1 DEF Shaped, Parts, Fields
<1>4. next = IF type_name_from_url(event.url) \notin handlers THEN applied
             ELSE [applied EXCEPT !.members.facts = @ \o effect.facts,
                                  !.commands = @ \o effect.commands]
  BY <1>1, <1>2 DEF react
<1> HIDE DEF applied, next, effect, state
<1>5. CASE type_name_from_url(event.url) \notin handlers
  <2>1. EffectOf(state, event) = [commands |-> <<>>, facts |-> <<>>]
    BY <1>5 DEF EffectOf
  <2>2. run.members.facts \o <<>> = run.members.facts /\ run.commands \o <<>> = run.commands
    BY ConcatFacts, EmptyIsSequence DEF Shaped
  <2>3. next = applied
    BY <1>4, <1>5
  <2>4. /\ DOMAIN next = Parts /\ DOMAIN next.members = Fields
        /\ next.page = run.page + 1 /\ next.end = "commands"
        /\ next.response = run.response /\ next.members.state = state
        /\ next.members.facts = run.members.facts \o <<>>
        /\ next.commands = run.commands \o <<>>
    BY <1>1, <1>3, <2>2, <2>3
  <2>5. EffectOf(state, event).facts = <<>> /\ EffectOf(state, event).commands = <<>>
    BY <2>1
  <2>6. Reacted(run, event, next)
    BY <2>4, <2>5 DEF Reacted, state
  <2> QED  BY <2>6 DEF next, here
<1>6. CASE type_name_from_url(event.url) \in handlers
  <2>1. EffectOf(state, event) = effect
    BY <1>6 DEF EffectOf, effect
  <2>2. next = [applied EXCEPT !.members.facts = @ \o effect.facts,
                               !.commands = @ \o effect.commands]
    BY <1>4, <1>6
  <2>3. /\ DOMAIN next = Parts /\ DOMAIN next.members = Fields
        /\ next.page = here.page /\ next.end = "commands"
        /\ next.response = run.response /\ next.members.state = state
        /\ next.members.facts = run.members.facts \o effect.facts
        /\ next.commands = run.commands \o effect.commands
    BY <1>3, <2>2 DEF Parts, Fields
  <2>4. Reacted(run, event, next)
    BY <1>1, <2>1, <2>3 DEF Reacted, state
  <2> QED  BY <2>4 DEF next, here
<1> QED  BY <1>5, <1>6

\* A page that is no notification.
LEMMA WalkTurn ==
    ASSUME AnswersAreSequences, NEW run, NEW from, NEW to, Tells(run, from, to),
           NEW page, ~IsRejection(page)
    PROVE  Tells(visit(run, page, NoThrow), from, Turn(to, page))
<1> DEFINE next == visit(run, page, NoThrow)
           here == [run EXCEPT !.page = @ + 1]
           later == Turn(to, page)
           longer == Append(to.book, page)
           effect == EffectOf(StateOf(longer), page.event)
           ec == effect.commands
           ef == effect.facts
<1>1. /\ Shaped(run) /\ run.end = "commands" /\ run.response = NoResponse
      /\ Sound(from) /\ Sound(to)
  BY DEF Tells
<1>2. /\ Sound(later) /\ later.book = longer
      /\ later.commands = to.commands \o ec
      /\ later.facts = to.facts \o ef
      /\ later.forwarded = to.forwarded
  BY <1>1, EventTurn
<1>3. StateOf(longer) = apply(StateOf(to.book), page.event)
  BY <1>1, StateTurn DEF Sound
<1>4. IsSequence(ec) /\ IsSequence(ef)
  BY EffectIsSequences
<1>5. /\ DOMAIN next = Parts /\ DOMAIN next.members = Fields
      /\ next.page = run.page + 1
      /\ next.end = "commands" /\ next.response = NoResponse
      /\ next.members.state = StateOf(longer)
      /\ next.members.facts = run.members.facts \o ef
      /\ next.commands = run.commands \o ec
  <2>1. CASE ~has_event(page)
    <3>1. next = here
      BY <1>1, <2>1 DEF visit
    <3>2. DOMAIN here = Parts /\ here.page = run.page + 1 /\ here.end = "commands"
          /\ here.response = run.response /\ here.members = run.members
          /\ here.commands = run.commands
      BY <1>1 DEF Shaped, Parts
    <3>3. type_name_from_url(page.event.url) \notin handlers \cup appliers
      BY <2>1, NameAssumption DEF has_event
    <3>4. ec = <<>> /\ ef = <<>>
      BY <3>3 DEF EffectOf
    <3>5. StateOf(longer) = StateOf(to.book)
      BY <1>3, <3>3 DEF apply
    <3>6. run.members.facts \o <<>> = run.members.facts /\ run.commands \o <<>> = run.commands
      BY <1>1, ConcatFacts, EmptyIsSequence DEF Shaped
    <3>7. run.members.state = StateOf(to.book)
      BY DEF Tells
    <3> HIDE DEF next, here, longer, ec, ef
    <3> QED  BY <1>1, <3>1, <3>2, <3>4, <3>5, <3>6, <3>7 DEF Shaped
  <2>2. CASE has_event(page)
    <3>1. next = react(here, page.event, NoThrow)
      BY <1>1, <2>2 DEF visit, IsRejection
    <3>2. Reacted(run, page.event, next)
      BY <1>1, <3>1, ReactDoes
    <3>3. apply(run.members.state, page.event) = StateOf(longer)
      BY <1>3 DEF Tells
    <3> HIDE DEF next
    <3> QED  BY <1>1, <3>2, <3>3 DEF Reacted
  <2> QED  BY <2>1, <2>2
<1> HIDE DEF next, here, later, longer, effect
<1>6. /\ to.commands = from.commands \o run.commands
      /\ to.facts = from.facts \o run.members.facts
      /\ to.forwarded = from.forwarded
  BY DEF Tells
<1>7. /\ (from.commands \o run.commands) \o ec = from.commands \o (run.commands \o ec)
      /\ (from.facts \o run.members.facts) \o ef = from.facts \o (run.members.facts \o ef)
      /\ IsSequence(run.commands \o ec) /\ IsSequence(run.members.facts \o ef)
  <2> DEFINE fc == from.commands
             ff == from.facts
             rc == run.commands
             rf == run.members.facts
  <2>1. IsSequence(fc) /\ IsSequence(ff) /\ IsSequence(rc) /\ IsSequence(rf)
        /\ IsSequence(ec) /\ IsSequence(ef)
    BY <1>1, <1>4 DEF Sound, Shaped
  <2> HIDE DEF fc, ff, rc, rf, ec, ef
  <2>2. (fc \o rc) \o ec = fc \o (rc \o ec)
    BY <2>1, ConcatTwice
  <2>3. (ff \o rf) \o ef = ff \o (rf \o ef)
    BY <2>1, ConcatTwice
  <2>4. IsSequence(rc \o ec) /\ IsSequence(rf \o ef)
    BY <2>1, ConcatFacts
  <2> QED  BY <2>2, <2>3, <2>4 DEF fc, ff, rc, rf
<1> HIDE DEF ec, ef
<1>8. Shaped(next)
  BY <1>1, <1>5, <1>7 DEF Shaped
<1>9. Tells(next, from, later)
  BY <1>1, <1>2, <1>5, <1>6, <1>7, <1>8 DEF Tells
<1> QED  BY <1>9 DEF next, later

LEMMA KeyIsRejected ==
    ASSUME NEW event, event.value.pages # <<>>
    PROVE  rejection_key(event.value) = RejectedKey(event)
BY Zenon DEF rejection_key, RejectedKey

\* The walk `run' ended as `next', at a notification with which what the pages
\* come to went from `to' to `later'.
Stops(run, next, from, to, later) ==
    /\ next.end = "rejection" /\ Sound(later)
    /\ later.book = to.book \o next.response.pages
    /\ later.commands = from.commands \o run.commands
    /\ later.facts = from.facts \o next.members.facts
    /\ later.forwarded = from.forwarded \o next.response.notification

LEMMA WalkStop ==
    ASSUME AnswersAreSequences, NEW run, NEW from, NEW to, Tells(run, from, to),
           NEW page, IsRejection(page), page.event.value.pages # <<>>
    PROVE  Stops(run, visit(run, page, NoThrow), from, to, Turn(to, page))
<1> DEFINE next == visit(run, page, NoThrow)
           here == [run EXCEPT !.page = @ + 1]
           later == Turn(to, page)
           answer == AnswerOf(StateOf(to.book), RejectedKey(page.event))
           fs == answer.facts
<1>1. /\ Shaped(run) /\ run.end = "commands" /\ run.members.state = StateOf(to.book)
      /\ Sound(from) /\ Sound(to)
      /\ to.commands = from.commands \o run.commands
      /\ to.facts = from.facts \o run.members.facts
      /\ to.forwarded = from.forwarded
  BY DEF Tells
<1>2. /\ Sound(later) /\ later.book = to.book \o answer.pages
      /\ later.commands = to.commands
      /\ later.facts = to.facts \o fs
      /\ later.forwarded = to.forwarded \o answer.notification
  BY <1>1, RejectionTurn
<1>3. DOMAIN here = Parts /\ here.members = run.members
  BY <1>1 DEF Shaped, Parts
<1>4. dispatch_rejection(here.members.state, page.event.value) = answer
  BY <1>1, <1>3, KeyIsRejected DEF dispatch_rejection, AnswerOf
<1>5. NoThrow # Throws("rejection", here.page)
  BY DEF NoThrow, Throws
<1>6. has_event(page)
  <2>1. NoUrl.prefix # GoogleApis
    BY DEF NoUrl, GoogleApis
  <2> QED  BY <2>1 DEF IsRejection, has_event, type_url_matches
<1>7. next = notified(here, page.event.value, NoThrow)
  BY <1>1, <1>6 DEF visit, IsRejection
<1> HIDE DEF here, answer
<1>8. next = [here EXCEPT !.members.state = answer.state,
                          !.members.facts = @ \o answer.facts,
                          !.response = [pages |-> answer.pages,
                                        notification |-> answer.notification],
                          !.end = "rejection"]
  BY <1>4, <1>5, <1>7 DEF notified
<1> HIDE DEF next
<1>9. /\ next.end = "rejection"
      /\ next.response.pages = answer.pages
      /\ next.response.notification = answer.notification
      /\ next.members.facts = run.members.facts \o fs
  BY <1>1, <1>3, <1>8 DEF Shaped, Parts, Fields
<1>10. IsSequence(fs)
  BY EffectIsSequences DEF answer
<1>11. (from.facts \o run.members.facts) \o fs = from.facts \o (run.members.facts \o fs)
  <2> DEFINE ff == from.facts
             rf == run.members.facts
  <2>1. IsSequence(ff) /\ IsSequence(rf)
    BY <1>1 DEF Sound, Shaped
  <2> HIDE DEF ff, rf, fs
  <2>2. (ff \o rf) \o fs = ff \o (rf \o fs)
    BY <1>10, <2>1, ConcatTwice
  <2> QED  BY <2>2 DEF ff, rf
<1> HIDE DEF later, fs
<1>12. Stops(run, next, from, to, later)
  BY <1>1, <1>2, <1>9, <1>11 DEF Stops
<1> QED  BY <1>12 DEF next, later

\* Behind it nothing is visited.
LEMMA WalkIsOver ==
    ASSUME NEW run, run.end # "commands", NEW page
    PROVE  visit(run, page, NoThrow) = run
BY DEF visit

LEMMA StopFacts ==
    ASSUME NEW pages, IsSequence(pages)
    PROVE  /\ Stop(pages) \in 1..(Len(pages) + 1)
           /\ \A i \in 1..(Stop(pages) - 1) : ~IsRejection(pages[i])
           /\ Stop(pages) \in 1..Len(pages) => IsRejection(pages[Stop(pages)])
<1> DEFINE n == Len(pages)
           S == {i \in DOMAIN pages : IsRejection(pages[i])} \cup {n + 1}
<1>1. n \in Nat /\ DOMAIN pages = 1..n
  BY Places
<1>2. S \in SUBSET Nat /\ S # {} /\ S \subseteq 1..(n + 1)
  BY <1>1
<1>3. \A i \in 1..n : IsRejection(pages[i]) <=> i \in S
  BY <1>1
<1> HIDE DEF S
<1>4. PICK x \in S : \A y \in S : x <= y
  BY <1>2, Minimum
<1>5. Min(S) = x
  BY <1>2, <1>4, TheMinimum DEF Min
<1>6. Stop(pages) = x
  BY <1>5 DEF Stop, S
<1>7. \A i \in 1..(x - 1) : i \in 1..n /\ ~(x <= i)
  BY <1>1, <1>2, <1>4
<1> QED  BY <1>1, <1>2, <1>3, <1>4, <1>6, <1>7

\* The pages before the first notification.
LEMMA WalkBefore ==
    ASSUME AnswersAreSequences, NEW m, NEW from, Sound(from),
           NEW pages, IsSequence(pages), NEW k \in 0..Len(pages),
           \A i \in 1..k : ~IsRejection(pages[i])
    PROVE  LET front == SubSeq(pages, 1, k)
           IN  /\ Tells(Walk!Fold(Start(m, Book(0, from.book)), front, NoThrow),
                        from, After(from, front))
               /\ After(from, front).book = from.book \o front
<1> DEFINE start == Start(m, Book(0, from.book))
           front(j) == SubSeq(pages, 1, j)
           run(j) == Walk!Fold(start, front(j), NoThrow)
           to(j) == After(from, front(j))
           Right(j) == Tells(run(j), from, to(j)) /\ to(j).book = from.book \o front(j)
           T == {j \in 0..k : Right(j)}
<1>1. Len(pages) \in Nat /\ k \in Nat
  BY Places
<1>2. 0 \in T
  <2>1. front(0) = <<>> /\ from.book \o <<>> = from.book
    BY WholeFront, EmptyIsSequence, ConcatFacts DEF Sound
  <2>2. Walk!Fold(start, <<>>, NoThrow) = start /\ After(from, <<>>) = from
    BY Walk!FoldNothing, AfterPage, EmptyIsSequence
  <2>3. Tells(start, from, from)
    BY StartTells
  <2> HIDE DEF start, front
  <2>4. Right(0)
    BY <2>1, <2>2, <2>3
  <2> HIDE DEF Right
  <2> QED  BY <1>1, <2>4
<1>3. ASSUME NEW j \in 1..k, j - 1 \in T
      PROVE  j \in T
  <2>1. j \in 1..Len(pages) /\ j - 1 \in 0..Len(pages) /\ j \in 0..k
    BY <1>1
  <2>2. front(j) = Append(front(j - 1), pages[j]) /\ IsSequence(front(j - 1))
    BY <2>1, FrontGrows, FrontFacts
  <2>3. Tells(run(j - 1), from, to(j - 1)) /\ to(j - 1).book = from.book \o front(j - 1)
    BY <1>3
  <2> HIDE DEF front, start
  <2>4. run(j) = visit(run(j - 1), pages[j], NoThrow)
    BY <2>2, WalkPage
  <2>5. to(j) = Turn(to(j - 1), pages[j])
    BY <2>2, AfterPage
  <2>6. ~IsRejection(pages[j])
    OBVIOUS
  <2> HIDE DEF run, to
  <2>7. Tells(run(j), from, to(j))
    BY <2>3, <2>4, <2>5, <2>6, WalkTurn
  <2>8. to(j).book = Append(to(j - 1).book, pages[j])
    <3> DEFINE t == to(j - 1)
               page == pages[j]
    <3>1. Sound(t)
      BY <2>3 DEF Tells
    <3>2. ~IsRejection(page)
      BY <2>6
    <3>3. to(j) = Turn(t, page)
      BY <2>5
    <3> HIDE DEF t, page
    <3>4. Turn(t, page).book = Append(t.book, page)
      BY <3>1, <3>2, EventTurn
    <3> QED  BY <3>3, <3>4 DEF t, page
  <2>9. from.book \o front(j) = Append(from.book \o front(j - 1), pages[j])
    <3> DEFINE b == from.book
               f == front(j - 1)
               page == pages[j]
    <3>1. IsSequence(b) /\ IsSequence(f)
      BY <2>2 DEF Sound
    <3>2. front(j) = Append(f, page)
      BY <2>2
    <3> HIDE DEF b, f, page
    <3>3. b \o Append(f, page) = Append(b \o f, page)
      BY <3>1, ConcatAppend
    <3> QED  BY <3>2, <3>3 DEF b, f, page
  <2>10. Right(j)
    BY <2>3, <2>7, <2>8, <2>9
  <2> HIDE DEF Right
  <2> QED  BY <2>1, <2>10
<1> HIDE DEF T
<1>4. 0..k \subseteq T
  BY <1>1, <1>2, <1>3, InductionUpTo
<1>5. k \in T
  BY <1>1, <1>4
<1> QED  BY <1>5 DEF T

\* The pages up to the first notification, and what is not visited behind it.
LEMMA WalkBeyond ==
    ASSUME NEW start, NEW pages, IsSequence(pages), NEW k \in 1..Len(pages),
           Walk!Fold(start, SubSeq(pages, 1, k), NoThrow).end # "commands"
    PROVE  Walk!Fold(start, pages, NoThrow) = Walk!Fold(start, SubSeq(pages, 1, k), NoThrow)
<1> DEFINE n == Len(pages)
           front(j) == SubSeq(pages, 1, j)
           run(j) == Walk!Fold(start, front(j), NoThrow)
           T == {j \in 0..n : k <= j => run(j) = run(k)}
<1>1. n \in Nat /\ k \in 1..n
  BY Places
<1>2. 0 \in T
  BY <1>1
<1>3. ASSUME NEW j \in 1..n, j - 1 \in T
      PROVE  j \in T
  <2>1. j \in 0..n /\ j - 1 \in 0..n
    BY <1>1
  <2>2. front(j) = Append(front(j - 1), pages[j]) /\ IsSequence(front(j - 1))
    BY <2>1, FrontGrows, FrontFacts
  <2>3. k <= j - 1 => run(j - 1) = run(k)
    BY <1>3
  <2>4. run(k).end # "commands"
    OBVIOUS
  <2> HIDE DEF front
  <2>5. run(j) = visit(run(j - 1), pages[j], NoThrow)
    BY <2>2, WalkPage
  <2> HIDE DEF run
  <2>6. CASE k <= j - 1
    BY <2>1, <2>3, <2>4, <2>5, <2>6, WalkIsOver
  <2>7. CASE ~(k <= j - 1)
    <3>1. k <= j => k = j
      BY <1>1, <2>7
    <3> QED  BY <2>1, <3>1
  <2> QED  BY <2>6, <2>7
<1> HIDE DEF T
<1>4. 0..n \subseteq T
  BY <1>1, <1>2, <1>3, InductionUpTo
<1>5. n \in T
  BY <1>1, <1>4
<1>6. k <= n => run(n) = run(k)
  BY <1>5 DEF T
<1>7. SubSeq(pages, 1, Len(pages)) = pages
  BY WholeFront
<1>8. run(n) = Walk!Fold(start, pages, NoThrow)
  BY <1>7
<1> HIDE DEF n
<1>9. run(n) = run(k)
  BY <1>1, <1>6
<1> HIDE DEF run
<1>10. Walk!Fold(start, pages, NoThrow) = run(k)
  BY <1>8, <1>9
<1> QED  BY <1>10 DEF run, front

-----------------------------------------------------------------------------
(***************************************************************************)
(* A whole book.                                                           *)
(***************************************************************************)

\* Rejections carry the command that was rejected.
WellFormed(pages) ==
    \A i \in 1..Len(pages) : IsRejection(pages[i]) => pages[i].event.value.pages # <<>>

\* The result of the walk over `pages' is what they come to: `from' before them,
\* `to' with those taken.  Commands may be left out if the book is mixed.
Gathers(result, from, to, pages) ==
    /\ Sound(to)
    /\ to.book = (from.book \o Before(pages)) \o result.response.pages
    /\ to.facts = from.facts \o result.facts
    /\ to.forwarded = from.forwarded \o result.response.notification
    /\ IsSequence(result.commands)
    /\ \E more : /\ IsSequence(more)
                 /\ to.commands = (from.commands \o result.commands) \o more
                 /\ ~IsMixed(pages) => more = <<>>

LEMMA ReachedFacts ==
    ASSUME NEW pages, IsSequence(pages)
    PROVE  /\ IsSequence(Before(pages)) /\ IsSequence(Reached(pages))
           /\ Stop(pages) \notin 1..Len(pages)
                => Before(pages) = pages /\ Reached(pages) = pages
           /\ Stop(pages) \in 1..Len(pages)
                => /\ Reached(pages) = Append(Before(pages), pages[Stop(pages)])
                   /\ Reached(pages) = SubSeq(pages, 1, Stop(pages))
<1> DEFINE n == Len(pages)
           k == Stop(pages)
           front == SubSeq(pages, 1, k - 1)
<1>1. n \in Nat /\ DOMAIN pages = 1..n /\ k \in 1..(n + 1)
  BY Places, StopFacts
<1>2. k - 1 \in 0..n
  BY <1>1
<1>3. IsSequence(front)
  BY <1>2, FrontFacts
<1>4. CASE k \notin 1..n
  <2>1. k - 1 = n
    BY <1>1, <1>4
  <2>2. front = pages
    BY <2>1, WholeFront
  <2>3. Before(pages) = pages /\ Ending(pages) = <<>>
    BY <1>1, <1>4, <2>2 DEF Before, Ending
  <2>4. Reached(pages) = pages
    BY <2>3, ConcatFacts, EmptyIsSequence DEF Reached
  <2> QED  BY <1>4, <2>3, <2>4
<1>5. CASE k \in 1..n
  <2> DEFINE page == pages[k]
  <2>1. Before(pages) = front /\ Ending(pages) = <<page>>
    BY <1>1, <1>5 DEF Before, Ending
  <2>2. SubSeq(pages, 1, k) = Append(front, page)
    BY <1>5, FrontGrows
  <2> HIDE DEF front, page
  <2>3. IsSequence(Append(front, page)) /\ Append(front, page) = front \o <<page>>
    BY <1>3, AppendFacts
  <2>4. Reached(pages) = Append(front, page)
    BY <2>1, <2>3 DEF Reached
  <2> QED  BY <1>3, <1>5, <2>1, <2>2, <2>3, <2>4 DEF page
<1> QED  BY <1>4, <1>5

LEMMA WalkAll ==
    ASSUME AnswersAreSequences, NEW m, NEW from, Sound(from),
           NEW pages, IsSequence(pages), WellFormed(pages)
    PROVE  Gathers(DispatchResult(Walk!Fold(Start(m, Book(0, from.book)), pages, NoThrow)),
                   from, After(from, Reached(pages)), pages)
<1> DEFINE n == Len(pages)
           k == Stop(pages)
           start == Start(m, Book(0, from.book))
           run == Walk!Fold(start, pages, NoThrow)
           result == DispatchResult(run)
           to == After(from, Reached(pages))
           front == Before(pages)
           half == Walk!Fold(start, front, NoThrow)
           mid == After(from, front)
<1>1. n \in Nat /\ k \in 1..(n + 1) /\ \A i \in 1..(k - 1) : ~IsRejection(pages[i])
  BY Places, StopFacts
<1>2. k - 1 \in 0..n /\ front = SubSeq(pages, 1, k - 1)
  BY <1>1 DEF Before
<1>3. Tells(half, from, mid) /\ mid.book = from.book \o front
  BY <1>1, <1>2, WalkBefore
<1>4. IsSequence(half.commands) /\ IsSequence(mid.book) /\ Sound(mid) /\ half.end = "commands"
      /\ half.response = NoResponse
      /\ mid.commands = from.commands \o half.commands
      /\ mid.facts = from.facts \o half.members.facts
      /\ mid.forwarded = from.forwarded
  BY <1>3 DEF Tells, Shaped, Sound
<1>5. IsSequence(from.commands) /\ IsSequence(from.forwarded)
  BY DEF Sound
<1>6. CASE k \notin 1..n
  <2>1. front = pages /\ Reached(pages) = pages
    BY <1>6, ReachedFacts
  <2>2. run = half /\ to = mid
    BY <2>1
  <2> HIDE DEF run, half, to, mid, front
  <2>3. /\ result.commands = half.commands /\ result.facts = half.members.facts
        /\ result.response.pages = <<>> /\ result.response.notification = <<>>
    BY <1>4, <2>2 DEF DispatchResult, NoResponse
  <2> HIDE DEF result
  <2>4. /\ mid.book \o <<>> = mid.book
        /\ from.forwarded \o <<>> = from.forwarded
        /\ mid.commands \o <<>> = mid.commands
    BY <1>4, <1>5, ConcatFacts, EmptyIsSequence DEF Sound
  <2>5. /\ Sound(to)
        /\ to.book = (from.book \o front) \o result.response.pages
        /\ to.facts = from.facts \o result.facts
        /\ to.forwarded = from.forwarded \o result.response.notification
        /\ IsSequence(result.commands)
    BY <1>3, <1>4, <2>2, <2>3, <2>4
  <2>6. to.commands = (from.commands \o result.commands) \o <<>>
    BY <1>4, <2>2, <2>3, <2>4
  <2>7. Gathers(result, from, to, pages)
    BY <2>5, <2>6, EmptyIsSequence DEF Gathers, front
  <2> QED  BY <2>7 DEF result, run, to
<1>7. CASE k \in 1..n
  <2> DEFINE page == pages[k]
             upto == Walk!Fold(start, SubSeq(pages, 1, k), NoThrow)
  <2>1. /\ Reached(pages) = Append(front, page) /\ SubSeq(pages, 1, k) = Append(front, page)
        /\ IsSequence(front)
    BY <1>7, ReachedFacts
  <2>2. IsRejection(page) /\ page.event.value.pages # <<>>
    BY <1>7, StopFacts DEF WellFormed
  <2> HIDE DEF page, front, start
  <2>3. upto = visit(half, page, NoThrow)
    BY <2>1, WalkPage
  <2>4. to = Turn(mid, page)
    BY <2>1, AfterPage
  <2> HIDE DEF half, mid
  <2>5. /\ upto.end = "rejection" /\ Sound(to)
        /\ to.book = mid.book \o upto.response.pages
        /\ to.commands = from.commands \o half.commands
        /\ to.facts = from.facts \o upto.members.facts
        /\ to.forwarded = from.forwarded \o upto.response.notification
    <3> HIDE DEF upto, to
    <3>1. Stops(half, visit(half, page, NoThrow), from, mid, Turn(mid, page))
      BY <1>3, <2>2, WalkStop
    <3> QED  BY <2>3, <2>4, <3>1 DEF Stops
  <2>6. run = upto
    BY <1>7, <2>5, WalkBeyond
  <2> HIDE DEF run, upto, to
  <2>7. /\ result.commands = <<>> /\ result.facts = upto.members.facts
        /\ result.response = upto.response
    BY <2>5, <2>6 DEF DispatchResult
  <2> HIDE DEF result
  <2>8. from.commands \o <<>> = from.commands
    BY <1>5, ConcatFacts, EmptyIsSequence
  <2>9. to.commands = (from.commands \o result.commands) \o half.commands
    BY <2>5, <2>7, <2>8
  <2>10. ~IsMixed(pages) => half.commands = <<>>
    <3> SUFFICES ASSUME ~IsMixed(pages) PROVE half.commands = <<>>
      OBVIOUS
    <3>1. k \in DOMAIN pages /\ IsRejection(pages[k])
      BY <1>7, <2>2, Places DEF page
    <3>2. ~(n > 1)
      BY <3>1 DEF IsMixed
    <3>3. k - 1 = 0
      BY <1>1, <1>7, <3>2
    <3>4. front = <<>>
      BY <1>2, <3>3, WholeFront
    <3>5. half = start
      BY <3>4, Walk!FoldNothing DEF half
    <3> QED  BY <3>5 DEF start, Start, Starting
  <2>11. /\ to.book = (from.book \o front) \o result.response.pages
         /\ to.facts = from.facts \o result.facts
         /\ to.forwarded = from.forwarded \o result.response.notification
         /\ IsSequence(result.commands)
    BY <1>3, <2>5, <2>7, EmptyIsSequence
  <2>12. Gathers(result, from, to, pages)
    BY <1>4, <2>5, <2>9, <2>10, <2>11 DEF Gathers, front
  <2> QED  BY <2>12 DEF result, run, to, start
<1> QED  BY <1>6, <1>7

-----------------------------------------------------------------------------
(***************************************************************************)
(* Within.                                                                 *)
(***************************************************************************)
LEMMA WithinLonger ==
    ASSUME NEW x, NEW y, IsSequence(y), NEW z, IsSequence(z), Within(x, y)
    PROVE  Within(x, y \o z) /\ Within(x \o z, y \o z)
<1>1. PICK kept \in SUBSET DOMAIN y : x = Picked(y, kept)
  BY DEF Within
<1> DEFINE n == Len(y)
           m == Len(z)
           both == kept \cup {n + i : i \in 1..m}
<1>2. n \in Nat /\ m \in Nat /\ DOMAIN y = 1..n
  BY Places
<1>3. DOMAIN (y \o z) = 1..(n + m)
  BY ConcatFacts, Places
<1>4. IsSequence(Picked(y, kept)) /\ Picked(y, kept) \o <<>> = Picked(y, kept)
  BY PickedIsSequence, ConcatFacts, EmptyIsSequence
<1>5. Picked(y \o z, kept) = x
  <2>1. Picked(y \o z, kept) = Picked(y, kept) \o Picked(z, Beyond(y, z, kept))
    BY PickedConcat
  <2>2. \A i \in 1..m : i \notin Beyond(y, z, kept)
    BY <1>2 DEF Beyond
  <2>3. Picked(z, Beyond(y, z, kept)) = <<>>
    BY <2>2, PickedNone
  <2> QED  BY <1>1, <1>4, <2>1, <2>3
<1>6. Picked(y \o z, both) = x \o z
  <2>1. Picked(y \o z, both) = Picked(y, both) \o Picked(z, Beyond(y, z, both))
    BY PickedConcat
  <2>2. \A i \in 1..m : i \in Beyond(y, z, both)
    BY DEF Beyond
  <2>3. Picked(z, Beyond(y, z, both)) = z
    BY <2>2, PickedAll
  <2>4. \A i \in 1..n : i \in both <=> i \in kept
    BY <1>2
  <2>5. Picked(y, both) = Picked(y, kept)
    BY <2>4, PickedAgree
  <2> QED  BY <1>1, <2>1, <2>3, <2>5
<1>7. kept \in SUBSET (1..(n + m)) /\ both \in SUBSET (1..(n + m))
  BY <1>2
<1> HIDE DEF both
<1> QED  BY <1>3, <1>5, <1>6, <1>7 DEF Within

-----------------------------------------------------------------------------
(***************************************************************************)
(* One stream: the pages a still to be handled and those t taken from it,  *)
(* its book b, its commands `out', its facts and what was handed on.       *)
(***************************************************************************)
Stream(s, a, t, b, out, notes, on, mix) ==
    LET alone == After(Blank, t)
    IN  /\ IsSequence(a) /\ WellFormed(a) /\ IsSequence(t)
        /\ Sound(alone)
        /\ b = alone.book /\ notes = alone.facts /\ on = alone.forwarded
        /\ Within(out, alone.commands)
        /\ ~mix => out = alone.commands

\* A page more arrives, a rejection with its command or an event.
LEMMA PageArrives ==
    ASSUME NEW s, NEW a, NEW t, NEW b, NEW out, NEW notes, NEW on, NEW mix,
           Stream(s, a, t, b, out, notes, on, mix),
           NEW page, IsRejection(page) => page.event.value.pages # <<>>
    PROVE  Stream(s, Append(a, page), t, b, out, notes, on, mix)
<1> DEFINE n == Len(a)
           longer == Append(a, page)
<1>1. IsSequence(a) /\ n \in Nat /\ WellFormed(a)
  BY Places DEF Stream
<1>2. /\ IsSequence(longer) /\ Len(longer) = n + 1
      /\ (\A i \in 1..n : longer[i] = a[i]) /\ longer[n + 1] = page
  BY <1>1, AppendFacts
<1> HIDE DEF longer
<1>3. WellFormed(longer)
  <2> SUFFICES ASSUME NEW i \in 1..(n + 1), IsRejection(longer[i])
               PROVE  longer[i].event.value.pages # <<>>
    BY <1>2 DEF WellFormed
  <2>1. CASE i \in 1..n
    BY <1>1, <1>2, <2>1 DEF WellFormed
  <2>2. CASE i = n + 1
    BY <1>2, <2>2
  <2> QED  BY <1>1, <2>1, <2>2
<1> QED  BY <1>2, <1>3 DEF Stream, longer

\* The pages cut off a stream's head, and those left.
LEMMA CutFacts ==
    ASSUME NEW a, IsSequence(a), WellFormed(a), NEW n \in 1..Len(a)
    PROVE  LET pages == SubSeq(a, 1, n)
               rest == SubSeq(a, n + 1, Len(a))
           IN  /\ IsSequence(pages) /\ Len(pages) = n /\ WellFormed(pages)
               /\ IsSequence(rest) /\ WellFormed(rest)
<1> DEFINE l == Len(a)
           pages == SubSeq(a, 1, n)
           rest == SubSeq(a, n + 1, l)
<1>1. l \in Nat /\ n \in 0..l
  BY Places
<1>2. IsSequence(pages) /\ Len(pages) = n /\ \A i \in 1..n : pages[i] = a[i]
  BY <1>1, FrontFacts
<1>3. IsSequence(rest) /\ Len(rest) = l - n /\ \A i \in 1..(l - n) : rest[i] = a[n + i]
  BY <1>1, RestFacts
<1> HIDE DEF pages, rest
<1>4. WellFormed(pages)
  BY <1>1, <1>2 DEF WellFormed
<1>5. WellFormed(rest)
  <2>1. \A i \in 1..(l - n) : n + i \in 1..l
    BY <1>1
  <2> QED  BY <1>3, <2>1 DEF WellFormed
<1> QED  BY <1>2, <1>3, <1>4, <1>5 DEF pages, rest

\* What the commands of a book add to those sent before.
LEMMA GatheredCommands ==
    ASSUME NEW out, NEW old, IsSequence(old), NEW cmds, IsSequence(cmds),
           NEW more, IsSequence(more), Within(out, old)
    PROVE  /\ Within(out \o cmds, (old \o cmds) \o more)
           /\ more = <<>> => (old \o cmds) \o more = old \o cmds
<1> DEFINE all == old \o cmds
           sent == out \o cmds
<1>1. Within(sent, all)
  BY WithinLonger
<1>2. IsSequence(all)
  BY ConcatFacts
<1> HIDE DEF all, sent
<1>3. Within(sent, all \o more)
  BY <1>1, <1>2, WithinLonger
<1>4. all \o <<>> = all
  BY <1>2, ConcatFacts, EmptyIsSequence
<1> QED  BY <1>3, <1>4 DEF all, sent

\* A book of a workflow was answered.
LEMMA WorkflowAnswered ==
    ASSUME AnswersAreSequences, NEW s, s # NoCorrelation, NEW m,
           NEW a, NEW t, NEW b, NEW out, NEW notes, NEW on, NEW mix \in BOOLEAN,
           Stream(s, a, t, b, out, notes, on, mix), NEW n \in 1..Len(a)
    PROVE  LET pages == SubSeq(a, 1, n)
               result == DispatchResult(dispatch(m, s, Book(0, pages), Book(0, b), NoThrow))
           IN  Stream(s, SubSeq(a, Len(pages) + 1, Len(a)), t \o Reached(pages),
                      (b \o Before(pages)) \o result.response.pages,
                      out \o result.commands, notes \o result.facts,
                      on \o result.response.notification, mix \/ IsMixed(pages))
<1> DEFINE pages == SubSeq(a, 1, n)
           rest == SubSeq(a, n + 1, Len(a))
           from == After(Blank, t)
           to == After(from, Reached(pages))
           result == DispatchResult(dispatch(m, s, Book(0, pages), Book(0, b), NoThrow))
           cmds == result.commands
           old == from.commands
           taker == t \o Reached(pages)
           mixing == mix \/ IsMixed(pages)
<1>1. /\ IsSequence(a) /\ WellFormed(a) /\ IsSequence(t) /\ Sound(from)
      /\ b = from.book /\ notes = from.facts /\ on = from.forwarded
      /\ Within(out, old) /\ (~mix => out = old)
  BY DEF Stream
<1>2. /\ IsSequence(pages) /\ Len(pages) = n /\ WellFormed(pages)
      /\ IsSequence(rest) /\ WellFormed(rest)
  BY <1>1, CutFacts
<1> HIDE DEF pages, rest, from, old
<1>3. dispatch(m, s, Book(0, pages), Book(0, b), NoThrow)
        = Walk!Fold(Start(m, Book(0, b)), pages, NoThrow)
  <2>1. Book(0, pages).pages = pages
    BY DEF Book
  <2> QED  BY <2>1, DispatchIsWalk
<1>4. Gathers(result, from, to, pages)
  BY <1>1, <1>2, <1>3, WalkAll
<1>5. IsSequence(Reached(pages))
  BY <1>2, ReachedFacts
<1>6. IsSequence(taker) /\ After(Blank, taker) = to
  BY <1>1, <1>5, AfterBoth, ConcatFacts DEF from
<1> HIDE DEF result, to, taker, cmds
<1>7. /\ Sound(to)
      /\ to.book = (b \o Before(pages)) \o result.response.pages
      /\ to.facts = notes \o result.facts
      /\ to.forwarded = on \o result.response.notification
      /\ IsSequence(cmds)
  BY <1>1, <1>4 DEF Gathers, cmds
<1>8. PICK more : /\ IsSequence(more)
                  /\ to.commands = (old \o cmds) \o more
                  /\ ~IsMixed(pages) => more = <<>>
  BY <1>4 DEF Gathers, cmds, old
<1>9. IsSequence(old)
  BY <1>1 DEF Sound, old
<1>10. /\ Within(out \o cmds, to.commands)
       /\ more = <<>> => to.commands = old \o cmds
  BY <1>1, <1>7, <1>8, <1>9, GatheredCommands
<1>11. ~mixing => out \o cmds = to.commands
  BY <1>1, <1>8, <1>10
<1> HIDE DEF mixing
<1>12. Stream(s, rest, taker, (b \o Before(pages)) \o result.response.pages,
              out \o cmds, notes \o result.facts,
              on \o result.response.notification, mixing)
  BY <1>2, <1>6, <1>7, <1>10, <1>11 DEF Stream
<1>13. rest = SubSeq(a, Len(pages) + 1, Len(a))
  BY <1>2 DEF rest
<1> QED  BY <1>12, <1>13 DEF pages, taker, cmds, result, mixing

\* A book outside any workflow was answered: nothing was taken, nothing came.
LEMMA StrayAnswered ==
    ASSUME NEW s, NEW a, NEW t, NEW b, NEW out, NEW notes, NEW on, NEW mix \in BOOLEAN,
           Stream(s, a, t, b, out, notes, on, mix), NEW n \in 1..Len(a), NEW more \in BOOLEAN
    PROVE  /\ Stream(s, SubSeq(a, n + 1, Len(a)), t, b, out, notes, on, mix \/ more)
           /\ IsSequence(out) /\ IsSequence(notes) /\ IsSequence(on)
<1>1. IsSequence(SubSeq(a, n + 1, Len(a))) /\ WellFormed(SubSeq(a, n + 1, Len(a)))
  BY CutFacts DEF Stream
<1>2. ~(mix \/ more) => ~mix
  OBVIOUS
<1>3. IsSequence(out)
  <2> DEFINE whole == After(Blank, t).commands
  <2>1. IsSequence(whole) /\ Within(out, whole)
    BY DEF Stream, Sound
  <2> HIDE DEF whole
  <2> QED  BY <2>1, PickedIsSequence DEF Within
<1> QED  BY <1>1, <1>2, <1>3 DEF Stream, Sound

-----------------------------------------------------------------------------
PerStream(f) == DOMAIN f = Streams

FlowInv ==
    /\ mixed \in BOOLEAN
    /\ PerStream(arriving) /\ PerStream(taken) /\ PerStream(book)
    /\ PerStream(issued) /\ PerStream(injected) /\ PerStream(forwarded)
    /\ taken[NoCorrelation] = <<>>
    /\ \A s \in Streams : Stream(s, arriving[s], taken[s], book[s], issued[s],
                                 injected[s], forwarded[s], mixed)

LEMMA FlowInit ==
    ASSUME Init
    PROVE  FlowInv
<1>1. /\ PerStream(arriving) /\ PerStream(taken) /\ PerStream(book)
      /\ PerStream(issued) /\ PerStream(injected) /\ PerStream(forwarded)
      /\ mixed = FALSE /\ taken[NoCorrelation] = <<>>
  BY DEF Init, PerStream, Nothing, Streams
<1>2. After(Blank, <<>>) = Blank
  BY AfterPage, EmptyIsSequence
<1>3. /\ Blank.book = <<>> /\ Blank.commands = <<>>
      /\ Blank.facts = <<>> /\ Blank.forwarded = <<>>
  BY DEF Blank
<1>4. Within(<<>>, <<>>)
  BY PickedNothing DEF Within
<1>5. WellFormed(<<>>)
  BY EmptyIsSequence DEF WellFormed
<1>6. ASSUME NEW s \in Streams
      PROVE  Stream(s, <<>>, <<>>, <<>>, <<>>, <<>>, <<>>, FALSE)
  BY <1>2, <1>3, <1>4, <1>5, EmptyIsSequence, BlankIsSound DEF Stream
<1>7. ASSUME NEW s \in Streams
      PROVE  /\ arriving[s] = <<>> /\ taken[s] = <<>> /\ book[s] = <<>>
             /\ issued[s] = <<>> /\ injected[s] = <<>> /\ forwarded[s] = <<>>
  BY DEF Init, Nothing
<1> QED  BY <1>1, <1>6, <1>7 DEF FlowInv

\* Answered, of its stream and of the others.
LEMMA FlowAnswered ==
    ASSUME AnswersAreSequences, FlowInv, NEW s \in Streams, Answered(s)
    PROVE  FlowInv'
<1>1. /\ mixed \in BOOLEAN
      /\ PerStream(arriving) /\ PerStream(taken) /\ PerStream(book)
      /\ PerStream(issued) /\ PerStream(injected) /\ PerStream(forwarded)
      /\ taken[NoCorrelation] = <<>>
      /\ Stream(s, arriving[s], taken[s], book[s], issued[s], injected[s], forwarded[s], mixed)
  BY DEF FlowInv
<1>2. PICK pages \in TriggerBooks(s) :
        LET result == DispatchResult(Dispatched(s, pages, NoThrow))
            heard  == s \in Workflows
        IN  /\ arriving' = [arriving EXCEPT ![s] = SubSeq(@, Len(pages) + 1, Len(@))]
            /\ taken' = IF heard THEN [taken EXCEPT ![s] = @ \o Reached(pages)] ELSE taken
            /\ book' = IF heard
                       THEN [book EXCEPT ![s] = @ \o Before(pages) \o result.response.pages]
                       ELSE book
            /\ issued' = [issued EXCEPT ![s] = @ \o result.commands]
            /\ injected' = [injected EXCEPT ![s] = @ \o result.facts]
            /\ forwarded' = [forwarded EXCEPT ![s] = @ \o result.response.notification]
            /\ mixed' = (mixed \/ IsMixed(pages))
  BY DEF Answered
<1> DEFINE result == DispatchResult(Dispatched(s, pages, NoThrow))
<1>3. PICK n \in 1..Len(arriving[s]) : pages = SubSeq(arriving[s], 1, n)
  <2>1. PICK n \in 1..MaxBatch : n <= Len(arriving[s]) /\ pages = SubSeq(arriving[s], 1, n)
    BY DEF TriggerBooks
  <2>2. Len(arriving[s]) \in Nat /\ n \in 1..Len(arriving[s])
    BY <1>1, <2>1, FlowAssumption, Places DEF Stream
  <2> QED  BY <2>1, <2>2
<1>4. mixed' \in BOOLEAN /\ (mixed => mixed')
  BY <1>1, <1>2 DEF IsMixed
<1>5. ASSUME NEW t \in Streams, t # s
      PROVE  /\ arriving'[t] = arriving[t] /\ taken'[t] = taken[t] /\ book'[t] = book[t]
             /\ issued'[t] = issued[t] /\ injected'[t] = injected[t]
             /\ forwarded'[t] = forwarded[t]
  BY <1>1, <1>2, <1>5 DEF PerStream
<1>6. /\ PerStream(arriving') /\ PerStream(taken') /\ PerStream(book')
      /\ PerStream(issued') /\ PerStream(injected') /\ PerStream(forwarded')
  BY <1>1, <1>2 DEF PerStream
<1>7. /\ arriving'[s] = SubSeq(arriving[s], Len(pages) + 1, Len(arriving[s]))
      /\ issued'[s] = issued[s] \o result.commands
      /\ injected'[s] = injected[s] \o result.facts
      /\ forwarded'[s] = forwarded[s] \o result.response.notification
  BY <1>1, <1>2 DEF PerStream
<1>8. /\ Stream(s, arriving'[s], taken'[s], book'[s], issued'[s], injected'[s],
                forwarded'[s], mixed')
      /\ taken'[NoCorrelation] = <<>>
  <2>1. CASE s \in Workflows
    <3>1. s # NoCorrelation
      BY <2>1, FlowAssumption
    <3>2. /\ taken'[s] = taken[s] \o Reached(pages)
          /\ book'[s] = (book[s] \o Before(pages)) \o result.response.pages
      BY <1>1, <1>2, <2>1 DEF PerStream
    <3>3. result = DispatchResult(dispatch(members, s, Book(0, pages), Book(0, book[s]), NoThrow))
      BY DEF Dispatched
    <3> HIDE DEF result
    <3>4. Stream(s, SubSeq(arriving[s], Len(pages) + 1, Len(arriving[s])),
                 taken[s] \o Reached(pages),
                 (book[s] \o Before(pages)) \o result.response.pages,
                 issued[s] \o result.commands, injected[s] \o result.facts,
                 forwarded[s] \o result.response.notification, mixed \/ IsMixed(pages))
      BY <1>1, <1>3, <3>1, <3>3, WorkflowAnswered
    <3>5. mixed' = (mixed \/ IsMixed(pages))
      BY <1>2
    <3>6. taken'[NoCorrelation] = taken[NoCorrelation]
      BY <1>5, <3>1 DEF Streams
    <3> QED  BY <1>1, <1>7, <3>2, <3>4, <3>5, <3>6
  <2>2. CASE s \notin Workflows
    <3>1. s = NoCorrelation
      BY <2>2 DEF Streams
    <3>2. taken' = taken /\ book' = book
      BY <1>2, <2>2
    <3>3. result.commands = <<>> /\ result.facts = <<>>
          /\ result.response.notification = <<>>
      <4>1. result.response = NoResponse /\ result.commands = <<>> /\ result.facts = <<>>
        BY <3>1, StrayResult DEF Dispatched
      <4> QED  BY <4>1 DEF NoResponse
    <3> HIDE DEF result
    <3>4. Len(pages) = n
      BY <1>1, <1>3, CutFacts DEF Stream
    <3>5. IsMixed(pages) \in BOOLEAN
      BY DEF IsMixed
    <3>6. /\ Stream(s, SubSeq(arriving[s], n + 1, Len(arriving[s])), taken[s], book[s],
                    issued[s], injected[s], forwarded[s], mixed \/ IsMixed(pages))
          /\ IsSequence(issued[s]) /\ IsSequence(injected[s]) /\ IsSequence(forwarded[s])
      BY <1>1, <3>5, StrayAnswered
    <3>7. /\ issued[s] \o <<>> = issued[s] /\ injected[s] \o <<>> = injected[s]
          /\ forwarded[s] \o <<>> = forwarded[s]
      BY <3>6, ConcatFacts, EmptyIsSequence
    <3>8. mixed' = (mixed \/ IsMixed(pages))
      BY <1>2
    <3>9. /\ issued'[s] = issued[s] /\ injected'[s] = injected[s]
          /\ forwarded'[s] = forwarded[s]
      BY <1>7, <3>3, <3>7
    <3>10. arriving'[s] = SubSeq(arriving[s], n + 1, Len(arriving[s]))
      BY <1>7, <3>4
    <3> QED  BY <1>1, <3>2, <3>6, <3>8, <3>9, <3>10
  <2> QED  BY <2>1, <2>2
<1>9. ASSUME NEW t \in Streams
      PROVE  Stream(t, arriving'[t], taken'[t], book'[t], issued'[t], injected'[t],
                    forwarded'[t], mixed')
  <2>1. CASE t = s
    BY <1>8, <2>1
  <2>2. CASE t # s
    <3>1. Stream(t, arriving[t], taken[t], book[t], issued[t], injected[t], forwarded[t], mixed)
      BY DEF FlowInv
    <3>2. Stream(t, arriving[t], taken[t], book[t], issued[t], injected[t], forwarded[t], mixed')
      BY <1>4, <3>1 DEF Stream
    <3> QED  BY <1>5, <2>2, <3>2
  <2> QED  BY <2>1, <2>2
<1> QED  BY <1>4, <1>6, <1>8, <1>9 DEF FlowInv, PerStream

\* A page arrives on the stream s; all else of the invariant stays.
LEMMA FlowArrives ==
    ASSUME FlowInv, NEW s \in Streams,
           NEW page, IsRejection(page) => page.event.value.pages # <<>>,
           arriving' = [arriving EXCEPT ![s] = Append(@, page)],
           UNCHANGED <<taken, book, issued, injected, forwarded, mixed>>
    PROVE  FlowInv'
<1>1. PerStream(arriving) /\ Stream(s, arriving[s], taken[s], book[s], issued[s],
                                    injected[s], forwarded[s], mixed)
  BY DEF FlowInv
<1>2. Stream(s, Append(arriving[s], page), taken[s], book[s], issued[s], injected[s],
             forwarded[s], mixed)
  BY <1>1, PageArrives
<1>3. /\ DOMAIN arriving' = Streams
      /\ \A t \in Streams :
            arriving'[t] = IF t = s THEN Append(arriving[s], page) ELSE arriving[t]
  BY <1>1 DEF PerStream
<1>4. ASSUME NEW t \in Streams
      PROVE  Stream(t, arriving'[t], taken[t], book[t], issued[t], injected[t],
                    forwarded[t], mixed)
  BY <1>2, <1>3 DEF FlowInv
<1> QED  BY <1>3, <1>4 DEF FlowInv, PerStream

LEMMA FlowStep ==
    ASSUME AnswersAreSequences, FlowInv, [Next]_vars
    PROVE  FlowInv'
<1>1. ASSUME NEW s \in Streams, Happen(s)
      PROVE  FlowInv'
  <2>1. PICK event \in Happenings : arriving' = [arriving EXCEPT ![s] = Append(@, Page(event))]
    BY <1>1 DEF Happen
  <2>2. UNCHANGED <<taken, book, issued, injected, forwarded, mixed>>
    BY <1>1 DEF Happen
  <2>3. ~IsRejection(Page(event))
    BY FlowAssumption DEF IsRejection, Page
  <2> QED  BY <2>1, <2>2, <2>3, FlowArrives
<1>2. ASSUME NEW s \in Streams, NEW place \in undecided[s], Decide(s, place)
      PROVE  FlowInv'
  <2> DEFINE page == Page(RejectionOf(issued[s][place]))
  <2>1. UNCHANGED <<taken, book, issued, injected, forwarded, mixed>>
    BY <1>2 DEF Decide
  <2>2. CASE UNCHANGED arriving
    BY <2>1, <2>2 DEF FlowInv, PerStream
  <2>3. CASE arriving' = [arriving EXCEPT ![s] = Append(@, page)]
    <3>1. page.event.value.pages = <<Target(issued[s][place]).url>>
      BY DEF Page, RejectionOf, pack_any
    <3>2. page.event.value.pages # <<>>
      BY <3>1
    <3> HIDE DEF page
    <3> QED  BY <2>1, <2>3, <3>2, FlowArrives
  <2> QED  BY <1>2, <2>2, <2>3 DEF Decide
<1>3. ASSUME NEW s \in Streams, Failed(s)
      PROVE  FlowInv'
  BY <1>3 DEF Failed, FlowInv, PerStream
<1>4. CASE UNCHANGED vars
  BY <1>4 DEF vars, FlowInv, PerStream
<1> QED  BY <1>1, <1>2, <1>3, <1>4, FlowAnswered DEF Next

LEMMA FlowInvHolds ==
    ASSUME AnswersAreSequences
    PROVE  Spec => []FlowInv
BY FlowInit, FlowStep, PTL DEF Spec

-----------------------------------------------------------------------------
(***************************************************************************)
(* What the run checks, for every instance.  The one hypothesis,           *)
(* AnswersAreSequences, is that user code returns what its types say.      *)
(***************************************************************************)

\* However pages are cut into books, whatever throws, in whatever order one
\* instance serves its workflows: as long as no notification has shared a book
\* with other pages, the commands are those of handling pages one by one.
THEOREM CommandsOneByOne ==
    ASSUME AnswersAreSequences
    PROVE  Spec => []CommandsAsOneByOne
<1>1. FlowInv => CommandsAsOneByOne
  BY AloneIsFold DEF FlowInv, CommandsAsOneByOne, Stream
<1> QED  BY <1>1, FlowInvHolds, PTL

\* The same of facts, which the walk collects in a member, those that rejection
\* handlers emit included and in books of any mixture.
THEOREM FactsOneByOne ==
    ASSUME AnswersAreSequences
    PROVE  Spec => []FactsAsOneByOne
<1>1. FlowInv => FactsAsOneByOne
  BY AloneIsFold DEF FlowInv, FactsAsOneByOne, Stream
<1> QED  BY <1>1, FlowInvHolds, PTL

\* With notifications among the events commands may be missing, and no more.
THEOREM NothingIsInvented ==
    ASSUME AnswersAreSequences
    PROVE  Spec => []NothingInvented
<1>1. FlowInv => NothingInvented
  BY AloneIsFold DEF FlowInv, NothingInvented, Stream
<1> QED  BY <1>1, FlowInvHolds, PTL

\* However often a notification is handed over and whatever throws in between:
\* each one taken is answered once, in order, in the state before it.
THEOREM RejectionsOneByOne ==
    ASSUME AnswersAreSequences
    PROVE  Spec => []RejectionsAsOneByOne
<1>1. FlowInv => RejectionsAsOneByOne
  BY AloneIsFold DEF FlowInv, RejectionsAsOneByOne, Stream
<1> QED  BY <1>1, FlowInvHolds, PTL
=============================================================================
