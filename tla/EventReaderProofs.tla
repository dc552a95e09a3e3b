-------------------------- MODULE EventReaderProofs --------------------------
(***************************************************************************)
(* For any roots, workflows, bounds and order of setters: a builder that   *)
(* is not asked by time after by sequence builds what was asked last, and  *)
(* with it every answer is whole.  The invariant says which members of the *)
(* builder are in force, and what a stream still has to bring.             *)
(***************************************************************************)
EXTENDS EventReader, FiniteSetTheorems, TLAPS

\* The builder and the question are records of these members.
Shape ==
    /\ builder = [root |-> builder.root, correlation_id |-> builder.correlation_id,
                  edition |-> builder.edition, has_range |-> builder.has_range,
                  range_lower |-> builder.range_lower, range_upper |-> builder.range_upper,
                  has_temporal |-> builder.has_temporal,
                  temporal_sequence |-> builder.temporal_sequence,
                  temporal_time |-> builder.temporal_time]
    /\ asked = [root |-> asked.root, correlation_id |-> asked.correlation_id,
                edition |-> asked.edition, window |-> asked.window]

\* At most one kind of window is in force.
InForce ==
    /\ builder.has_range \in BOOLEAN /\ builder.has_temporal \in BOOLEAN
    /\ ~(builder.has_range /\ builder.has_temporal)

Members == Shape /\ InForce /\ AskedLast

LEMMA MembersStep ==
    ASSUME Careful, Members, [Reading]_reading
    PROVE  Members'
<1> USE DEF Members, Shape, InForce, AskedLast, Ask, build, Window
<1>1. CASE UNCHANGED <<builder, asked>>
  BY <1>1
<1>2. ASSUME NEW r \in Roots, WithRoot(r)
      PROVE  Members'
  BY <1>2 DEF WithRoot, with_root
<1>3. ASSUME NEW f \in Flows, ByCorrelationId(f)
      PROVE  Members'
  BY <1>3 DEF ByCorrelationId, by_correlation_id
<1>4. ASSUME NEW e \in Editions, WithEdition(e)
      PROVE  Members'
  BY <1>4 DEF WithEdition, with_edition
<1>5. ASSUME NEW lower \in Lowers, FromRange(lower)
      PROVE  Members'
  BY <1>5 DEF FromRange, range, Between
<1>6. ASSUME NEW lower \in Lowers, FromRangeTo(lower)
      PROVE  Members'
  BY <1>6 DEF FromRangeTo, range_to, Between
<1>7. ASSUME NEW point \in 0..MaxEvents, AsOfSequence(point)
      PROVE  Members'
  <2>1. point # NotSet
    BY ReaderAssumption
  <2> QED  BY <1>7, <2>1 DEF AsOfSequence, as_of_sequence, Until
<1>8. ASSUME NEW point \in 0..MaxEvents, AsOfTime(point)
      PROVE  Members'
  <2>1. builder.temporal_sequence = NotSet
    BY <1>8 DEF AsOfTime
  <2> QED  BY <1>8, <2>1 DEF AsOfTime, as_of_time, Until
<1> QED
  BY <1>1, <1>2, <1>3, <1>4, <1>5, <1>6, <1>7, <1>8
  DEF Reading, reading, Record, Read, GetEventBook, GetEvents, Finish

\* A builder says what its user said last, whatever was said before, provided
\* as_of_time() never comes after as_of_sequence().
THEOREM BuilderSaysWhatWasAsked ==
    ASSUME Careful
    PROVE  ReadingSpec => []AskedLast
<1>1. NothingAsked => Members
  BY DEF NothingAsked, Members, Shape, InForce, AskedLast, build, Window, NewBuilder, All
<1>2. Members => AskedLast
  BY DEF Members
<1> QED  BY <1>1, <1>2, MembersStep, PTL DEF ReadingSpec

-----------------------------------------------------------------------------
LogOK == log \in Seq([root : Roots, flow : Flows])

\* What a stream still owes is of the roots it has not come to yet.
StreamOwes ==
    stream.open =>
        /\ stream = [open |-> TRUE, query |-> asked, left |-> stream.left,
                     got |-> stream.got, due |-> stream.due]
        /\ stream.got \subseteq Selected(asked)
        /\ stream.due \subseteq stream.got \cup {i \in Selected(asked) : log[i].root \in stream.left}

Whole == LogOK /\ Members /\ StreamOwes /\ WholeAnswer

\* Events that match still match when more are recorded.
LEMMA SelectedGrows ==
    ASSUME LogOK, NEW r \in Roots, NEW f \in Flows, Record(r, f), NEW query
    PROVE  /\ LogOK'
           /\ Selected(query) \subseteq Selected(query)'
           /\ \A i \in Selected(query) : log'[i] = log[i]
<1>1. /\ LogOK' /\ DOMAIN log \subseteq DOMAIN log'
      /\ \A i \in DOMAIN log : log'[i] = log[i]
  BY DEF LogOK, Record
<1>2. ASSUME NEW i \in DOMAIN log
      PROVE  sequence(i)' = sequence(i)
  <2>1. \A j \in 1..(i - 1) : log'[j] = log[j]
    BY <1>1 DEF LogOK
  <2>2. {j \in 1..(i - 1) : log[j].root = log[i].root}'
          = {j \in 1..(i - 1) : log[j].root = log[i].root}
    BY <1>1, <2>1
  <2> QED  BY <2>2 DEF sequence
<1>3. ASSUME NEW i \in DOMAIN log
      PROVE  InWindow(query.window, i)' = InWindow(query.window, i)
  BY <1>2 DEF InWindow
<1> QED  BY <1>1, <1>3 DEF Selected

LEMMA WholeStep ==
    ASSUME Careful, Whole, [Reading]_reading
    PROVE  Whole'
<1>1. Members' /\ Members
  BY MembersStep DEF Whole
<1>2. CASE UNCHANGED reading
  BY <1>1, <1>2 DEF Whole, reading, LogOK, StreamOwes, WholeAnswer, Selected, InWindow, sequence
<1>3. ASSUME NEW r \in Roots, NEW f \in Flows, Record(r, f)
      PROVE  Whole'
  <2>1. /\ LogOK' /\ Selected(asked) \subseteq Selected(asked)'
        /\ \A i \in Selected(asked) : log'[i] = log[i]
    <3>1. PICK query : query = asked
      OBVIOUS
    <3>2. asked' = asked
      BY <1>3 DEF Record
    <3> QED  BY <1>3, <3>1, <3>2, SelectedGrows DEF Whole
  <2>2. /\ stream' = stream /\ result' = result /\ asked' = asked
    BY <1>3 DEF Record
  <2>3. StreamOwes'
    BY <2>1, <2>2 DEF Whole, StreamOwes
  <2>4. WholeAnswer'
    BY <2>1, <2>2 DEF Whole, WholeAnswer
  <2> QED  BY <1>1, <2>1, <2>3, <2>4 DEF Whole
<1>4. ASSUME NEW new, NEW meant, Ask(new, meant)
      PROVE  Whole'
  BY <1>1, <1>4 DEF Ask, Whole, LogOK, StreamOwes, WholeAnswer, NoResult
<1>5. ASSUME log' = log, asked' = asked, StreamOwes', WholeAnswer'
      PROVE  Whole'
  BY <1>1, <1>5 DEF Whole, LogOK
<1>6. ASSUME log' = log, asked' = asked
      PROVE  Selected(asked)' = Selected(asked)
  BY <1>6 DEF Selected, InWindow, sequence
<1>7. ASSUME NEW r \in Roots, Read(r)
      PROVE  Whole'
  <2>1. /\ log' = log /\ asked' = asked /\ result' = result /\ stream.open
        /\ stream' = [stream EXCEPT !.left = @ \ {r},
                                    !.got = @ \cup OfRoot(Selected(stream.query), r)]
    BY <1>7 DEF Read
  <2>2. Selected(asked)' = Selected(asked)
    BY <1>6, <2>1
  <2>3. stream.query = asked
    BY <2>1 DEF Whole, StreamOwes
  <2>4. WholeAnswer'
    BY <2>1, <2>2 DEF Whole, WholeAnswer
  <2>5. StreamOwes'
    <3>1. /\ stream'.got = stream.got \cup OfRoot(Selected(asked), r)
          /\ stream'.left = stream.left \ {r} /\ stream'.due = stream.due
          /\ stream' = [open |-> TRUE, query |-> asked, left |-> stream'.left,
                        got |-> stream'.got, due |-> stream'.due]
      BY <2>1, <2>3 DEF Whole, StreamOwes
    <3>2. /\ stream.got \subseteq Selected(asked)
          /\ stream.due \subseteq stream.got \cup {i \in Selected(asked) : log[i].root \in stream.left}
      BY <2>1 DEF Whole, StreamOwes
    <3> QED  BY <2>1, <2>2, <3>1, <3>2 DEF StreamOwes, OfRoot
  <2> QED  BY <1>5, <2>1, <2>4, <2>5
<1>8. CASE GetEventBook
  <2>1. /\ log' = log /\ asked' = asked /\ stream' = stream /\ ~stream.open
    BY <1>8 DEF GetEventBook
  <2>2. Selected(asked)' = Selected(asked)
    BY <1>6, <2>1
  <2>3. StreamOwes'
    BY <2>1 DEF StreamOwes
  <2>4. build(builder) = asked
    BY <1>1 DEF Members, AskedLast
  <2>5. WholeAnswer'
    BY <1>8, <2>2, <2>4 DEF GetEventBook, WholeAnswer, NoResult
  <2> QED  BY <1>5, <2>1, <2>3, <2>5
<1>9. CASE GetEvents
  <2>1. /\ log' = log /\ asked' = asked /\ result' = NoResult
        /\ stream' = [open |-> TRUE, query |-> build(builder), left |-> Roots,
                      got |-> {}, due |-> Selected(asked)]
    BY <1>9 DEF GetEvents
  <2>2. Selected(asked)' = Selected(asked)
    BY <1>6, <2>1
  <2>3. build(builder) = asked
    BY <1>1 DEF Members, AskedLast
  <2>4. \A i \in Selected(asked) : log[i].root \in Roots
    <3>1. \A i \in DOMAIN log : log[i] \in [root : Roots, flow : Flows]
      <4> DEFINE S == [root : Roots, flow : Flows]
      <4>1. log \in Seq(S)
        BY DEF Whole, LogOK
      <4> HIDE DEF S
      <4>2. \A i \in DOMAIN log : log[i] \in S
        BY <4>1
      <4> QED  BY <4>2 DEF S
    <3> QED  BY <3>1 DEF Selected
  <2>5. StreamOwes'
    BY <2>1, <2>2, <2>3, <2>4 DEF StreamOwes
  <2>6. WholeAnswer'
    BY <2>1 DEF WholeAnswer, NoResult
  <2> QED  BY <1>5, <2>1, <2>5, <2>6
<1>10. CASE Finish
  <2>1. /\ log' = log /\ asked' = asked /\ stream' = NoStream /\ stream.open
        /\ result' = IF stream.left = {}
                     THEN [kind |-> "books", events |-> stream.got, due |-> stream.due]
                     ELSE NoResult
    BY <1>10 DEF Finish
  <2>2. Selected(asked)' = Selected(asked)
    BY <1>6, <2>1
  <2>3. StreamOwes'
    BY <2>1 DEF StreamOwes, NoStream
  <2>4. WholeAnswer'
    BY <2>1, <2>2 DEF Whole, StreamOwes, WholeAnswer, NoResult
  <2> QED  BY <1>5, <2>1, <2>3, <2>4
<1> QED
  BY <1>2, <1>3, <1>4, <1>7, <1>8, <1>9, <1>10
  DEF Reading, WithRoot, ByCorrelationId, WithEdition, FromRange, FromRangeTo, AsOfSequence, AsOfTime

\* A query that returns returns everything that matched when it was made, and
\* nothing that does not match, through however many books and broken streams.
THEOREM AnswersAreWhole ==
    ASSUME Careful
    PROVE  ReadingSpec => []WholeAnswer
<1>1. NothingAsked => Whole
  BY DEF NothingAsked, Whole, LogOK, StreamOwes, WholeAnswer, NoStream, NoResult, Members, Shape,
         InForce, AskedLast, build, Window, NewBuilder, All
<1>2. Whole => WholeAnswer
  BY DEF Whole
<1> QED  BY <1>1, <1>2, WholeStep, PTL DEF ReadingSpec

-----------------------------------------------------------------------------
(***************************************************************************)
(* Walking in pages.  The sequences of a root's events are all numbers     *)
(* below their count, each once, so that a page of them is as large as the *)
(* step the reader takes.                                                  *)
(***************************************************************************)
Its(r) == OfRoot(DOMAIN log, r)
Before(i) == {j \in 1..(i - 1) : log[j].root = log[i].root}

\* Every number below the count of a root's events is the sequence of one.
Dense == \A r \in Roots : \A k \in 0..(Cardinality(Its(r)) - 1) :
            \E i \in Its(r) : sequence(i) = k

LEMMA ItsFinite ==
    ASSUME LogOK, NEW r
    PROVE  IsFiniteSet(Its(r)) /\ Cardinality(Its(r)) \in Nat /\ Its(r) \subseteq Nat
<1>1. DOMAIN log = 1..Len(log) /\ Len(log) \in Nat
  BY DEF LogOK
<1>2. IsFiniteSet(DOMAIN log)
  BY <1>1, FS_Interval
<1>3. Its(r) \in SUBSET DOMAIN log
  BY DEF Its, OfRoot
<1> QED  BY <1>1, <1>2, <1>3, FS_Subset, FS_CardinalityType

\* A root's events are numbered in order, from 0, below their count.
LEMMA SequencesIncrease ==
    ASSUME LogOK, NEW r, NEW i \in Its(r)
    PROVE  /\ sequence(i) \in Nat /\ sequence(i) < Cardinality(Its(r))
           /\ \A j \in Its(r) : i < j => sequence(i) < sequence(j)
<1>1. DOMAIN log = 1..Len(log) /\ Len(log) \in Nat /\ i \in 1..Len(log) /\ log[i].root = r
  BY DEF LogOK, Its, OfRoot
<1>2. IsFiniteSet(Before(i)) /\ Cardinality(Before(i)) \in Nat
  <2>1. Before(i) \in SUBSET (1..(i - 1))
    BY DEF Before
  <2>2. IsFiniteSet(1..(i - 1))
    BY <1>1, FS_Interval
  <2> QED  BY <2>1, <2>2, FS_Subset, FS_CardinalityType
<1>3. /\ IsFiniteSet(Before(i) \cup {i})
      /\ Cardinality(Before(i) \cup {i}) = Cardinality(Before(i)) + 1
  <2>1. i \notin Before(i)
    BY <1>1 DEF Before
  <2> QED  BY <1>2, <2>1, FS_AddElement
<1>4. Cardinality(Before(i)) + 1 <= Cardinality(Its(r))
  <2>1. Before(i) \cup {i} \in SUBSET Its(r)
    BY <1>1 DEF Before, Its, OfRoot
  <2> QED  BY <1>3, <2>1, ItsFinite, FS_Subset
<1>5. ASSUME NEW j \in Its(r), i < j
      PROVE  sequence(i) < sequence(j)
  <2>1. j \in 1..Len(log) /\ log[j].root = r
    BY <1>1 DEF Its, OfRoot
  <2>2. Before(i) \cup {i} \in SUBSET Before(j)
    BY <1>1, <1>5, <2>1 DEF Before
  <2>3. IsFiniteSet(Before(j)) /\ Cardinality(Before(j)) \in Nat
    <3>1. Before(j) \in SUBSET (1..(j - 1))
      BY DEF Before
    <3>2. IsFiniteSet(1..(j - 1))
      BY <2>1, FS_Interval
    <3> QED  BY <3>1, <3>2, FS_Subset, FS_CardinalityType
  <2>4. Cardinality(Before(i)) + 1 <= Cardinality(Before(j))
    BY <1>3, <2>2, <2>3, FS_Subset
  <2> QED  BY <1>2, <2>3, <2>4 DEF sequence, Before
<1> QED  BY <1>2, <1>4, <1>5, ItsFinite DEF sequence, Before

\* Between two sequences lie as many events as numbers.
LEMMA SliceIsFull ==
    ASSUME LogOK, Dense, NEW r \in Roots, NEW a \in Nat, NEW b \in Int,
           b < Cardinality(Its(r)),
           NEW slice, slice = {i \in Its(r) : a <= sequence(i) /\ sequence(i) <= b}
    PROVE  Cardinality(slice) = IF a > b THEN 0 ELSE b - a + 1
<1> DEFINE f == [i \in slice |-> sequence(i)]
<1>1. slice \subseteq Its(r) /\ \A i \in slice : sequence(i) \in a..b
  BY SequencesIncrease
<1>2. f \in [slice -> a..b]
  BY <1>1
<1>3. \A i, j \in slice : f[i] = f[j] => i = j
  <2> SUFFICES ASSUME NEW i \in slice, NEW j \in slice, f[i] = f[j], i # j
               PROVE  FALSE
    OBVIOUS
  <2>1. i \in Nat /\ j \in Nat
    BY <1>1, ItsFinite
  <2>2. i < j \/ j < i
    BY <2>1
  <2>3. sequence(i) < sequence(j) \/ sequence(j) < sequence(i)
    BY <1>1, <2>2, SequencesIncrease
  <2>4. sequence(i) = sequence(j) /\ sequence(i) \in Nat
    BY <1>1, SequencesIncrease
  <2> QED  BY <2>3, <2>4
<1>4. ASSUME NEW k \in a..b
      PROVE  \E i \in slice : f[i] = k
  <2>1. k \in 0..(Cardinality(Its(r)) - 1)
    BY ItsFinite
  <2>2. PICK i \in Its(r) : sequence(i) = k
    BY <2>1 DEF Dense
  <2>3. i \in slice
    BY <2>2
  <2> QED  BY <2>2, <2>3
<1>5. f \in Bijection(slice, a..b)
  <2>1. DOMAIN f = slice
    OBVIOUS
  <2> HIDE DEF f
  <2> QED  BY <1>2, <1>3, <1>4, <2>1 DEF Bijection, Injection, Surjection, IsInjective
<1>6. IsFiniteSet(slice)
  BY <1>1, ItsFinite, FS_Subset
<1>7. Cardinality(a..b) = Cardinality(slice)
  BY <1>5, <1>6, FS_Bijection DEF ExistsBijection
<1> QED  BY <1>7, FS_Interval

\* What may be asked: one address, and bounds of a range that are numbers.
Question ==
    /\ asked.root \in Roots \cup {NotSet}
    /\ asked.root = NotSet \/ asked.correlation_id = NotSet
    /\ asked.window.by \in {"nothing", "range", "sequence", "time"}
    /\ asked.window.by = "range" /\ asked.window.to # NotSet => asked.window.to \in Nat

\* The reader stands at a number not above the count, and has got all before it.
Standing ==
    /\ pages \in [Roots -> [next : Nat, got : SUBSET Nat, twice : SUBSET Nat]]
    /\ \A r \in Roots :
         /\ pages[r].next <= Cardinality(Its(r))
         /\ pages[r].twice = {}
         /\ pages[r].got = {i \in Its(r) : sequence(i) < pages[r].next}

Walked == LogOK /\ Members /\ Dense /\ Question /\ Standing

\* An event that is added takes the next number of its root, and no other's.
LEMMA RecordNumbers ==
    ASSUME LogOK, NEW r \in Roots, NEW f \in Flows, Record(r, f), NEW n, n = Len(log)
    PROVE  /\ LogOK' /\ n + 1 \notin DOMAIN log
           /\ \A q : Its(q)' = IF q = r THEN Its(q) \cup {n + 1} ELSE Its(q)
           /\ \A i \in DOMAIN log : sequence(i)' = sequence(i)
           /\ sequence(n + 1)' = Cardinality(Its(r))
           /\ Cardinality(Its(r))' = Cardinality(Its(r)) + 1
<1>1. /\ n \in Nat /\ DOMAIN log = 1..n /\ DOMAIN log' = 1..(n + 1)
      /\ \A i \in 1..n : log'[i] = log[i]
      /\ log'[n + 1].root = r
      /\ LogOK'
  BY DEF LogOK, Record
<1>2. \A q : Its(q)' = IF q = r THEN Its(q) \cup {n + 1} ELSE Its(q)
  BY <1>1 DEF Its, OfRoot
<1>3. ASSUME NEW i \in DOMAIN log
      PROVE  sequence(i)' = sequence(i)
  <2>1. Before(i)' = Before(i)
    BY <1>1 DEF Before
  <2> QED  BY <2>1 DEF sequence, Before
<1>4. sequence(n + 1)' = Cardinality(Its(r))
  <2>1. {j \in 1..n : log'[j].root = r} = Its(r)
    BY <1>1 DEF Its, OfRoot
  <2>2. {j \in 1..((n + 1) - 1) : log'[j].root = log'[n + 1].root} = Its(r)
    BY <1>1, <2>1
  <2> QED  BY <2>2 DEF sequence
<1>5. Cardinality(Its(r))' = Cardinality(Its(r)) + 1
  <2>1. n + 1 \notin Its(r)
    BY <1>1 DEF Its, OfRoot
  <2>2. Its(r)' = Its(r) \cup {n + 1}
    BY <1>2
  <2> QED  BY <2>1, <2>2, ItsFinite, FS_AddElement
<1> QED  BY <1>1, <1>2, <1>3, <1>4, <1>5

LEMMA RecordKeepsWalked ==
    ASSUME Walked, Members', NEW r \in Roots, NEW f \in Flows, Record(r, f)
    PROVE  Walked'
<1> SUFFICES ASSUME NEW n, n = Len(log)
             PROVE  Walked'
  OBVIOUS
<1>1. /\ LogOK' /\ n + 1 \notin DOMAIN log
      /\ \A q : Its(q)' = IF q = r THEN Its(q) \cup {n + 1} ELSE Its(q)
      /\ \A i \in DOMAIN log : sequence(i)' = sequence(i)
      /\ sequence(n + 1)' = Cardinality(Its(r))
      /\ Cardinality(Its(r))' = Cardinality(Its(r)) + 1
  BY RecordNumbers DEF Walked
<1>2. asked' = asked /\ pages' = pages
  BY DEF Record
<1>3. \A q : Its(q) \subseteq DOMAIN log /\ Cardinality(Its(q)) \in Nat
  BY ItsFinite DEF Walked, Its, OfRoot
<1>4. Dense'
  <2> SUFFICES ASSUME NEW q \in Roots, NEW k \in 0..(Cardinality(Its(q))' - 1)
               PROVE  \E i \in Its(q)' : sequence(i)' = k
    BY DEF Dense
  <2>1. CASE k < Cardinality(Its(q))
    <3>1. PICK i \in Its(q) : sequence(i) = k
      BY <1>3, <2>1 DEF Walked, Dense
    <3> QED  BY <1>1, <1>3, <3>1
  <2>2. CASE ~(k < Cardinality(Its(q)))
    <3>1. q = r
      <4>1. q # r => Cardinality(Its(q))' = Cardinality(Its(q))
        BY <1>1
      <4> QED  BY <1>3, <2>2, <4>1
    <3>2. k = Cardinality(Its(r))
      BY <1>1, <1>3, <2>2, <3>1
    <3> QED  BY <1>1, <3>1, <3>2
  <2> QED  BY <2>1, <2>2
<1>5. Question'
  BY <1>2 DEF Walked, Question
<1>6. Standing'
  <2>1. pages' \in [Roots -> [next : Nat, got : SUBSET Nat, twice : SUBSET Nat]]
    BY <1>2 DEF Walked, Standing
  <2>2. ASSUME NEW q \in Roots
        PROVE  /\ pages'[q].next <= Cardinality(Its(q))'
               /\ pages'[q].twice = {}
               /\ pages'[q].got = {i \in Its(q)' : sequence(i)' < pages'[q].next}
    <3>1. /\ pages'[q] = pages[q] /\ pages[q].next \in Nat
          /\ pages[q].next <= Cardinality(Its(q)) /\ pages[q].twice = {}
          /\ pages[q].got = {i \in Its(q) : sequence(i) < pages[q].next}
      BY <1>2 DEF Walked, Standing
    <3>2. {i \in Its(q) : sequence(i)' < pages[q].next} = {i \in Its(q) : sequence(i) < pages[q].next}
      BY <1>1, <1>3
    <3>3. CASE q = r
      <4>1. ~(sequence(n + 1)' < pages[q].next)
        BY <1>1, <1>3, <3>1, <3>3
      <4>2. {i \in Its(q)' : sequence(i)' < pages[q].next}
              = {i \in Its(q) : sequence(i)' < pages[q].next}
        BY <1>1, <3>3, <4>1
      <4>3. Cardinality(Its(q))' = Cardinality(Its(q)) + 1
        BY <1>1, <3>3
      <4> QED  BY <1>3, <3>1, <3>2, <4>2, <4>3
    <3>4. CASE q # r
      <4>1. Its(q)' = Its(q)
        BY <1>1, <3>4
      <4> QED  BY <3>1, <3>2, <4>1
    <3> QED  BY <3>3, <3>4
  <2> QED  BY <2>1, <2>2 DEF Standing
<1> QED  BY <1>1, <1>4, <1>5, <1>6 DEF Walked

\* Nothing but a question changes.
LEMMA AskKeepsWalked ==
    ASSUME Walked, Members', NEW new, NEW meant, Ask(new, meant), Question'
    PROVE  Walked'
<1>1. log' = log /\ pages' = pages
  BY DEF Ask
<1>2. \A q : Its(q)' = Its(q)
  BY <1>1 DEF Its, OfRoot
<1>3. \A i : sequence(i)' = sequence(i)
  BY <1>1 DEF sequence
<1> QED  BY <1>1, <1>2, <1>3 DEF Walked, LogOK, Dense, Standing

\* A page that starts where the reader stands moves it behind the page's last
\* event, and no further.
LEMMA PageMoves ==
    ASSUME ~AsDocumented, Walked, GetEventBook, pages' # pages
    PROVE  \E r \in Roots : \E events \in SUBSET Its(r) : \E next \in Nat :
             /\ pages' = [pages EXCEPT ![r] =
                    [next |-> next, got |-> pages[r].got \cup events,
                     twice |-> pages[r].twice \cup (pages[r].got \cap events)]]
             /\ pages[r].got \cap events = {}
             /\ next <= Cardinality(Its(r))
             /\ pages[r].got \cup events = {i \in Its(r) : sequence(i) < next}
<1> DEFINE r == asked.root
           a == pages[r].next
           c == Cardinality(Its(r))
           to == asked.window.to
           events == Selected(asked)
           b == IF to # NotSet /\ to < c THEN to ELSE c - 1
<1>1. build(builder) = asked
  BY DEF Walked, Members, AskedLast
<1>2. /\ pages' = Paged(events)
      /\ r # NotSet /\ asked.window.by = "range" /\ asked.window.from = a
  BY <1>1 DEF GetEventBook, Paged
<1>3. /\ r \in Roots /\ asked.correlation_id = NotSet
      /\ to # NotSet => to \in Nat
  BY <1>2 DEF Walked, Question
<1>4. /\ pages[r] \in [next : Nat, got : SUBSET Nat, twice : SUBSET Nat]
      /\ a \in Nat /\ a <= c /\ c \in Nat
      /\ pages[r].got = {i \in Its(r) : sequence(i) < a}
  BY <1>3, ItsFinite DEF Walked, Standing
<1>5. /\ b \in Int /\ b < c
      /\ \A k \in 0..(c - 1) : (to # NotSet => k <= to) <=> k <= b
  BY <1>3, <1>4
<1>6. \A i \in Its(r) : sequence(i) \in 0..(c - 1)
  <2>1. \A i \in Its(r) : sequence(i) \in Nat /\ sequence(i) < Cardinality(Its(r))
    BY SequencesIncrease DEF Walked
  <2> QED  BY <1>4, <2>1
<1>7. events = {i \in Its(r) : a <= sequence(i) /\ (to # NotSet => sequence(i) <= to)}
  BY <1>2, <1>3 DEF Selected, InWindow, Its, OfRoot
<1>71. Behind(events) = a + Cardinality(events)
  BY <1>2 DEF Behind
<1> HIDE DEF events, b, c, a, r, to
<1>8. events = {i \in Its(r) : a <= sequence(i) /\ sequence(i) <= b}
  BY <1>5, <1>6, <1>7
<1>9. Cardinality(events) = IF a > b THEN 0 ELSE b - a + 1
  <2>1. b < Cardinality(Its(r))
    BY <1>5 DEF c
  <2> QED  BY <1>3, <1>4, <1>5, <1>8, <2>1, SliceIsFull DEF Walked
<1>10. /\ a + Cardinality(events) \in Nat
       /\ a + Cardinality(events) <= c
       /\ \A k \in 0..(c - 1) : k < a + Cardinality(events) <=> k < a \/ (a <= k /\ k <= b)
  BY <1>4, <1>5, <1>9
<1>11. pages[r].got \cap events = {}
  BY <1>4, <1>6, <1>8
<1>12. pages[r].got \cup events = {i \in Its(r) : sequence(i) < a + Cardinality(events)}
  BY <1>4, <1>6, <1>8, <1>10
<1>13. pages' = [pages EXCEPT ![r] =
                  [next |-> a + Cardinality(events), got |-> pages[r].got \cup events,
                   twice |-> pages[r].twice \cup (pages[r].got \cap events)]]
  <2>1. r \in DOMAIN pages
    BY <1>3 DEF Walked, Standing
  <2> QED  BY <1>2, <1>71, <2>1 DEF Paged, r
<1>14. events \in SUBSET Its(r)
  BY <1>8
<1>15. a + Cardinality(events) <= Cardinality(Its(r))
  BY <1>10 DEF c
<1> QED  BY <1>3, <1>10, <1>11, <1>12, <1>13, <1>14, <1>15

LEMMA BookKeepsWalked ==
    ASSUME ~AsDocumented, Walked, Members', GetEventBook
    PROVE  Walked'
<1>1. log' = log /\ asked' = asked
  BY DEF GetEventBook
<1>2. /\ \A q : Its(q)' = Its(q)
      /\ \A i : sequence(i)' = sequence(i)
  BY <1>1 DEF Its, OfRoot, sequence
<1>3. LogOK' /\ Dense' /\ Question'
  BY <1>1, <1>2 DEF Walked, LogOK, Dense, Question
<1>4. CASE pages' = pages
  BY <1>2, <1>3, <1>4 DEF Walked, Standing
<1>5. CASE pages' # pages
  <2>1. PICK r \in Roots : \E events \in SUBSET Its(r) : \E next \in Nat :
           /\ pages' = [pages EXCEPT ![r] =
                  [next |-> next, got |-> pages[r].got \cup events,
                   twice |-> pages[r].twice \cup (pages[r].got \cap events)]]
           /\ pages[r].got \cap events = {}
           /\ next <= Cardinality(Its(r))
           /\ pages[r].got \cup events = {i \in Its(r) : sequence(i) < next}
    BY <1>5, PageMoves
  <2>2. PICK events \in SUBSET Its(r), next \in Nat :
           /\ pages' = [pages EXCEPT ![r] =
                  [next |-> next, got |-> pages[r].got \cup events,
                   twice |-> pages[r].twice \cup (pages[r].got \cap events)]]
           /\ pages[r].got \cap events = {}
           /\ next <= Cardinality(Its(r))
           /\ pages[r].got \cup events = {i \in Its(r) : sequence(i) < next}
    BY <2>1
  <2>3. /\ pages \in [Roots -> [next : Nat, got : SUBSET Nat, twice : SUBSET Nat]]
        /\ pages[r].twice = {} /\ pages[r].got \subseteq Nat /\ Its(r) \subseteq Nat
    BY ItsFinite DEF Walked, Standing
  <2>4. /\ pages'[r] = [next |-> next, got |-> pages[r].got \cup events, twice |-> {}]
        /\ \A q \in Roots : q # r => pages'[q] = pages[q]
        /\ DOMAIN pages' = Roots
    BY <2>2, <2>3
  <2>5. pages' \in [Roots -> [next : Nat, got : SUBSET Nat, twice : SUBSET Nat]]
    BY <2>2, <2>3
  <2>6. ASSUME NEW q \in Roots
        PROVE  /\ pages'[q].next <= Cardinality(Its(q))
               /\ pages'[q].twice = {}
               /\ pages'[q].got = {i \in Its(q) : sequence(i) < pages'[q].next}
    BY <2>2, <2>4 DEF Walked, Standing
  <2>7. Standing'
    BY <1>2, <2>5, <2>6 DEF Standing
  <2> QED  BY <1>3, <2>7 DEF Walked
<1> QED  BY <1>4, <1>5

LEMMA WalkedStep ==
    ASSUME Careful, ~AsDocumented, Walked, [Reading]_reading
    PROVE  Walked'
<1>1. Members'
  BY MembersStep DEF Walked
<1>2. ASSUME UNCHANGED <<log, asked, pages>>
      PROVE  Walked'
  <2>1. /\ \A q : Its(q)' = Its(q)
        /\ \A i : sequence(i)' = sequence(i)
    BY <1>2 DEF Its, OfRoot, sequence
  <2> QED  BY <1>1, <1>2, <2>1 DEF Walked, LogOK, Dense, Question, Standing
<1>3. CASE UNCHANGED reading
  BY <1>2, <1>3 DEF reading
<1>4. ASSUME NEW r \in Roots, NEW f \in Flows, Record(r, f)
      PROVE  Walked'
  BY <1>1, <1>4, RecordKeepsWalked
<1>5. ASSUME NEW r \in Roots, WithRoot(r)
      PROVE  Walked'
  <2>1. Question'
    BY <1>5 DEF WithRoot, Ask, Walked, Members, Shape, Question
  <2> QED  BY <1>1, <1>5, <2>1, AskKeepsWalked DEF WithRoot
<1>6. ASSUME NEW f \in Flows, ByCorrelationId(f)
      PROVE  Walked'
  <2>1. Question'
    BY <1>6 DEF ByCorrelationId, Ask, Walked, Members, Shape, Question
  <2> QED  BY <1>1, <1>6, <2>1, AskKeepsWalked DEF ByCorrelationId
<1>7. ASSUME NEW e \in Editions, WithEdition(e)
      PROVE  Walked'
  <2>1. Question'
    BY <1>7 DEF WithEdition, Ask, Walked, Members, Shape, Question
  <2> QED  BY <1>1, <1>7, <2>1, AskKeepsWalked DEF WithEdition
<1>8. ASSUME NEW lower \in Lowers, FromRange(lower)
      PROVE  Walked'
  <2>1. Question'
    BY <1>8 DEF FromRange, Between, Ask, Walked, Members, Shape, Question
  <2> QED  BY <1>1, <1>8, <2>1, AskKeepsWalked DEF FromRange
<1>9. ASSUME NEW lower \in Lowers, FromRangeTo(lower)
      PROVE  Walked'
  <2>1. lower \in Nat
    BY DEF Lowers, Walked, Standing
  <2>2. UpperOf(lower) \in Nat
    BY <2>1, ReaderAssumption DEF UpperOf
  <2>3. Question'
    BY <1>9, <2>2 DEF FromRangeTo, Between, Ask, Walked, Members, Shape, Question
  <2> QED  BY <1>1, <1>9, <2>3, AskKeepsWalked DEF FromRangeTo
<1>10. ASSUME NEW point \in 0..MaxEvents, AsOfSequence(point) \/ AsOfTime(point)
       PROVE  Walked'
  <2>1. Question'
    BY <1>10 DEF AsOfSequence, AsOfTime, Until, Ask, Walked, Members, Shape, Question
  <2> QED  BY <1>1, <1>10, <2>1, AskKeepsWalked DEF AsOfSequence, AsOfTime
<1>11. ASSUME GetEvents \/ Finish \/ \E r \in Roots : Read(r)
       PROVE  Walked'
  BY <1>2, <1>11 DEF GetEvents, Finish, Read
<1>12. CASE GetEventBook
  BY <1>1, <1>12, BookKeepsWalked
<1> QED
  BY <1>3, <1>4, <1>5, <1>6, <1>7, <1>8, <1>9, <1>10, <1>11, <1>12 DEF Reading

\* However many events are appended between two pages, and whatever else is
\* asked, a reader that goes on behind the last event meets each event once.
THEOREM PagesAreDisjointAndComplete ==
    ASSUME Careful, ~AsDocumented
    PROVE  ReadingSpec => []PagesMeetEachOnce
<1>1. NothingAsked => Walked
  <2> SUFFICES ASSUME NothingAsked PROVE Walked
    OBVIOUS
  <2>1. Members /\ LogOK /\ Question
    BY DEF NothingAsked, Members, Shape, InForce, AskedLast, build, Window, NewBuilder, All, LogOK, Question
  <2>2. \A r : Its(r) = {}
    BY DEF NothingAsked, Its, OfRoot
  <2>3. Cardinality({}) = 0
    BY FS_EmptySet
  <2>4. \A r : Cardinality(Its(r)) = 0
    BY <2>2, <2>3
  <2>5. Dense
    <3>1. ASSUME NEW r \in Roots, NEW k \in 0..(Cardinality(Its(r)) - 1)
          PROVE  FALSE
      <4>1. Cardinality(Its(r)) = 0
        BY <2>4
      <4> QED  BY <4>1
    <3> QED  BY <3>1 DEF Dense
  <2>6. pages = [r \in Roots |-> [next |-> 0, got |-> {}, twice |-> {}]]
    BY DEF NothingAsked
  <2>7. Standing
    <3>1. ASSUME NEW r \in Roots
          PROVE  /\ pages[r] = [next |-> 0, got |-> {}, twice |-> {}]
                 /\ Its(r) = {} /\ Cardinality(Its(r)) = 0
      BY <2>2, <2>4, <2>6
    <3> QED  BY <2>6, <3>1 DEF Standing
  <2> QED  BY <2>1, <2>5, <2>7 DEF Walked
<1>2. Walked => PagesMeetEachOnce
  BY DEF Walked, Standing, PagesMeetEachOnce, NoEventTwice, Its
<1> QED  BY <1>1, <1>2, WalkedStep, PTL DEF ReadingSpec
=============================================================================
