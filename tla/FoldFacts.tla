------------------------------ MODULE FoldFacts ------------------------------
(***************************************************************************)
(* What a loop over a sequence computes: FoldLeft with the body Step, of   *)
(* which the last argument is what the loop does not change.  Modules that *)
(* prove something about a loop of theirs take an instance of this one     *)
(* with the loop's body for Step.                                          *)
(***************************************************************************)
EXTENDS SequenceFacts

CONSTANT Step(_, _, _)

Fold(base, seq, fixed) == FoldLeft(LAMBDA run, item : Step(run, item, fixed), base, seq)

\* The function on sets of places inside FoldLeft, which takes the last first.
Solves(iter, n, base, seq, fixed) ==
    iter = [s \in SUBSET (1..n) |->
               IF s = {} THEN base
               ELSE Step(iter[s \ {Max(s)}], seq[Max(s)], fixed)]

LEMMA FoldIsSolution ==
    ASSUME NEW base, NEW seq, NEW fixed, NEW n, DOMAIN seq = 1..n
    PROVE  Fold(base, seq, fixed) = (CHOOSE iter : Solves(iter, n, base, seq, fixed))[1..n]
BY DEF Fold, FoldLeft, MapThenFoldSet, Solves

LEMMA TheMax ==
    ASSUME NEW n \in Nat, NEW s \in SUBSET (1..n), s # {}
    PROVE  Max(s) \in s /\ \A y \in s : y <= Max(s)
<1>1. PICK x \in s : \A y \in s : y <= x
  BY Maximum
<1>2. (CHOOSE i \in s : \A j \in s : i >= j) \in s
      /\ \A y \in s : y <= (CHOOSE i \in s : \A j \in s : i >= j)
  <2>1. \A i, j \in s : i >= j <=> j <= i
    OBVIOUS
  <2>2. \A j \in s : x >= j
    BY <1>1, <2>1
  <2>3. \E i \in s : \A j \in s : i >= j
    BY <2>2
  <2> QED  BY <2>1, <2>3
<1> QED  BY <1>2 DEF Max

\* A solution for n places is extended to one for n + 1.
LEMMA SolutionExists ==
    ASSUME NEW base, NEW seq, NEW fixed, NEW n \in Nat
    PROVE  \E iter : Solves(iter, n, base, seq, fixed)
<1> DEFINE T == {i \in Nat : \E iter : Solves(iter, i, base, seq, fixed)}
<1>1. 0 \in T
  <2> DEFINE iter == [s \in SUBSET (1..0) |-> base]
  <2>1. \A s \in SUBSET (1..0) : s = {}
    OBVIOUS
  <2>2. Solves(iter, 0, base, seq, fixed)
    BY <2>1 DEF Solves
  <2> QED  BY <2>2
<1>2. ASSUME NEW i \in T
      PROVE  i + 1 \in T
  <2>1. PICK iter : Solves(iter, i, base, seq, fixed)
    OBVIOUS
  <2> DEFINE D == SUBSET (1..(i + 1))
             g == [s \in D |-> IF i + 1 \in s
                               THEN Step(iter[s \ {i + 1}], seq[i + 1], fixed)
                               ELSE iter[s]]
             h == [s \in D |-> IF s = {} THEN base
                               ELSE Step(g[s \ {Max(s)}], seq[Max(s)], fixed)]
  <2>2. ASSUME NEW s \in D
        PROVE  g[s] = h[s]
    <3>1. CASE i + 1 \in s
      <4>1. Max(s) = i + 1
        <5>1. s # {} /\ i + 1 \in Nat
          BY <3>1
        <5>2. Max(s) \in s /\ i + 1 <= Max(s)
          BY <3>1, <5>1, TheMax
        <5>3. Max(s) \in 1..(i + 1)
          BY <5>2
        <5> QED  BY <5>2, <5>3
      <4>2. s \ {i + 1} \in D /\ i + 1 \notin s \ {i + 1}
        OBVIOUS
      <4>3. g[s \ {i + 1}] = iter[s \ {i + 1}]
        BY <4>2
      <4>4. g[s] = Step(iter[s \ {i + 1}], seq[i + 1], fixed)
        BY <3>1
      <4>5. h[s] = Step(g[s \ {Max(s)}], seq[Max(s)], fixed)
        BY <3>1
      <4> QED  BY <4>1, <4>3, <4>4, <4>5
    <3>2. CASE s = {}
      <4>1. iter[s] = base
        BY <2>1, <3>2 DEF Solves
      <4> QED  BY <3>2, <4>1
    <3>3. CASE i + 1 \notin s /\ s # {}
      <4>1. s \in SUBSET (1..i)
        BY <3>3
      <4>2. s \ {Max(s)} \in D /\ i + 1 \notin s \ {Max(s)}
        BY <3>3
      <4>3. g[s] = iter[s] /\ g[s \ {Max(s)}] = iter[s \ {Max(s)}]
        BY <3>3, <4>2
      <4>4. iter[s] = Step(iter[s \ {Max(s)}], seq[Max(s)], fixed)
        BY <2>1, <3>3, <4>1 DEF Solves
      <4>5. h[s] = Step(g[s \ {Max(s)}], seq[Max(s)], fixed)
        BY <3>3
      <4> QED  BY <4>3, <4>4, <4>5
    <3> QED  BY <3>1, <3>2, <3>3
  <2>3. g = h
    <3>1. g = [s \in D |-> g[s]] /\ h = [s \in D |-> h[s]]
      OBVIOUS
    <3> HIDE DEF g, h
    <3>2. [s \in D |-> g[s]] = [s \in D |-> h[s]]
      BY <2>2
    <3> QED  BY <3>1, <3>2
  <2>4. Solves(g, i + 1, base, seq, fixed)
    BY <2>3 DEF Solves
  <2> QED  BY <2>4
<1> HIDE DEF T
<1>3. T = Nat
  BY <1>1, <1>2, Induction DEF T
<1> QED  BY <1>3 DEF T

\* What the loop has after each of n turns: it starts with base, a turn is Step.
Turns(run, n, base, seq, fixed) ==
    /\ run[0] = base
    /\ \A i \in 1..n : run[i] = Step(run[i - 1], seq[i], fixed)

LEMMA FoldUnrolled ==
    ASSUME NEW base, NEW seq, NEW fixed, NEW n \in Nat, DOMAIN seq = 1..n
    PROVE  \E run : Turns(run, n, base, seq, fixed) /\ Fold(base, seq, fixed) = run[n]
<1> DEFINE iter == CHOOSE iter : Solves(iter, n, base, seq, fixed)
           run  == [i \in 0..n |-> iter[1..i]]
<1>1. Solves(iter, n, base, seq, fixed)
  BY SolutionExists
<1>2. Fold(base, seq, fixed) = iter[1..n]
  BY FoldIsSolution
<1> HIDE DEF iter
<1>3. run[0] = base
  <2>1. 1..0 = {} /\ {} \in SUBSET (1..n) /\ 0 \in 0..n
    OBVIOUS
  <2>2. iter[{}] = base
    BY <1>1, <2>1 DEF Solves
  <2> QED  BY <2>1, <2>2
<1>4. ASSUME NEW i \in 1..n
      PROVE  run[i] = Step(run[i - 1], seq[i], fixed)
  <2>1. 1..i \in SUBSET (1..n) /\ 1..i # {} /\ i \in 0..n /\ i - 1 \in 0..n
    OBVIOUS
  <2>2. Max(1..i) = i
    <3>1. i \in Nat /\ i \in 1..i /\ 1..i \in SUBSET (1..i)
      OBVIOUS
    <3>2. Max(1..i) \in 1..i /\ \A j \in 1..i : j <= Max(1..i)
      BY <2>1, <3>1, TheMax
    <3> QED  BY <3>1, <3>2
  <2>3. (1..i) \ {i} = 1..(i - 1)
    OBVIOUS
  <2>4. iter[1..i] = Step(iter[(1..i) \ {Max(1..i)}], seq[Max(1..i)], fixed)
    BY <1>1, <2>1 DEF Solves
  <2> QED  BY <2>1, <2>2, <2>3, <2>4
<1>5. run[n] = iter[1..n]
  OBVIOUS
<1> HIDE DEF run
<1>6. Turns(run, n, base, seq, fixed)
  BY <1>3, <1>4 DEF Turns
<1> QED  BY <1>2, <1>5, <1>6

LEMMA FoldNothing ==
    ASSUME NEW base, NEW fixed
    PROVE  Fold(base, <<>>, fixed) = base
<1>1. DOMAIN <<>> = 1..0 /\ 0 \in Nat
  OBVIOUS
<1>2. PICK run : Turns(run, 0, base, <<>>, fixed) /\ Fold(base, <<>>, fixed) = run[0]
  BY <1>1, FoldUnrolled
<1> QED  BY <1>2 DEF Turns

\* One item more is one turn more.
LEMMA FoldAppend ==
    ASSUME NEW base, NEW seq, IsSequence(seq), NEW item, NEW fixed
    PROVE  Fold(base, Append(seq, item), fixed) = Step(Fold(base, seq, fixed), item, fixed)
<1> DEFINE n == Len(seq)
           longer == Append(seq, item)
<1>1. n \in Nat /\ n + 1 \in Nat /\ DOMAIN seq = 1..n
  BY Places
<1>2. /\ DOMAIN longer = 1..(n + 1)
      /\ \A i \in 1..n : longer[i] = seq[i]
      /\ longer[n + 1] = item
  <2>1. IsSequence(longer) /\ Len(longer) = n + 1
    BY AppendFacts
  <2>2. DOMAIN longer = 1..Len(longer)
    BY <2>1, Places
  <2> QED  BY <2>1, <2>2, AppendFacts
<1> HIDE DEF n, longer
<1>3. PICK run : Turns(run, n, base, seq, fixed) /\ Fold(base, seq, fixed) = run[n]
  BY <1>1, FoldUnrolled
<1>4. PICK next : Turns(next, n + 1, base, longer, fixed)
                  /\ Fold(base, longer, fixed) = next[n + 1]
  BY <1>1, <1>2, FoldUnrolled
<1> DEFINE T == {i \in 0..n : run[i] = next[i]}
<1>5. 0 \in T
  BY <1>1, <1>3, <1>4 DEF Turns
<1>6. ASSUME NEW i \in 1..n, i - 1 \in T
      PROVE  i \in T
  <2>1. i \in 0..n /\ i \in 1..(n + 1) /\ run[i - 1] = next[i - 1]
    BY <1>1, <1>6
  <2>2. run[i] = Step(run[i - 1], seq[i], fixed) /\ next[i] = Step(next[i - 1], longer[i], fixed)
    BY <1>3, <1>4, <2>1 DEF Turns
  <2> QED  BY <1>2, <2>1, <2>2
<1> HIDE DEF T
<1>7. 0..n \subseteq T
  BY <1>1, <1>5, <1>6, InductionUpTo
<1>8. run[n] = next[n]
  BY <1>1, <1>7 DEF T
<1>9. next[n + 1] = Step(next[n], longer[n + 1], fixed)
  <2>1. n + 1 \in 1..(n + 1) /\ (n + 1) - 1 = n
    BY <1>1
  <2>2. \A i \in 1..(n + 1) : next[i] = Step(next[i - 1], longer[i], fixed)
    BY <1>4 DEF Turns
  <2> QED  BY <2>1, <2>2
<1> QED  BY <1>2, <1>3, <1>4, <1>8, <1>9 DEF longer

\* A loop over two sequences in a row goes on from where the first left off.
LEMMA FoldConcat ==
    ASSUME NEW base, NEW s, IsSequence(s), NEW t, IsSequence(t), NEW fixed
    PROVE  Fold(base, s \o t, fixed) = Fold(Fold(base, s, fixed), t, fixed)
<1> DEFINE n == Len(t)
           front(j) == SubSeq(t, 1, j)
           half == Fold(base, s, fixed)
           T == {j \in 0..n : Fold(base, s \o front(j), fixed) = Fold(half, front(j), fixed)}
<1>1. n \in Nat
  BY Places
<1>2. 0 \in T
  <2>1. front(0) = <<>>
    BY WholeFront
  <2>2. s \o <<>> = s
    BY EmptyIsSequence, ConcatFacts
  <2>3. Fold(half, <<>>, fixed) = half
    BY FoldNothing
  <2> HIDE DEF front
  <2>4. Fold(base, s \o front(0), fixed) = Fold(half, front(0), fixed)
    BY <2>1, <2>2, <2>3
  <2> QED  BY <1>1, <2>4
<1>3. ASSUME NEW j \in 1..n, j - 1 \in T
      PROVE  j \in T
  <2>1. j \in 0..n /\ j - 1 \in 0..n
    BY <1>1
  <2>2. front(j) = Append(front(j - 1), t[j]) /\ IsSequence(front(j - 1))
    BY <2>1, FrontGrows, FrontFacts
  <2> DEFINE f == front(j - 1)
             g == s \o f
  <2> HIDE DEF front
  <2>3. s \o Append(f, t[j]) = Append(g, t[j]) /\ IsSequence(g)
    BY <2>2, ConcatAppend, ConcatFacts
  <2>4. Fold(base, g, fixed) = Fold(half, f, fixed)
    BY <1>3
  <2>5. IsSequence(f)
    BY <2>2
  <2> HIDE DEF f, g, half
  <2>6. Fold(base, Append(g, t[j]), fixed) = Step(Fold(base, g, fixed), t[j], fixed)
    BY <2>3, FoldAppend
  <2>7. Fold(half, Append(f, t[j]), fixed) = Step(Fold(half, f, fixed), t[j], fixed)
    BY <2>5, FoldAppend
  <2>8. Fold(base, s \o front(j), fixed) = Fold(half, front(j), fixed)
    BY <2>2, <2>3, <2>4, <2>6, <2>7 DEF f, g
  <2> QED  BY <2>1, <2>8
<1> HIDE DEF T
<1>4. 0..n \subseteq T
  BY <1>1, <1>2, <1>3, InductionUpTo
<1>5. n \in T
  BY <1>1, <1>4
<1> QED  BY <1>5, WholeFront DEF T
=============================================================================
