--------------------------- MODULE SequenceFacts ---------------------------
(***************************************************************************)
(* What the proofs about the components need to know of recursive          *)
(* functions on sequences: what Picked and FlattenSeq compute, for every   *)
(* sequence.                                                               *)
(*                                                                         *)
(* A recursive function is a CHOOSE, about which nothing is known until a  *)
(* solution of its equation is shown to exist.  Induction is done with the *)
(* set of numbers for which a statement holds: it holds 0, and with a      *)
(* number the next, and so is all of them (Induction, InductionUpTo).      *)
(***************************************************************************)
EXTENDS EventBooks, SequencesExt, SequenceTheorems, WellFoundedInduction, TLAPS

-----------------------------------------------------------------------------
(* Least and greatest numbers. *)

\* A set of numbers that is not empty has a least one.
LEMMA Minimum ==
    ASSUME NEW T \in SUBSET Nat, T # {}
    PROVE  \E x \in T : \A y \in T : x <= y
<1>1. PICK x \in T : \A y \in T : ~(<<y, x>> \in OpToRel(<, Nat))
  BY WFMin, NatLessThanWellFounded, Zenon
<1>2. ASSUME NEW y \in T
      PROVE  ~(y < x)
  <2>1. y \in Nat /\ x \in Nat
    OBVIOUS
  <2>2. y < x => <<y, x>> \in OpToRel(<, Nat)
    BY <2>1, Zenon DEF OpToRel
  <2> QED  BY <1>1, <2>2
<1>3. \A y \in T : x <= y
  BY <1>2
<1> QED  BY <1>3

\* A bounded set of numbers that is not empty has a greatest one.
LEMMA Maximum ==
    ASSUME NEW n \in Nat, NEW T \in SUBSET (1..n), T # {}
    PROVE  \E x \in T : \A y \in T : y <= x
<1> DEFINE U == {n - y : y \in T}
<1>1. U \in SUBSET Nat /\ U # {}
  <2>1. \A y \in T : n - y \in Nat
    <3> TAKE y \in T
    <3>1. y \in 1..n
      OBVIOUS
    <3> QED  BY <3>1
  <2>2. U \in SUBSET Nat
    BY <2>1
  <2>3. PICK y \in T : TRUE
    OBVIOUS
  <2>4. n - y \in U
    BY <2>3
  <2> QED  BY <2>2, <2>4
<1>2. PICK u \in U : \A v \in U : u <= v
  BY <1>1, Minimum
<1>3. PICK x \in T : u = n - x
  OBVIOUS
<1>4. ASSUME NEW y \in T
      PROVE  y <= x
  <2>1. n - y \in U
    OBVIOUS
  <2>2. n - x <= n - y
    BY <1>2, <1>3, <2>1
  <2>3. x \in 1..n /\ y \in 1..n
    OBVIOUS
  <2> QED  BY <2>2, <2>3
<1> QED  BY <1>4

LEMMA TheMinimum ==
    ASSUME NEW T \in SUBSET Nat, NEW x \in T, \A y \in T : x <= y
    PROVE  (CHOOSE i \in T : \A j \in T : i <= j) = x
<1>1. ASSUME NEW i \in T, \A j \in T : i <= j
      PROVE  i = x
  <2>1. i \in Nat /\ x \in Nat /\ i <= x /\ x <= i
    BY <1>1
  <2> QED  BY <2>1
<1> QED  BY <1>1

LEMMA TheMaximum ==
    ASSUME NEW T \in SUBSET Nat, NEW x \in T, \A y \in T : y <= x
    PROVE  (CHOOSE i \in T : \A j \in T : j <= i) = x
<1>1. ASSUME NEW i \in T, \A j \in T : j <= i
      PROVE  i = x
  <2>1. i \in Nat /\ x \in Nat /\ i <= x /\ x <= i
    BY <1>1
  <2> QED  BY <2>1
<1> QED  BY <1>1

-----------------------------------------------------------------------------
(* Induction. *)

LEMMA Induction ==
    ASSUME NEW T \in SUBSET Nat, 0 \in T, \A i \in T : i + 1 \in T
    PROVE  T = Nat
<1> SUFFICES ASSUME Nat \ T # {} PROVE FALSE
  OBVIOUS
<1>1. PICK x \in Nat \ T : \A y \in Nat \ T : x <= y
  BY Minimum
<1>2. x # 0 /\ x - 1 \in Nat
  BY <1>1
<1>3. x - 1 \in T
  BY <1>1, <1>2
<1>4. (x - 1) + 1 = x
  BY <1>1
<1> QED  BY <1>1, <1>3, <1>4

LEMMA InductionUpTo ==
    ASSUME NEW n \in Nat, NEW T, 0 \in T,
           \A i \in 1..n : i - 1 \in T => i \in T
    PROVE  0..n \subseteq T
<1> DEFINE U == {i \in Nat : i <= n => i \in T}
<1>1. U \in SUBSET Nat /\ 0 \in U
  OBVIOUS
<1>2. ASSUME NEW i \in U
      PROVE  i + 1 \in U
  <2> SUFFICES ASSUME i + 1 <= n PROVE i + 1 \in T
    OBVIOUS
  <2>1. i \in Nat /\ i <= n /\ i \in T
    OBVIOUS
  <2>2. i + 1 \in 1..n /\ (i + 1) - 1 = i
    BY <2>1
  <2> QED  BY <2>1, <2>2
<1> HIDE DEF U
<1>3. U = Nat
  BY <1>1, <1>2, Induction
<1> QED  BY <1>3 DEF U

-----------------------------------------------------------------------------
(***************************************************************************)
(* Sequences of anything.  The library's theorems are about the sequences  *)
(* over a set; which set it is matters to none of the proofs, and a user's *)
(* handler may return what it likes.                                       *)
(***************************************************************************)
IsSequence(s) == s \in Seq(ToSet(s))

LEMMA InSeq ==
    ASSUME NEW s, IsSequence(s), NEW S, ToSet(s) \subseteq S
    PROVE  s \in Seq(S)
BY SeqMonotonic DEF IsSequence

LEMMA SeqIsSequence ==
    ASSUME NEW S, NEW s \in Seq(S)
    PROVE  IsSequence(s) /\ ToSet(s) \subseteq S
<1>1. s \in Seq(Range(s)) /\ Range(s) \subseteq S
  BY SeqOfRange, RangeOfSeq
<1>2. Range(s) = ToSet(s)
  BY DEF Range, ToSet
<1> QED  BY <1>1, <1>2 DEF IsSequence

LEMMA Places ==
    ASSUME NEW s, IsSequence(s)
    PROVE  /\ Len(s) \in Nat
           /\ DOMAIN s = 1..Len(s)
           /\ s = [i \in 1..Len(s) |-> s[i]]
           /\ \A i \in 1..Len(s) : s[i] \in ToSet(s)
BY LenProperties DEF IsSequence

LEMMA EmptyIsSequence == IsSequence(<<>>) /\ Len(<<>>) = 0
BY EmptySeq DEF IsSequence

LEMMA Made ==
    ASSUME NEW n \in Nat, NEW f, f = [i \in 1..n |-> f[i]]
    PROVE  IsSequence(f) /\ Len(f) = n
<1> DEFINE S == ToSet(f)
<1>1. DOMAIN f = 1..n
  OBVIOUS
<1>2. \A i \in 1..n : f[i] \in S
  BY <1>1 DEF ToSet
<1>3. f \in [1..n -> S]
  <2>1. [i \in 1..n |-> f[i]] \in [1..n -> S]
    BY <1>2
  <2> QED  BY <2>1
<1>4. f \in Seq(S)
  BY <1>3, SeqDef
<1>5. Len(f) \in Nat /\ DOMAIN f = 1..Len(f)
  BY <1>4, LenProperties
<1>6. Len(f) = n
  BY <1>1, <1>5
<1> QED  BY <1>4, <1>6 DEF IsSequence

LEMMA SameSequence ==
    ASSUME NEW s, NEW t, IsSequence(s), IsSequence(t), Len(s) = Len(t),
           \A i \in 1..Len(s) : s[i] = t[i]
    PROVE  s = t
<1> DEFINE S == ToSet(s) \cup ToSet(t)
<1>1. s \in Seq(S) /\ t \in Seq(S)
  BY InSeq
<1> HIDE DEF S
<1> QED  BY <1>1, SeqEqual

LEMMA EmptyIffNoPlace ==
    ASSUME NEW s, IsSequence(s)
    PROVE  s = <<>> <=> Len(s) = 0
BY EmptySeq DEF IsSequence

LEMMA ConcatFacts ==
    ASSUME NEW s, NEW t, IsSequence(s), IsSequence(t)
    PROVE  /\ IsSequence(s \o t)
           /\ Len(s \o t) = Len(s) + Len(t)
           /\ \A i \in 1..Len(s) : (s \o t)[i] = s[i]
           /\ \A i \in 1..Len(t) : (s \o t)[Len(s) + i] = t[i]
           /\ s \o <<>> = s
           /\ <<>> \o t = t
<1> DEFINE S == ToSet(s) \cup ToSet(t)
<1>1. s \in Seq(S) /\ t \in Seq(S)
  BY InSeq
<1> HIDE DEF S
<1>2. Len(s) \in Nat /\ Len(t) \in Nat
  BY Places
<1>3. s \o t \in Seq(S) /\ Len(s \o t) = Len(s) + Len(t)
  BY <1>1, ConcatProperties
<1>4. \A i \in 1 .. Len(s) + Len(t) :
         (s \o t)[i] = IF i <= Len(s) THEN s[i] ELSE t[i - Len(s)]
  BY <1>1, ConcatProperties
<1>5. ASSUME NEW i \in 1..Len(s)
      PROVE  (s \o t)[i] = s[i]
  BY <1>2, <1>4
<1>6. ASSUME NEW i \in 1..Len(t)
      PROVE  (s \o t)[Len(s) + i] = t[i]
  <2>1. Len(s) + i \in 1..Len(s) + Len(t) /\ ~(Len(s) + i <= Len(s)) /\ (Len(s) + i) - Len(s) = i
    BY <1>2
  <2> QED  BY <1>4, <2>1
<1>7. s \o <<>> = s /\ <<>> \o t = t
  BY <1>1, ConcatEmptySeq
<1> QED  BY <1>3, <1>5, <1>6, <1>7, SeqIsSequence

LEMMA ConcatTwice ==
    ASSUME NEW s, NEW t, NEW u, IsSequence(s), IsSequence(t), IsSequence(u)
    PROVE  (s \o t) \o u = s \o (t \o u)
<1> DEFINE S == ToSet(s) \cup ToSet(t) \cup ToSet(u)
<1>1. s \in Seq(S) /\ t \in Seq(S) /\ u \in Seq(S)
  BY InSeq
<1> HIDE DEF S
<1> QED  BY <1>1, ConcatAssociative

Associate(s, t, u) == (s \o t) \o u = s \o (t \o u)

LEMMA ConcatAssociates ==
    ASSUME NEW s, NEW t, NEW u, IsSequence(s), IsSequence(t), IsSequence(u)
    PROVE  Associate(s, t, u)
BY ConcatTwice DEF Associate

LEMMA AppendFacts ==
    ASSUME NEW s, IsSequence(s), NEW e
    PROVE  /\ IsSequence(Append(s, e))
           /\ Len(Append(s, e)) = Len(s) + 1
           /\ \A i \in 1..Len(s) : Append(s, e)[i] = s[i]
           /\ Append(s, e)[Len(s) + 1] = e
           /\ Append(s, e) = s \o <<e>>
           /\ IsSequence(<<e>>)
<1> DEFINE S == ToSet(s) \cup {e}
<1>1. s \in Seq(S) /\ e \in S
  BY InSeq
<1> HIDE DEF S
<1>2. <<e>> \in Seq(S)
  BY <1>1
<1>3. Append(s, e) \in Seq(S) /\ Len(Append(s, e)) = Len(s) + 1
      /\ (\A i \in 1..Len(s) : Append(s, e)[i] = s[i])
      /\ Append(s, e)[Len(s) + 1] = e
  BY <1>1, AppendProperties
<1>4. Append(s, e) = s \o <<e>>
  BY <1>1, AppendIsConcat
<1>5. IsSequence(<<e>>) /\ IsSequence(Append(s, e))
  BY <1>2, <1>3, SeqIsSequence
<1> QED  BY <1>3, <1>4, <1>5

LEMMA ConcatAppend ==
    ASSUME NEW s, NEW t, IsSequence(s), IsSequence(t), NEW e
    PROVE  s \o Append(t, e) = Append(s \o t, e)
<1>1. IsSequence(<<e>>) /\ Append(t, e) = t \o <<e>>
  BY AppendFacts
<1>2. IsSequence(s \o t)
  BY ConcatFacts
<1>3. Append(s \o t, e) = (s \o t) \o <<e>>
  BY <1>2, AppendFacts
<1> QED  BY <1>1, <1>3, ConcatTwice

LEMMA FrontFacts ==
    ASSUME NEW s, IsSequence(s), NEW n \in 0..Len(s)
    PROVE  /\ IsSequence(SubSeq(s, 1, n))
           /\ Len(SubSeq(s, 1, n)) = n
           /\ \A i \in 1..n : SubSeq(s, 1, n)[i] = s[i]
<1> DEFINE S == ToSet(s)
<1>1. s \in Seq(S) /\ Len(s) \in Nat
  BY Places DEF IsSequence
<1>2. \A i \in 1..n : s[i] \in S
  BY <1>1, ElementOfSeq
<1> HIDE DEF S
<1>3. SubSeq(s, 1, n) \in Seq(S)
      /\ Len(SubSeq(s, 1, n)) = (IF 1 <= n THEN n - 1 + 1 ELSE 0)
      /\ \A i \in 1 .. n - 1 + 1 : SubSeq(s, 1, n)[i] = s[1 + i - 1]
  BY <1>2, SubSeqProperties
<1>4. n - 1 + 1 = n /\ \A i \in 1..n : 1 + i - 1 = i
  BY <1>1
<1>5. ~(1 <= n) => n = 0
  BY <1>1
<1> QED  BY <1>3, <1>4, <1>5, SeqIsSequence

LEMMA RestFacts ==
    ASSUME NEW s, IsSequence(s), NEW n \in 0..Len(s)
    PROVE  /\ IsSequence(SubSeq(s, n + 1, Len(s)))
           /\ Len(SubSeq(s, n + 1, Len(s))) = Len(s) - n
           /\ \A i \in 1..(Len(s) - n) : SubSeq(s, n + 1, Len(s))[i] = s[n + i]
<1> DEFINE S == ToSet(s)
           l == Len(s)
           m == n + 1
           rest == SubSeq(s, m, l)
<1>1. s \in Seq(S) /\ l \in Nat /\ m \in Int /\ m = n + 1
  BY Places DEF IsSequence
<1>2. \A i \in m..l : s[i] \in S
  BY <1>1, ElementOfSeq
<1> HIDE DEF S, l, m
<1>3. rest \in Seq(S)
      /\ Len(rest) = (IF m <= l THEN l - m + 1 ELSE 0)
      /\ \A i \in 1 .. l - m + 1 : rest[i] = s[m + i - 1]
  BY <1>1, <1>2, SubSeqProperties
<1> HIDE DEF rest
<1>4. n \in 0..l
  BY DEF l
<1>5. Len(rest) = l - n /\ l - m + 1 = l - n
  BY <1>1, <1>3, <1>4
<1>6. ASSUME NEW i \in 1..(l - n)
      PROVE  rest[i] = s[n + i]
  <2>1. m + i - 1 = n + i
    BY <1>1, <1>4
  <2> QED  BY <1>3, <1>5, <2>1
<1> QED  BY <1>3, <1>5, <1>6, SeqIsSequence DEF rest, l, m

LEMMA WholeFront ==
    ASSUME NEW s, IsSequence(s)
    PROVE  SubSeq(s, 1, Len(s)) = s /\ SubSeq(s, 1, 0) = <<>>
<1>1. SubSeq(s, 1, Len(s)) = s
  BY SubSeqFull DEF IsSequence
<1>2. SubSeq(s, 1, 0) = <<>>
  BY SubSeqEmpty
<1> QED  BY <1>1, <1>2

LEMMA FrontGrows ==
    ASSUME NEW s, IsSequence(s), NEW n \in 1..Len(s)
    PROVE  SubSeq(s, 1, n) = Append(SubSeq(s, 1, n - 1), s[n])
<1>1. Len(s) \in Nat /\ n \in 0..Len(s) /\ n - 1 \in 0..Len(s) /\ (n - 1) + 1 = n
  BY Places
<1> DEFINE f == SubSeq(s, 1, n)
           g == SubSeq(s, 1, n - 1)
<1>2. IsSequence(f) /\ Len(f) = n /\ \A i \in 1..n : f[i] = s[i]
  BY <1>1, FrontFacts
<1>3. IsSequence(g) /\ Len(g) = n - 1 /\ \A i \in 1..(n - 1) : g[i] = s[i]
  BY <1>1, FrontFacts
<1> HIDE DEF f, g
<1>4. IsSequence(Append(g, s[n])) /\ Len(Append(g, s[n])) = n
      /\ (\A i \in 1..(n - 1) : Append(g, s[n])[i] = g[i]) /\ Append(g, s[n])[n] = s[n]
  <2>1. IsSequence(Append(g, s[n])) /\ Len(Append(g, s[n])) = Len(g) + 1
        /\ (\A i \in 1..Len(g) : Append(g, s[n])[i] = g[i])
        /\ Append(g, s[n])[Len(g) + 1] = s[n]
    BY <1>3, AppendFacts
  <2> QED  BY <1>1, <1>3, <2>1
<1>5. ASSUME NEW i \in 1..Len(f)
      PROVE  f[i] = Append(g, s[n])[i]
  <2>1. i \in 1..n /\ (i = n \/ i \in 1..(n - 1))
    BY <1>2
  <2> QED  BY <1>2, <1>3, <1>4, <2>1
<1>6. f = Append(g, s[n])
  BY <1>2, <1>4, <1>5, SameSequence
<1> QED  BY <1>6 DEF f, g

\* A piece of k to n further.
LEMMA PieceFacts ==
    ASSUME NEW S, NEW s \in Seq(S), NEW k \in Nat, NEW n \in Nat, k + n <= Len(s)
    PROVE  /\ SubSeq(s, k + 1, k + n) \in Seq(S)
           /\ Len(SubSeq(s, k + 1, k + n)) = n
           /\ \A i \in 1..n : SubSeq(s, k + 1, k + n)[i] = s[k + i]
<1> DEFINE m == k + 1
           l == k + n
           piece == SubSeq(s, m, l)
<1>1. m \in Int /\ l \in Int /\ \A i \in m..l : s[i] \in S
  OBVIOUS
<1> HIDE DEF piece
<1>2. /\ piece \in Seq(S)
      /\ Len(piece) = (IF m <= l THEN l - m + 1 ELSE 0)
      /\ \A i \in 1 .. l - m + 1 : piece[i] = s[m + i - 1]
  <2> HIDE DEF m, l
  <2> QED  BY <1>1, SubSeqProperties DEF piece
<1>3. Len(piece) = n /\ l - m + 1 = n
  BY <1>2
<1>4. ASSUME NEW i \in 1..n
      PROVE  piece[i] = s[k + i]
  <2>1. m + i - 1 = k + i
    OBVIOUS
  <2> QED  BY <1>2, <1>3, <2>1
<1> QED  BY <1>2, <1>3, <1>4 DEF piece

\* A sequence made place by place, of one place more.
LEMMA MadeGrows ==
    ASSUME NEW n \in Nat, NEW f, f = [i \in 1..n |-> f[i]],
           NEW g, g = [i \in 1..(n + 1) |-> g[i]], \A i \in 1..n : g[i] = f[i]
    PROVE  IsSequence(f) /\ IsSequence(g) /\ g = Append(f, g[n + 1])
<1> DEFINE h == Append(f, g[n + 1])
<1>1. IsSequence(f) /\ Len(f) = n
  BY Made
<1>2. IsSequence(g) /\ Len(g) = n + 1
  <2>1. n + 1 \in Nat
    OBVIOUS
  <2> QED  BY <2>1, Made
<1>3. (\A i \in 1..n : h[i] = f[i]) /\ h[n + 1] = g[n + 1]
  BY <1>1, AppendFacts
<1>4. IsSequence(h) /\ Len(h) = n + 1
  BY <1>1, AppendFacts
<1> HIDE DEF h
<1>5. \A i \in 1..(n + 1) : g[i] = h[i]
  <2> TAKE i \in 1..(n + 1)
  <2>1. i \in 1..n \/ i = n + 1
    OBVIOUS
  <2> QED  BY <1>3, <2>1
<1>6. g = h
  BY <1>2, <1>4, <1>5, SameSequence
<1> QED  BY <1>1, <1>2, <1>6 DEF h

LEMMA FrontOfConcat ==
    ASSUME NEW s, NEW t, IsSequence(s), IsSequence(t), NEW n \in 0..Len(s)
    PROVE  SubSeq(s \o t, 1, n) = SubSeq(s, 1, n)
<1> DEFINE f == SubSeq(s \o t, 1, n)
           g == SubSeq(s, 1, n)
<1>1. IsSequence(s \o t) /\ Len(s \o t) = Len(s) + Len(t)
      /\ \A i \in 1..Len(s) : (s \o t)[i] = s[i]
  BY ConcatFacts
<1>2. Len(s) \in Nat /\ Len(t) \in Nat
  BY Places
<1>3. n \in 0..Len(s \o t)
  BY <1>1, <1>2
<1>4. IsSequence(f) /\ Len(f) = n /\ \A i \in 1..n : f[i] = (s \o t)[i]
  BY <1>1, <1>3, FrontFacts
<1>5. IsSequence(g) /\ Len(g) = n /\ \A i \in 1..n : g[i] = s[i]
  BY FrontFacts
<1> HIDE DEF f, g
<1>6. ASSUME NEW i \in 1..Len(f)
      PROVE  f[i] = g[i]
  <2>1. i \in 1..n /\ i \in 1..Len(s)
    BY <1>2, <1>4
  <2> QED  BY <1>1, <1>4, <1>5, <2>1
<1>7. f = g
  BY <1>4, <1>5, <1>6, SameSequence
<1> QED  BY <1>7 DEF f, g

-----------------------------------------------------------------------------
(* Picked. *)

Picks(f, s, places, n) ==
    f = [i \in 0..n |->
            IF i = 0 THEN <<>>
            ELSE IF i \in places THEN Append(f[i - 1], s[i]) ELSE f[i - 1]]

\* The function inside Picked exists.
LEMMA PicksExists ==
    ASSUME NEW s, NEW places, NEW n \in Nat
    PROVE  \E f : Picks(f, s, places, n)
<1> DEFINE T == {i \in Nat : \E f : Picks(f, s, places, i)}
<1>1. 0 \in T
  <2> DEFINE f == [i \in 0..0 |-> <<>>]
  <2>1. Picks(f, s, places, 0)
    BY DEF Picks
  <2> QED  BY <2>1
<1>2. ASSUME NEW i \in T
      PROVE  i + 1 \in T
  <2>1. PICK f : Picks(f, s, places, i)
    OBVIOUS
  <2> DEFINE next == IF i + 1 \in places THEN Append(f[i], s[i + 1]) ELSE f[i]
             g == [k \in 0..(i + 1) |-> IF k = i + 1 THEN next ELSE f[k]]
             h == [k \in 0..(i + 1) |->
                      IF k = 0 THEN <<>>
                      ELSE IF k \in places THEN Append(g[k - 1], s[k]) ELSE g[k - 1]]
  <2>2. ASSUME NEW k \in 0..(i + 1)
        PROVE  g[k] = h[k]
    <3>1. CASE k = i + 1
      <4>1. k # 0 /\ k - 1 = i /\ i \in 0..(i + 1) /\ i # i + 1
        BY <3>1
      <4>2. g[k - 1] = f[i] /\ g[k] = next
        BY <3>1, <4>1
      <4> QED  BY <3>1, <4>1, <4>2
    <3>2. CASE k = 0
      BY <2>1, <3>2 DEF Picks
    <3>3. CASE k # i + 1 /\ k # 0
      <4>1. k \in 0..i /\ k - 1 \in 0..(i + 1) /\ k - 1 # i + 1
        BY <3>3
      <4>2. g[k] = f[k] /\ g[k - 1] = f[k - 1]
        BY <3>3, <4>1
      <4>3. f[k] = IF k \in places THEN Append(f[k - 1], s[k]) ELSE f[k - 1]
        BY <2>1, <3>3, <4>1 DEF Picks
      <4> QED  BY <3>3, <4>2, <4>3
    <3> QED  BY <3>1, <3>2, <3>3
  <2>3. g = h
    <3>1. g = [k \in 0..(i + 1) |-> g[k]] /\ h = [k \in 0..(i + 1) |-> h[k]]
      OBVIOUS
    <3> HIDE DEF g, h
    <3>2. [k \in 0..(i + 1) |-> g[k]] = [k \in 0..(i + 1) |-> h[k]]
      BY <2>2
    <3> QED  BY <3>1, <3>2
  <2>4. Picks(g, s, places, i + 1)
    BY <2>3 DEF Picks
  <2> QED  BY <2>4
<1> HIDE DEF T
<1>3. T = Nat
  BY <1>1, <1>2, Induction DEF T
<1> QED  BY <1>3 DEF T

LEMMA PicksTurns ==
    ASSUME NEW f, NEW s, NEW places, NEW n \in Nat, Picks(f, s, places, n)
    PROVE  /\ f[0] = <<>>
           /\ \A i \in 1..n : f[i] = IF i \in places THEN Append(f[i - 1], s[i])
                                     ELSE f[i - 1]
<1>1. 0 \in 0..n /\ \A i \in 1..n : i \in 0..n /\ i # 0
  OBVIOUS
<1> QED  BY <1>1 DEF Picks

LEMMA PicksAgree ==
    ASSUME NEW f, NEW s, NEW K, NEW m \in Nat, Picks(f, s, K, m),
           NEW g, NEW t, NEW L, NEW n \in Nat, Picks(g, t, L, n),
           NEW j \in Nat, j <= m, j <= n,
           \A i \in 1..j : s[i] = t[i] /\ (i \in K <=> i \in L)
    PROVE  f[j] = g[j]
<1> DEFINE T == {i \in 0..j : f[i] = g[i]}
<1>1. 0 \in T
  <2>1. f[0] = <<>> /\ g[0] = <<>>
    BY PicksTurns
  <2> QED  BY <2>1
<1>2. ASSUME NEW i \in 1..j, i - 1 \in T
      PROVE  i \in T
  <2>1. i \in 1..m /\ i \in 1..n /\ i \in 0..j
    OBVIOUS
  <2>2. f[i] = (IF i \in K THEN Append(f[i - 1], s[i]) ELSE f[i - 1])
        /\ g[i] = (IF i \in L THEN Append(g[i - 1], t[i]) ELSE g[i - 1])
    BY <2>1, PicksTurns
  <2>3. f[i - 1] = g[i - 1]
    BY <1>2
  <2> QED  BY <2>1, <2>2, <2>3
<1> HIDE DEF T
<1>3. 0..j \subseteq T
  BY <1>1, <1>2, InductionUpTo
<1>4. j \in T
  BY <1>3
<1> QED  BY <1>4 DEF T

\* Only what the places say of the sequence's own places matters.
LEMMA PickedAgree ==
    ASSUME NEW s, IsSequence(s), NEW K, NEW L,
           \A i \in 1..Len(s) : i \in K <=> i \in L
    PROVE  Picked(s, K) = Picked(s, L)
<1> DEFINE f == CHOOSE f : Picks(f, s, K, Len(s))
           g == CHOOSE g : Picks(g, s, L, Len(s))
<1>1. Len(s) \in Nat
  BY Places
<1>2. Picks(f, s, K, Len(s)) /\ Picks(g, s, L, Len(s))
  BY <1>1, PicksExists
<1>3. Picked(s, K) = f[Len(s)] /\ Picked(s, L) = g[Len(s)]
  BY DEF Picked, Picks
<1> HIDE DEF f, g
<1>4. f[Len(s)] = g[Len(s)]
  BY <1>1, <1>2, PicksAgree
<1> QED  BY <1>3, <1>4

LEMMA PickedNothing ==
    ASSUME NEW K
    PROVE  Picked(<<>>, K) = <<>>
<1> DEFINE f == CHOOSE f : Picks(f, <<>>, K, 0)
<1>1. Picks(f, <<>>, K, 0)
  BY PicksExists
<1>2. Picked(<<>>, K) = f[0]
  BY EmptyIsSequence DEF Picked, Picks
<1> HIDE DEF f
<1> QED  BY <1>1, <1>2, PicksTurns

LEMMA PickedAppend ==
    ASSUME NEW s, IsSequence(s), NEW e, NEW K
    PROVE  Picked(Append(s, e), K) =
             IF Len(s) + 1 \in K THEN Append(Picked(s, K), e) ELSE Picked(s, K)
<1> DEFINE n == Len(s)
           t == Append(s, e)
           f == CHOOSE f : Picks(f, s, K, n)
           g == CHOOSE g : Picks(g, t, K, n + 1)
<1>1. n \in Nat /\ n + 1 \in Nat
  BY Places
<1>2. Picks(f, s, K, n) /\ Picks(g, t, K, n + 1)
  BY <1>1, PicksExists
<1>3. Len(t) = n + 1 /\ (\A i \in 1..n : t[i] = s[i]) /\ t[n + 1] = e
  BY AppendFacts
<1>4. Picked(s, K) = f[n]
  BY DEF Picked, Picks
<1>5. Picked(t, K) = g[n + 1]
  BY <1>3 DEF Picked, Picks
<1> HIDE DEF f, g, t, n
<1>6. f[n] = g[n]
  <2>1. n <= n /\ n <= n + 1
    BY <1>1
  <2> QED  BY <1>1, <1>2, <1>3, <2>1, PicksAgree
<1>7. g[n + 1] = IF n + 1 \in K THEN Append(g[n], t[n + 1]) ELSE g[n]
  <2>1. n + 1 \in 1..(n + 1) /\ (n + 1) - 1 = n
    BY <1>1
  <2> QED  BY <1>1, <1>2, <2>1, PicksTurns
<1> QED  BY <1>3, <1>4, <1>5, <1>6, <1>7 DEF n, t

LEMMA PickedIsSequence ==
    ASSUME NEW s, IsSequence(s), NEW K
    PROVE  IsSequence(Picked(s, K))
<1> DEFINE n == Len(s)
           T == {j \in 0..n : IsSequence(Picked(SubSeq(s, 1, j), K))}
<1>1. n \in Nat
  BY Places
<1>2. 0 \in T
  <2>1. IsSequence(Picked(SubSeq(s, 1, 0), K))
    BY WholeFront, PickedNothing, EmptyIsSequence
  <2> QED  BY <1>1, <2>1
<1>3. ASSUME NEW j \in 1..n, j - 1 \in T
      PROVE  j \in T
  <2> DEFINE u == SubSeq(s, 1, j - 1)
  <2>1. SubSeq(s, 1, j) = Append(u, s[j])
    BY FrontGrows
  <2>2. j \in 0..n /\ j - 1 \in 0..n
    BY <1>1
  <2>3. IsSequence(u) /\ IsSequence(Picked(u, K))
    BY <1>3, <2>2, FrontFacts
  <2> HIDE DEF u
  <2>4. IsSequence(Append(Picked(u, K), s[j]))
    BY <2>3, AppendFacts
  <2>5. Picked(Append(u, s[j]), K) \in {Append(Picked(u, K), s[j]), Picked(u, K)}
    BY <2>3, PickedAppend
  <2> QED  BY <2>1, <2>2, <2>3, <2>4, <2>5
<1> HIDE DEF T
<1>4. 0..n \subseteq T
  BY <1>1, <1>2, <1>3, InductionUpTo
<1>5. n \in T
  BY <1>1, <1>4
<1> QED  BY <1>5, WholeFront DEF T

\* The places of K behind s, as places of t.
Beyond(s, t, K) == {i \in 1..Len(t) : Len(s) + i \in K}

\* Of a sequence and another: what is picked of each, one after the other.
LEMMA PickedConcat ==
    ASSUME NEW s, IsSequence(s), NEW t, IsSequence(t), NEW K
    PROVE  Picked(s \o t, K) = Picked(s, K) \o Picked(t, Beyond(s, t, K))
<1> DEFINE n == Len(t)
           L == Beyond(s, t, K)
<1>1. n \in Nat /\ Len(s) \in Nat
  BY Places
<1>2. \A u, J : IsSequence(u) => IsSequence(Picked(u, J))
  BY PickedIsSequence
<1> DEFINE V == {j \in 0..n : Picked(s \o SubSeq(t, 1, j), K) = Picked(s, K) \o Picked(SubSeq(t, 1, j), L)}
<1>3. 0 \in V
  <2>1. s \o <<>> = s /\ Picked(s, K) \o <<>> = Picked(s, K)
    BY <1>2, ConcatFacts, EmptyIsSequence
  <2>2. SubSeq(t, 1, 0) = <<>> /\ Picked(<<>>, L) = <<>>
    BY WholeFront, PickedNothing
  <2>3. Picked(s \o SubSeq(t, 1, 0), K) = Picked(s, K) \o Picked(SubSeq(t, 1, 0), L)
    BY <2>1, <2>2
  <2>4. 0 \in 0..n
    BY <1>1
  <2> HIDE DEF L
  <2> QED  BY <2>3, <2>4
<1>4. ASSUME NEW j \in 1..n, j - 1 \in V
      PROVE  j \in V
  <2> DEFINE u == SubSeq(t, 1, j - 1)
  <2>1. SubSeq(t, 1, j) = Append(u, t[j])
    BY FrontGrows
  <2>2. j \in 0..n /\ j - 1 \in 0..n
    BY <1>1
  <2>3. IsSequence(u) /\ Len(u) = j - 1
    BY <2>2, FrontFacts
  <2>4. Picked(s \o u, K) = Picked(s, K) \o Picked(u, L)
    BY <1>4
  <2> HIDE DEF u, L
  <2>5. s \o Append(u, t[j]) = Append(s \o u, t[j])
    BY <2>3, ConcatAppend
  <2>6. IsSequence(s \o u) /\ Len(s \o u) = Len(s) + (j - 1)
    BY <2>3, ConcatFacts
  <2>7. Len(s \o u) + 1 = Len(s) + j /\ Len(u) + 1 = j
    BY <1>1, <2>3, <2>6
  <2>8. Picked(Append(s \o u, t[j]), K) =
           IF Len(s) + j \in K THEN Append(Picked(s \o u, K), t[j]) ELSE Picked(s \o u, K)
    BY <2>6, <2>7, PickedAppend
  <2>9. Picked(Append(u, t[j]), L) = IF j \in L THEN Append(Picked(u, L), t[j]) ELSE Picked(u, L)
    BY <2>3, <2>7, PickedAppend
  <2>10. j \in L <=> Len(s) + j \in K
    BY DEF L, Beyond
  <2>11. IsSequence(Picked(s, K)) /\ IsSequence(Picked(u, L))
    BY <1>2, <2>3
  <2>12. Picked(s, K) \o Append(Picked(u, L), t[j]) = Append(Picked(s, K) \o Picked(u, L), t[j])
    BY <2>11, ConcatAppend
  <2>13. Picked(s \o SubSeq(t, 1, j), K) = Picked(s, K) \o Picked(SubSeq(t, 1, j), L)
    BY <2>1, <2>4, <2>5, <2>8, <2>9, <2>10, <2>12
  <2> QED  BY <2>2, <2>13
<1> HIDE DEF V
<1>5. 0..n \subseteq V
  BY <1>1, <1>3, <1>4, InductionUpTo
<1>6. n \in V
  BY <1>1, <1>5
<1>7. Picked(s \o t, K) = Picked(s, K) \o Picked(t, L)
  BY <1>6, WholeFront DEF V
<1> QED  BY <1>7

\* The same with the places told for each sequence on its own.
LEMMA PickedGrows ==
    ASSUME NEW s, IsSequence(s), NEW e, NEW K, NEW L,
           \A i \in 1..Len(s) : i \in L <=> i \in K
    PROVE  Picked(Append(s, e), L) =
             IF Len(s) + 1 \in L THEN Append(Picked(s, K), e) ELSE Picked(s, K)
<1>1. Picked(s, L) = Picked(s, K)
  BY PickedAgree
<1>2. Picked(Append(s, e), L) = IF Len(s) + 1 \in L THEN Append(Picked(s, L), e) ELSE Picked(s, L)
  BY PickedAppend
<1> QED  BY <1>1, <1>2

Joins(s, t, K, L, M) == Picked(s \o t, M) = Picked(s, K) \o Picked(t, L)

LEMMA PickedJoins ==
    ASSUME NEW s, IsSequence(s), NEW t, IsSequence(t), NEW K, NEW L, NEW M,
           \A i \in 1..Len(s) : i \in M <=> i \in K,
           \A i \in 1..Len(t) : Len(s) + i \in M <=> i \in L
    PROVE  Joins(s, t, K, L, M)
<1>1. Picked(s, M) = Picked(s, K)
  BY PickedAgree
<1>2. \A i \in 1..Len(t) : i \in Beyond(s, t, M) <=> i \in L
  BY DEF Beyond
<1>3. Picked(t, Beyond(s, t, M)) = Picked(t, L)
  BY <1>2, PickedAgree
<1>4. Picked(s \o t, M) = Picked(s, M) \o Picked(t, Beyond(s, t, M))
  BY PickedConcat
<1> QED  BY <1>1, <1>3, <1>4 DEF Joins

LEMMA PickedNone ==
    ASSUME NEW s, IsSequence(s), NEW K, \A i \in 1..Len(s) : i \notin K
    PROVE  Picked(s, K) = <<>>
<1> DEFINE n == Len(s)
           T == {j \in 0..n : Picked(SubSeq(s, 1, j), K) = <<>>}
<1>1. n \in Nat
  BY Places
<1>2. 0 \in T
  <2>1. Picked(SubSeq(s, 1, 0), K) = <<>>
    BY WholeFront, PickedNothing
  <2> QED  BY <1>1, <2>1
<1>3. ASSUME NEW j \in 1..n, j - 1 \in T
      PROVE  j \in T
  <2> DEFINE u == SubSeq(s, 1, j - 1)
  <2>1. SubSeq(s, 1, j) = Append(u, s[j])
    BY FrontGrows
  <2>2. j \in 0..n /\ j - 1 \in 0..n /\ (j - 1) + 1 = j
    BY <1>1
  <2>3. IsSequence(u) /\ Len(u) = j - 1 /\ Picked(u, K) = <<>>
    BY <1>3, <2>2, FrontFacts
  <2> HIDE DEF u
  <2>4. Picked(Append(u, s[j]), K) = Picked(u, K)
    BY <2>2, <2>3, PickedAppend
  <2> QED  BY <2>1, <2>2, <2>3, <2>4
<1> HIDE DEF T
<1>4. 0..n \subseteq T
  BY <1>1, <1>2, <1>3, InductionUpTo
<1>5. n \in T
  BY <1>1, <1>4
<1> QED  BY <1>5, WholeFront DEF T

\* The first of what is picked is at the least of the places.
LEMMA PickedHead ==
    ASSUME NEW s, IsSequence(s), NEW K, NEW k \in 1..Len(s), k \in K,
           \A i \in 1..Len(s) : i \in K => k <= i
    PROVE  Picked(s, K) # <<>> /\ Picked(s, K)[1] = s[k]
<1> DEFINE n == Len(s)
           u(j) == SubSeq(s, 1, j)
           Starts(p) == Len(p) # 0 /\ p[1] = s[k]
           T == {j \in 0..n : IF j < k THEN Picked(u(j), K) = <<>> ELSE Starts(Picked(u(j), K))}
<1>1. n \in Nat /\ k \in Nat /\ 0 < k
  BY Places
<1>2. \A r, J : IsSequence(r) => IsSequence(Picked(r, J))
  BY PickedIsSequence
<1>3. 0 \in T
  <2>1. Picked(u(0), K) = <<>>
    BY WholeFront, PickedNothing
  <2> QED  BY <1>1, <2>1
<1>4. ASSUME NEW j \in 1..n, j - 1 \in T
      PROVE  j \in T
  <2> DEFINE r == u(j - 1)
             p == Picked(r, K)
  <2>1. u(j) = Append(r, s[j])
    BY FrontGrows
  <2>2. j \in 0..n /\ j - 1 \in 0..n /\ (j - 1) + 1 = j
    BY <1>1
  <2>3. IsSequence(r) /\ Len(r) = j - 1
    BY <2>2, FrontFacts
  <2>4. IF j - 1 < k THEN p = <<>> ELSE Starts(p)
    BY <1>4
  <2> HIDE DEF r, Starts
  <2>5. Picked(Append(r, s[j]), K) = IF Len(r) + 1 \in K THEN Append(p, s[j]) ELSE p
    BY <2>3, PickedAppend
  <2>6. IsSequence(p)
    BY <1>2, <2>3
  <2> HIDE DEF p
  <2>7. Len(p) \in Nat /\ Len(Append(p, s[j])) = Len(p) + 1
    BY <2>6, Places, AppendFacts
  <2>8. \A i \in 1..Len(p) : Append(p, s[j])[i] = p[i]
    BY <2>6, AppendFacts
  <2>9. Append(p, s[j])[Len(p) + 1] = s[j]
    BY <2>6, AppendFacts
  <2>10. CASE j < k
    <3>1. j \notin K /\ j - 1 < k
      BY <1>1, <2>2, <2>10
    <3> QED  BY <2>1, <2>2, <2>3, <2>4, <2>5, <2>10, <3>1
  <2>11. CASE j = k
    <3>1. p = <<>> /\ Len(p) = 0
      BY <1>1, <2>2, <2>4, <2>11, EmptyIsSequence
    <3>2. Starts(Append(p, s[j]))
      BY <2>7, <2>9, <2>11, <3>1 DEF Starts
    <3>3. ~(j < k) /\ Len(r) + 1 = j
      BY <2>2, <2>3, <2>11
    <3> QED  BY <2>1, <2>2, <2>5, <2>11, <3>2, <3>3
  <2>12. CASE k < j
    <3>1. ~(j - 1 < k) /\ ~(j < k)
      BY <1>1, <2>2, <2>12
    <3>2. Starts(p)
      BY <2>4, <3>1
    <3>3. Starts(Append(p, s[j]))
      <4>1. 1 \in 1..Len(p)
        BY <2>7, <3>2 DEF Starts
      <4>2. Len(p) + 1 # 0
        BY <2>7
      <4>3. Append(p, s[j])[1] = p[1]
        BY <2>8, <4>1
      <4> QED  BY <2>7, <3>2, <4>2, <4>3 DEF Starts
    <3> QED  BY <2>1, <2>2, <2>5, <3>1, <3>2, <3>3
  <2> QED  BY <1>1, <2>2, <2>10, <2>11, <2>12
<1> HIDE DEF T
<1>5. 0..n \subseteq T
  BY <1>1, <1>3, <1>4, InductionUpTo
<1>6. n \in T /\ ~(n < k)
  BY <1>1, <1>5
<1>7. Starts(Picked(s, K))
  BY <1>6, WholeFront DEF T
<1> QED  BY <1>7, EmptyIsSequence

LEMMA PickedAll ==
    ASSUME NEW s, IsSequence(s), NEW K, \A i \in 1..Len(s) : i \in K
    PROVE  Picked(s, K) = s
<1> DEFINE n == Len(s)
           T == {j \in 0..n : Picked(SubSeq(s, 1, j), K) = SubSeq(s, 1, j)}
<1>1. n \in Nat
  BY Places
<1>2. 0 \in T
  <2>1. Picked(SubSeq(s, 1, 0), K) = SubSeq(s, 1, 0)
    BY WholeFront, PickedNothing
  <2> QED  BY <1>1, <2>1
<1>3. ASSUME NEW j \in 1..n, j - 1 \in T
      PROVE  j \in T
  <2> DEFINE u == SubSeq(s, 1, j - 1)
  <2>1. SubSeq(s, 1, j) = Append(u, s[j])
    BY FrontGrows
  <2>2. j \in 0..n /\ j - 1 \in 0..n /\ (j - 1) + 1 = j
    BY <1>1
  <2>3. IsSequence(u) /\ Len(u) = j - 1 /\ Picked(u, K) = u
    BY <1>3, <2>2, FrontFacts
  <2> HIDE DEF u
  <2>4. Picked(Append(u, s[j]), K) = Append(Picked(u, K), s[j])
    BY <2>2, <2>3, PickedAppend
  <2> QED  BY <2>1, <2>2, <2>3, <2>4
<1> HIDE DEF T
<1>4. 0..n \subseteq T
  BY <1>1, <1>2, <1>3, InductionUpTo
<1>5. n \in T
  BY <1>1, <1>4
<1> QED  BY <1>5, WholeFront DEF T

LEMMA PickedFrom ==
    ASSUME NEW s, IsSequence(s), NEW K
    PROVE  \A i \in 1..Len(Picked(s, K)) :
              \E k \in 1..Len(s) : k \in K /\ Picked(s, K)[i] = s[k]
<1> DEFINE n == Len(s)
           u(j) == SubSeq(s, 1, j)
           From(j) == \A i \in 1..Len(Picked(u(j), K)) :
                         \E k \in 1..j : k \in K /\ Picked(u(j), K)[i] = s[k]
           T == {j \in 0..n : From(j)}
<1>1. n \in Nat
  BY Places
<1>2. 0 \in T
  <2>1. u(0) = <<>>
    BY WholeFront
  <2> HIDE DEF u
  <2>2. Picked(u(0), K) = <<>>
    BY <2>1, PickedNothing
  <2>3. From(0)
    BY <2>2, EmptyIsSequence
  <2>4. 0 \in 0..n
    BY <1>1
  <2> HIDE DEF From
  <2> QED  BY <2>3, <2>4
<1>3. ASSUME NEW j \in 1..n, j - 1 \in T
      PROVE  j \in T
  <2>1. u(j) = Append(u(j - 1), s[j])
    BY FrontGrows
  <2>2. j \in 0..n /\ j - 1 \in 0..n /\ (j - 1) + 1 = j
    BY <1>1
  <2>3. IsSequence(u(j - 1)) /\ Len(u(j - 1)) = j - 1
    BY <2>2, FrontFacts
  <2>4. From(j - 1)
    BY <1>3
  <2> HIDE DEF u
  <2> DEFINE p == Picked(u(j - 1), K)
  <2>5. IsSequence(p)
    BY <2>3, PickedIsSequence
  <2>6. Picked(u(j), K) = IF j \in K THEN Append(p, s[j]) ELSE p
    <3>1. Picked(Append(u(j - 1), s[j]), K)
            = IF Len(u(j - 1)) + 1 \in K THEN Append(p, s[j]) ELSE p
      BY <2>3, PickedAppend
    <3> QED  BY <2>1, <2>2, <2>3, <3>1
  <2>7. \A i \in 1..Len(p) : \E k \in 1..j : k \in K /\ p[i] = s[k]
    BY <2>2, <2>4
  <2> HIDE DEF p
  <2>8. From(j)
    <3>1. CASE j \notin K
      BY <2>6, <2>7, <3>1
    <3>2. CASE j \in K
      <4>1. Len(Append(p, s[j])) = Len(p) + 1 /\ Append(p, s[j])[Len(p) + 1] = s[j]
            /\ \A i \in 1..Len(p) : Append(p, s[j])[i] = p[i]
        BY <2>5, AppendFacts
      <4>2. Len(p) \in Nat /\ j \in 1..j
        BY <1>1, <2>5, Places
      <4>3. ASSUME NEW i \in 1..(Len(p) + 1)
            PROVE  \E k \in 1..j : k \in K /\ Append(p, s[j])[i] = s[k]
        <5>1. i = Len(p) + 1 \/ i \in 1..Len(p)
          BY <4>2
        <5> QED  BY <2>7, <3>2, <4>1, <4>2, <5>1
      <4>4. Picked(u(j), K) = Append(p, s[j])
        BY <2>6, <3>2
      <4> QED  BY <4>1, <4>3, <4>4
    <3> QED  BY <3>1, <3>2
  <2> HIDE DEF From
  <2> QED  BY <2>2, <2>8
<1> HIDE DEF T
<1>4. 0..n \subseteq T
  BY <1>1, <1>2, <1>3, InductionUpTo
<1>5. n \in T
  BY <1>1, <1>4
<1>6. u(n) = s
  BY WholeFront
<1> QED  BY <1>5, <1>6 DEF T

-----------------------------------------------------------------------------
(* FlattenSeq. *)

Flattens(f, ss, n) ==
    f = [i \in 1..n |-> IF i = 1 THEN ss[i] ELSE f[i - 1] \o ss[i]]

LEMMA FlattensExists ==
    ASSUME NEW ss, NEW n \in Nat
    PROVE  \E f : Flattens(f, ss, n)
<1> DEFINE T == {i \in Nat : \E f : Flattens(f, ss, i)}
<1>1. 0 \in T
  <2> DEFINE f == [i \in 1..0 |-> <<>>]
             h == [i \in 1..0 |-> IF i = 1 THEN ss[i] ELSE f[i - 1] \o ss[i]]
  <2>1. f = h
    OBVIOUS
  <2>2. Flattens(f, ss, 0)
    BY <2>1 DEF Flattens
  <2> QED  BY <2>2
<1>2. ASSUME NEW i \in T
      PROVE  i + 1 \in T
  <2>1. PICK f : Flattens(f, ss, i)
    OBVIOUS
  <2> DEFINE next == IF i = 0 THEN ss[i + 1] ELSE f[i] \o ss[i + 1]
             g == [k \in 1..(i + 1) |-> IF k = i + 1 THEN next ELSE f[k]]
             h == [k \in 1..(i + 1) |-> IF k = 1 THEN ss[k] ELSE g[k - 1] \o ss[k]]
  <2>2. ASSUME NEW k \in 1..(i + 1)
        PROVE  g[k] = h[k]
    <3>1. CASE k = i + 1 /\ i = 0
      BY <3>1
    <3>2. CASE k = i + 1 /\ i # 0
      <4>1. k # 1 /\ k - 1 = i /\ i \in 1..(i + 1) /\ i # i + 1
        BY <3>2
      <4>2. g[k - 1] = f[i] /\ g[k] = f[i] \o ss[i + 1]
        BY <3>2, <4>1
      <4> QED  BY <3>2, <4>1, <4>2
    <3>3. CASE k # i + 1
      <4>1. k \in 1..i
        BY <3>3
      <4>2. g[k] = f[k] /\ f[k] = IF k = 1 THEN ss[k] ELSE f[k - 1] \o ss[k]
        BY <2>1, <3>3, <4>1 DEF Flattens
      <4>3. k # 1 => g[k - 1] = f[k - 1]
        BY <4>1
      <4> QED  BY <4>2, <4>3
    <3> QED  BY <3>1, <3>2, <3>3
  <2>3. g = h
    <3>1. g = [k \in 1..(i + 1) |-> g[k]] /\ h = [k \in 1..(i + 1) |-> h[k]]
      OBVIOUS
    <3> HIDE DEF g, h
    <3>2. [k \in 1..(i + 1) |-> g[k]] = [k \in 1..(i + 1) |-> h[k]]
      BY <2>2
    <3> QED  BY <3>1, <3>2
  <2>4. Flattens(g, ss, i + 1)
    BY <2>3 DEF Flattens
  <2> QED  BY <2>4
<1> HIDE DEF T
<1>3. T = Nat
  BY <1>1, <1>2, Induction DEF T
<1> QED  BY <1>3 DEF T

LEMMA FlattensTurns ==
    ASSUME NEW f, NEW ss, NEW n \in Nat, Flattens(f, ss, n), NEW i \in 1..n
    PROVE  f[i] = IF i = 1 THEN ss[i] ELSE f[i - 1] \o ss[i]
BY DEF Flattens

\* One sequence more at the end.
LEMMA FlattenAppend ==
    ASSUME NEW ss, IsSequence(ss), NEW s, IsSequence(s)
    PROVE  FlattenSeq(Append(ss, s)) = FlattenSeq(ss) \o s
<1> DEFINE n == Len(ss)
           t == Append(ss, s)
           f == CHOOSE f : Flattens(f, ss, n)
           g == CHOOSE g : Flattens(g, t, n + 1)
<1>1. n \in Nat /\ n + 1 \in Nat
  BY Places
<1>2. Flattens(f, ss, n) /\ Flattens(g, t, n + 1)
  BY <1>1, FlattensExists
<1>3. Len(t) = n + 1 /\ (\A i \in 1..n : t[i] = ss[i]) /\ t[n + 1] = s
  BY AppendFacts
<1>4. FlattenSeq(ss) = IF n = 0 THEN ss ELSE f[n]
  BY DEF FlattenSeq, Flattens
<1>5. FlattenSeq(t) = g[n + 1]
  <2>1. Len(t) # 0
    BY <1>1, <1>3
  <2> QED  BY <1>3, <2>1 DEF FlattenSeq, Flattens
<1>6. CASE n = 0
  <2>1. ss = <<>>
    BY <1>6, EmptyIffNoPlace
  <2>2. g[n + 1] = s
    <3>1. n + 1 = 1 /\ 1 \in 1..(n + 1)
      BY <1>6
    <3>2. g[1] = t[1]
      BY <1>1, <1>2, <3>1, FlattensTurns
    <3> QED  BY <1>3, <3>1, <3>2
  <2>3. <<>> \o s = s
    BY ConcatFacts, EmptyIsSequence
  <2> QED  BY <1>4, <1>5, <1>6, <2>1, <2>2, <2>3
<1>7. CASE n # 0
  <2> HIDE DEF f, g, t, n
  <2> DEFINE T == {i \in 0..n : i # 0 => f[i] = g[i]}
  <2>1. 0 \in T
    BY <1>1
  <2>2. ASSUME NEW i \in 1..n, i - 1 \in T
        PROVE  i \in T
    <3>1. i \in 1..(n + 1) /\ i \in 0..n
      BY <1>1
    <3>2. f[i] = (IF i = 1 THEN ss[i] ELSE f[i - 1] \o ss[i])
          /\ g[i] = (IF i = 1 THEN t[i] ELSE g[i - 1] \o t[i])
      BY <1>1, <1>2, <3>1, FlattensTurns
    <3>3. i # 1 => f[i - 1] = g[i - 1]
      BY <1>1, <2>2
    <3> QED  BY <1>3, <3>1, <3>2, <3>3
  <2> HIDE DEF T
  <2>3. 0..n \subseteq T
    BY <1>1, <2>1, <2>2, InductionUpTo
  <2>4. n \in T
    BY <1>1, <2>3
  <2>5. f[n] = g[n]
    BY <1>7, <2>4 DEF T
  <2>6. n + 1 \in 1..(n + 1) /\ n + 1 # 1 /\ (n + 1) - 1 = n
    BY <1>1, <1>7
  <2>7. g[n + 1] = g[n] \o t[n + 1]
    <3>1. \A i \in 1..(n + 1) : g[i] = IF i = 1 THEN t[i] ELSE g[i - 1] \o t[i]
      BY <1>1, <1>2, FlattensTurns
    <3> QED  BY <2>6, <3>1
  <2> QED  BY <1>3, <1>4, <1>5, <1>7, <2>5, <2>7 DEF t
<1> QED  BY <1>6, <1>7

LEMMA FlattenNothing == FlattenSeq(<<>>) = <<>>
BY EmptyIsSequence DEF FlattenSeq

LEMMA FlattenIsSequence ==
    ASSUME NEW ss, IsSequence(ss), \A i \in 1..Len(ss) : IsSequence(ss[i])
    PROVE  IsSequence(FlattenSeq(ss))
<1> DEFINE n == Len(ss)
           T == {j \in 0..n : IsSequence(FlattenSeq(SubSeq(ss, 1, j)))}
<1>1. n \in Nat
  BY Places
<1>2. 0 \in T
  <2>1. FlattenSeq(SubSeq(ss, 1, 0)) = <<>>
    BY WholeFront, FlattenNothing
  <2> QED  BY <1>1, <2>1, EmptyIsSequence
<1>3. ASSUME NEW j \in 1..n, j - 1 \in T
      PROVE  j \in T
  <2> DEFINE u == SubSeq(ss, 1, j - 1)
  <2>1. SubSeq(ss, 1, j) = Append(u, ss[j])
    BY FrontGrows
  <2>2. j \in 0..n /\ j - 1 \in 0..n
    BY <1>1
  <2>3. IsSequence(u) /\ IsSequence(FlattenSeq(u)) /\ IsSequence(ss[j])
    BY <1>3, <2>2, FrontFacts
  <2> HIDE DEF u
  <2>4. FlattenSeq(Append(u, ss[j])) = FlattenSeq(u) \o ss[j]
    BY <2>3, FlattenAppend
  <2>5. IsSequence(FlattenSeq(u) \o ss[j])
    BY <2>3, ConcatFacts
  <2> QED  BY <2>1, <2>2, <2>4, <2>5
<1> HIDE DEF T
<1>4. 0..n \subseteq T
  BY <1>1, <1>2, <1>3, InductionUpTo
<1>5. n \in T
  BY <1>1, <1>4
<1> QED  BY <1>5, WholeFront DEF T

LEMMA FlattenIn ==
    ASSUME NEW S, NEW ss, IsSequence(ss), \A i \in 1..Len(ss) : ss[i] \in Seq(S)
    PROVE  FlattenSeq(ss) \in Seq(S)
<1> DEFINE n == Len(ss)
           T == {j \in 0..n : FlattenSeq(SubSeq(ss, 1, j)) \in Seq(S)}
<1>1. n \in Nat
  BY Places
<1>2. 0 \in T
  <2>1. FlattenSeq(SubSeq(ss, 1, 0)) = <<>>
    BY WholeFront, FlattenNothing
  <2>2. FlattenSeq(SubSeq(ss, 1, 0)) \in Seq(S)
    BY <2>1, EmptySeq
  <2>3. 0 \in 0..n
    BY <1>1
  <2> QED  BY <2>2, <2>3
<1>3. ASSUME NEW j \in 1..n, j - 1 \in T
      PROVE  j \in T
  <2> DEFINE u == SubSeq(ss, 1, j - 1)
  <2>1. SubSeq(ss, 1, j) = Append(u, ss[j])
    BY FrontGrows
  <2>2. j \in 0..n /\ j - 1 \in 0..n
    BY <1>1
  <2>3. IsSequence(u) /\ FlattenSeq(u) \in Seq(S) /\ ss[j] \in Seq(S) /\ IsSequence(ss[j])
    BY <1>3, <2>2, FrontFacts, SeqIsSequence
  <2> HIDE DEF u
  <2>4. FlattenSeq(Append(u, ss[j])) = FlattenSeq(u) \o ss[j]
    BY <2>3, FlattenAppend
  <2>5. FlattenSeq(u) \o ss[j] \in Seq(S)
    BY <2>3, ConcatProperties
  <2> QED  BY <2>1, <2>2, <2>4, <2>5
<1> HIDE DEF T
<1>4. 0..n \subseteq T
  BY <1>1, <1>2, <1>3, InductionUpTo
<1>5. n \in T
  BY <1>1, <1>4
<1> QED  BY <1>5, WholeFront DEF T

\* Several sequences more at the end.
LEMMA FlattenConcat ==
    ASSUME NEW ss, IsSequence(ss), \A i \in 1..Len(ss) : IsSequence(ss[i]),
           NEW tt, IsSequence(tt), \A i \in 1..Len(tt) : IsSequence(tt[i])
    PROVE  FlattenSeq(ss \o tt) = FlattenSeq(ss) \o FlattenSeq(tt)
<1> DEFINE n == Len(tt)
           u(j) == SubSeq(tt, 1, j)
           T == {j \in 0..n : /\ FlattenSeq(ss \o u(j)) = FlattenSeq(ss) \o FlattenSeq(u(j))
                              /\ IsSequence(FlattenSeq(u(j)))}
<1>1. n \in Nat /\ IsSequence(FlattenSeq(ss))
  BY Places, FlattenIsSequence
<1>2. 0 \in T
  <2>1. u(0) = <<>> /\ FlattenSeq(<<>>) = <<>> /\ IsSequence(<<>>)
    BY WholeFront, FlattenNothing, EmptyIsSequence
  <2>2. ss \o <<>> = ss /\ FlattenSeq(ss) \o <<>> = FlattenSeq(ss)
    BY <1>1, <2>1, ConcatFacts
  <2>3. 0 \in 0..n
    BY <1>1
  <2> QED  BY <2>1, <2>2, <2>3
<1>3. ASSUME NEW j \in 1..n, j - 1 \in T
      PROVE  j \in T
  <2> DEFINE v == u(j - 1)
             A == FlattenSeq(ss)
             B == FlattenSeq(v)
  <2>1. u(j) = Append(v, tt[j])
    BY FrontGrows
  <2>2. j \in 0..n /\ j - 1 \in 0..n
    BY <1>1
  <2>3. IsSequence(v) /\ IsSequence(tt[j])
    BY <2>2, FrontFacts
  <2>4. FlattenSeq(ss \o v) = A \o B /\ IsSequence(B) /\ IsSequence(A)
    BY <1>1, <1>3
  <2> HIDE DEF v
  <2>5. ss \o Append(v, tt[j]) = Append(ss \o v, tt[j])
    BY <2>3, ConcatAppend
  <2>6. IsSequence(ss \o v)
    BY <2>3, ConcatFacts
  <2>7. FlattenSeq(Append(ss \o v, tt[j])) = FlattenSeq(ss \o v) \o tt[j]
    BY <2>3, <2>6, FlattenAppend
  <2>8. FlattenSeq(Append(v, tt[j])) = B \o tt[j]
    BY <2>3, FlattenAppend
  <2> HIDE DEF A, B
  <2>9. (A \o B) \o tt[j] = A \o (B \o tt[j])
    <3>1. Associate(A, B, tt[j])
      BY <2>3, <2>4, ConcatAssociates
    <3> QED  BY <3>1 DEF Associate
  <2>10. IsSequence(B \o tt[j])
    BY <2>3, <2>4, ConcatFacts
  <2>11. FlattenSeq(ss \o u(j)) = A \o FlattenSeq(u(j))
    BY <2>1, <2>4, <2>5, <2>7, <2>8, <2>9
  <2>12. IsSequence(FlattenSeq(u(j)))
    BY <2>1, <2>8, <2>10
  <2> QED  BY <2>2, <2>11, <2>12 DEF A
<1> HIDE DEF T
<1>4. 0..n \subseteq T
  BY <1>1, <1>2, <1>3, InductionUpTo
<1>5. n \in T
  BY <1>1, <1>4
<1> QED  BY <1>5, WholeFront DEF T

=============================================================================
