-------------------------- MODULE RegistrationProofs --------------------------
(***************************************************************************)
(* What a router does is what the registrations made with it say, however  *)
(* many there were and in whatever order: of event routers, of aggregates  *)
(* written in four ways, and of the upcasters and projectors that read a   *)
(* stream.  Each invariant relates every entry of a table to the call that *)
(* made it, and every call to its entry; the first match in a list is then *)
(* the first call, and a map's value the last.                             *)
(***************************************************************************)
EXTENDS EventRouter, Aggregates, ReadSide, SequenceFacts

-----------------------------------------------------------------------------
(* Event routers. *)

Entries == [suffix : EventNames, handler : Nat]
CallRecords == [call : {"domain", "on", "prepare"}, name : Domains \cup EventNames]

ChainOK == /\ script \in Seq(CallRecords)
           /\ current_domain = DomainOf(Len(script) + 1)
           /\ current_domain # NoDomain => current_domain \in DOMAIN handlers
           /\ DOMAIN prepare_handlers = DOMAIN handlers

\* The call that made an entry of a list.
MadeBy(i, call, d, suffix) ==
    /\ i \in DOMAIN script
    /\ script[i].call = call
    /\ DomainOf(i) = d /\ d # NoDomain
    /\ script[i].name = suffix

ListsOK ==
    /\ \A d \in DOMAIN handlers :
         /\ handlers[d] \in Seq(Entries)
         /\ \A k \in DOMAIN handlers[d] :
              MadeBy(handlers[d][k].handler, "on", d, handlers[d][k].suffix)
         /\ \A j, k \in DOMAIN handlers[d] :
              j < k => handlers[d][j].handler < handlers[d][k].handler
    /\ \A i \in DOMAIN script :
         script[i].call = "on" /\ DomainOf(i) # NoDomain =>
            /\ DomainOf(i) \in DOMAIN handlers
            /\ \E k \in DOMAIN handlers[DomainOf(i)] : handlers[DomainOf(i)][k].handler = i

MapsOK ==
    /\ \A d \in DOMAIN prepare_handlers : \A t \in DOMAIN prepare_handlers[d] :
         MadeBy(prepare_handlers[d][t], "prepare", d, t)
    /\ \A i \in DOMAIN script :
         script[i].call = "prepare" /\ DomainOf(i) # NoDomain =>
            /\ DomainOf(i) \in DOMAIN prepare_handlers
            /\ script[i].name \in DOMAIN prepare_handlers[DomainOf(i)]
            /\ i <= prepare_handlers[DomainOf(i)][script[i].name]

Tables == ChainOK /\ ListsOK /\ MapsOK

-----------------------------------------------------------------------------
(* The history. *)

\* A call that is added changes no domain in effect before it.
LEMMA DomainsKept ==
    ASSUME script \in Seq(CallRecords), NEW c \in CallRecords, script' = Append(script, c)
    PROVE  /\ script' \in Seq(CallRecords)
           /\ Len(script') = Len(script) + 1
           /\ script'[Len(script) + 1] = c
           /\ \A i \in DOMAIN script : i \in DOMAIN script' /\ script'[i] = script[i]
           /\ \A i \in 1..(Len(script) + 1) : DomainOf(i)' = DomainOf(i)
<1>1. \A i \in 1..Len(script) : script'[i] = script[i]
  OBVIOUS
<1>2. ASSUME NEW i \in 1..(Len(script) + 1)
      PROVE  DomainOf(i)' = DomainOf(i)
  <2> DEFINE named == {j \in 1..(i - 1) : script[j].call = "domain"}
             latest == CHOOSE j \in named : \A k \in named : k <= j
  <2>1. named' = named
    BY <1>1
  <2>2. i' = i
    OBVIOUS
  <2>3. CASE named = {}
    BY <2>1, <2>3 DEF DomainOf
  <2>4. CASE named # {}
    <3>1. named \in SUBSET (1..Len(script))
      OBVIOUS
    <3>2. latest \in named
      <4>1. Len(script) \in Nat
        OBVIOUS
      <4>2. \E j \in named : \A k \in named : k <= j
        BY <2>4, <3>1, <4>1, Maximum
      <4> HIDE DEF named
      <4> QED  BY <4>2
    <3>3. script'[latest] = script[latest]
      BY <1>1, <3>1, <3>2
    <3>4. latest' = latest
      BY <2>1
    <3>5. DomainOf(i) = script[latest].name
      BY <2>4 DEF DomainOf
    <3>6. DomainOf(i)' = script'[latest'].name
      BY <2>1, <2>4 DEF DomainOf
    <3> QED  BY <3>3, <3>4, <3>5, <3>6
  <2> QED  BY <2>3, <2>4
<1> QED  BY <1>1, <1>2

\* The domain the call after an added one is for.
LEMMA NextDomain ==
    ASSUME script \in Seq(CallRecords), NEW c \in CallRecords, script' = Append(script, c),
           NEW n, n = Len(script)
    PROVE  DomainOf(n + 2)' = IF c.call = "domain" THEN c.name ELSE DomainOf(n + 1)
<1> DEFINE now == {j \in 1..n : script[j].call = "domain"}
           then == {j \in 1..(n + 1) : script'[j].call = "domain"}
<1>1. /\ n \in Nat
      /\ \A j \in 1..n : script'[j] = script[j]
      /\ script'[n + 1] = c
  OBVIOUS
<1>2. DomainOf(n + 2)' =
        IF then = {} THEN NoDomain
        ELSE script'[CHOOSE j \in then : \A k \in then : k <= j].name
  <2> DEFINE named == {j \in 1..((n + 2) - 1) : script'[j].call = "domain"}
  <2>1. named = then
    BY <1>1
  <2>2. DomainOf(n + 2)' = IF named = {} THEN NoDomain
                           ELSE script'[CHOOSE j \in named : \A k \in named : k <= j].name
    BY Zenon DEF DomainOf
  <2> HIDE DEF named, then
  <2> QED  BY <2>1, <2>2
<1>3. CASE c.call = "domain"
  <2>1. n + 1 \in then /\ \A j \in then : j <= n + 1
    BY <1>1, <1>3
  <2>2. (CHOOSE j \in then : \A k \in then : k <= j) = n + 1
    <3>1. then \in SUBSET Nat
      BY <1>1
    <3>2. \A j \in then : (\A k \in then : k <= j) => j = n + 1
      BY <2>1, <3>1, <1>1
    <3> HIDE DEF then
    <3> QED  BY <2>1, <3>2
  <2> QED  BY <1>1, <1>2, <1>3, <2>1, <2>2
<1>4. CASE c.call # "domain"
  <2>1. then = now
    BY <1>1, <1>4
  <2>2. DomainOf(n + 1) =
          IF now = {} THEN NoDomain
          ELSE script[CHOOSE j \in now : \A k \in now : k <= j].name
    <3>1. (n + 1) - 1 = n
      BY <1>1
    <3> QED  BY <3>1 DEF DomainOf
  <2>3. CASE now = {}
    BY <1>2, <1>4, <2>1, <2>2, <2>3
  <2>4. CASE now # {}
    <3>1. PICK j \in now : \A k \in now : k <= j
      <4>1. now \in SUBSET (1..n)
        OBVIOUS
      <4> QED  BY <1>1, <2>4, <4>1, Maximum
    <3>2. (CHOOSE i \in now : \A k \in now : k <= i) \in 1..n
      <4>1. (CHOOSE i \in now : \A k \in now : k <= i) \in now
        <5> HIDE DEF now
        <5> QED  BY <3>1
      <4> QED  BY <4>1
    <3> HIDE DEF now, then
    <3> QED  BY <1>1, <1>2, <1>4, <2>1, <2>2, <2>4, <3>2
  <2> QED  BY <2>3, <2>4
<1> QED  BY <1>3, <1>4

\* What made an entry still made it after another call.
LEMMA MakesKept ==
    ASSUME script \in Seq(CallRecords), NEW c \in CallRecords, script' = Append(script, c),
           NEW i, NEW call, NEW d, NEW suffix, MadeBy(i, call, d, suffix)
    PROVE  MadeBy(i, call, d, suffix)'
<1>1. i \in DOMAIN script' /\ script'[i] = script[i]
  BY DomainsKept DEF MadeBy
<1>2. DomainOf(i)' = DomainOf(i)
  <2>1. i \in 1..(Len(script) + 1)
    BY DEF MadeBy
  <2> QED  BY <2>1, DomainsKept
<1> QED  BY <1>1, <1>2 DEF MadeBy

-----------------------------------------------------------------------------
(* The steps. *)

\* What every call does to the history, with n calls before it.
Grown(n, call, name) ==
    /\ n \in Nat /\ DOMAIN script = 1..n
    /\ script' \in Seq(CallRecords)
    /\ Len(script') = n + 1 /\ DOMAIN script' = 1..(n + 1)
    /\ script'[n + 1] = [call |-> call, name |-> name]
    /\ \A i \in 1..n : script'[i] = script[i]
    /\ \A i \in 1..(n + 1) : DomainOf(i)' = DomainOf(i)
    /\ DomainOf(n + 1) = current_domain
    /\ DomainOf(n + 2)' = IF call = "domain" THEN name ELSE current_domain

LEMMA Added ==
    ASSUME ChainOK, NEW call \in {"domain", "on", "prepare"},
           NEW name \in Domains \cup EventNames, Says(call, name),
           NEW n, n = Len(script)
    PROVE  Grown(n, call, name)
<1> DEFINE c == [call |-> call, name |-> name]
<1>1. c \in CallRecords /\ script \in Seq(CallRecords) /\ script' = Append(script, c)
  BY DEF ChainOK, CallRecords, Says
<1>2. n \in Nat /\ DOMAIN script = 1..n
  BY <1>1
<1>3. DomainOf(n + 1) = current_domain
  BY DEF ChainOK
<1> HIDE DEF c
<1>4. /\ script' \in Seq(CallRecords) /\ Len(script') = n + 1 /\ script'[n + 1] = c
      /\ \A i \in 1..n : script'[i] = script[i]
      /\ \A i \in 1..(n + 1) : DomainOf(i)' = DomainOf(i)
  BY <1>1, <1>2, DomainsKept
<1>5. DomainOf(n + 2)' = IF c.call = "domain" THEN c.name ELSE current_domain
  BY <1>1, <1>3, NextDomain
<1>6. DOMAIN script' = 1..(n + 1)
  BY <1>4
<1> QED  BY <1>2, <1>3, <1>4, <1>5, <1>6 DEF c, Grown

\* What made an entry still made it.
LEMMA MadeStill ==
    ASSUME ChainOK, NEW call \in {"domain", "on", "prepare"},
           NEW name \in Domains \cup EventNames, Says(call, name),
           NEW i, NEW k, NEW d, NEW t, MadeBy(i, k, d, t)
    PROVE  MadeBy(i, k, d, t)'
<1> DEFINE c == [call |-> call, name |-> name]
<1>1. c \in CallRecords /\ script \in Seq(CallRecords) /\ script' = Append(script, c)
  BY DEF ChainOK, CallRecords, Says
<1> HIDE DEF c
<1> QED  BY <1>1, MakesKept

\* The history part of the invariant.
LEMMA ChainStep ==
    ASSUME Tables, Next
    PROVE  ChainOK'
<1> DEFINE n == Len(script)
<1>1. ASSUME NEW name \in Domains, domain(name)
      PROVE  ChainOK'
  <2>1. Says("domain", name) /\ ChainOK
    BY <1>1 DEF domain, Tables
  <2>2. /\ script' \in Seq(CallRecords)
        /\ current_domain' = DomainOf(Len(script) + 1)'
    <3> SUFFICES ASSUME NEW m, m = Len(script)
                 PROVE  /\ script' \in Seq(CallRecords)
                        /\ current_domain' = DomainOf(Len(script) + 1)'
      OBVIOUS
    <3>1. /\ script' \in Seq(CallRecords) /\ Len(script') + 1 = m + 2
          /\ DomainOf(m + 2)' = name
      <4>1. Grown(m, "domain", name)
        BY <2>1, Added
      <4> QED  BY <4>1 DEF Grown
    <3> QED  BY <1>1, <3>1 DEF domain
  <2>3. /\ current_domain' \in DOMAIN handlers'
        /\ DOMAIN handlers' = DOMAIN handlers \cup {name}
        /\ DOMAIN prepare_handlers' = DOMAIN prepare_handlers \cup {name}
    BY <1>1 DEF domain, opened
  <2> QED  BY <2>1, <2>2, <2>3 DEF ChainOK
<1>2. ASSUME NEW call \in {"on", "prepare"}, NEW suffix \in EventNames, Says(call, suffix),
             current_domain' = current_domain,
             DOMAIN handlers' = DOMAIN handlers,
             DOMAIN prepare_handlers' = DOMAIN prepare_handlers
      PROVE  ChainOK'
  <2>1. /\ script' \in Seq(CallRecords)
        /\ current_domain' = DomainOf(Len(script) + 1)'
    <3> SUFFICES ASSUME NEW m, m = Len(script)
                 PROVE  /\ script' \in Seq(CallRecords)
                        /\ current_domain' = DomainOf(Len(script) + 1)'
      OBVIOUS
    <3>1. /\ script' \in Seq(CallRecords) /\ Len(script') + 1 = m + 2
          /\ DomainOf(m + 2)' = current_domain
      <4>1. Grown(m, call, suffix)
        BY <1>2, Added DEF Tables
      <4> QED  BY <4>1 DEF Grown
    <3> QED  BY <1>2, <3>1
  <2> QED  BY <1>2, <2>1 DEF ChainOK, Tables
<1>3. ASSUME NEW suffix \in EventNames, on(suffix)
      PROVE  ChainOK'
  BY <1>2, <1>3 DEF on
<1>4. ASSUME NEW suffix \in EventNames, prepare(suffix)
      PROVE  ChainOK'
  BY <1>2, <1>4 DEF prepare
<1> QED  BY <1>1, <1>3, <1>4 DEF Next

\* ListsOK of a step that leaves the lists of all domains but new ones.
LEMMA ListsKept ==
    ASSUME Tables, NEW call \in {"domain", "on", "prepare"},
           NEW name \in Domains \cup EventNames, Says(call, name),
           DOMAIN handlers \subseteq DOMAIN handlers',
           \A d \in DOMAIN handlers' :
              handlers'[d] = IF d \in DOMAIN handlers THEN handlers[d] ELSE <<>>,
           call = "on" => current_domain = NoDomain
    PROVE  ListsOK'
<1> SUFFICES ASSUME NEW n, n = Len(script)
             PROVE  ListsOK'
  OBVIOUS
<1>1. Grown(n, call, name)
  BY Added DEF Tables
<1>2. ASSUME NEW d \in DOMAIN handlers'
      PROVE  /\ handlers'[d] \in Seq(Entries)
             /\ \A k \in DOMAIN handlers'[d] :
                   MadeBy(handlers[d][k].handler, "on", d, handlers[d][k].suffix)'
             /\ \A j, k \in DOMAIN handlers'[d] :
                   j < k => handlers'[d][j].handler < handlers'[d][k].handler
  <2>1. CASE d \in DOMAIN handlers
    <3>1. handlers'[d] = handlers[d]
      BY <2>1
    <3>2. ASSUME NEW k \in DOMAIN handlers[d]
          PROVE  MadeBy(handlers[d][k].handler, "on", d, handlers[d][k].suffix)'
      <4>1. PICK i, t : i = handlers[d][k].handler /\ t = handlers[d][k].suffix
        OBVIOUS
      <4>2. MadeBy(i, "on", d, t)
        BY <2>1, <4>1 DEF Tables, ListsOK
      <4>3. MadeBy(i, "on", d, t)'
        BY <4>2, MadeStill DEF Tables
      <4>4. i = handlers'[d][k].handler /\ t = handlers'[d][k].suffix
        BY <3>1, <4>1
      <4> QED  BY <4>3, <4>4
    <3>3. /\ handlers[d] \in Seq(Entries)
          /\ \A j, k \in DOMAIN handlers[d] :
                j < k => handlers[d][j].handler < handlers[d][k].handler
      BY <2>1 DEF Tables, ListsOK
    <3> QED  BY <3>1, <3>2, <3>3
  <2>2. CASE d \notin DOMAIN handlers
    <3>1. handlers'[d] = <<>>
      BY <2>2
    <3>2. handlers'[d] \in Seq(Entries) /\ DOMAIN handlers'[d] = {}
      BY <3>1
    <3> QED  BY <3>2
  <2> QED  BY <2>1, <2>2
<1>3. ASSUME NEW i \in DOMAIN script', script'[i].call = "on", DomainOf(i)' # NoDomain
      PROVE  /\ DomainOf(i)' \in DOMAIN handlers'
             /\ \E k \in DOMAIN handlers'[DomainOf(i)'] : handlers'[DomainOf(i)'][k].handler = i
  <2>1. DomainOf(i)' = DomainOf(i)
    BY <1>1 DEF Grown
  <2>2. i \in 1..n
    <3>1. CASE i = n + 1
      BY <1>1, <1>3, <2>1, <3>1 DEF Grown
    <3> QED  BY <1>1, <3>1 DEF Grown
  <2>3. /\ DomainOf(i) \in DOMAIN handlers
        /\ \E k \in DOMAIN handlers[DomainOf(i)] : handlers[DomainOf(i)][k].handler = i
    BY <1>1, <1>3, <2>1, <2>2 DEF Tables, ListsOK, Grown
  <2> QED  BY <2>1, <2>3
<1> QED  BY <1>2, <1>3 DEF ListsOK

\* on() in a domain: one entry more, for the call just made.
LEMMA ListsGrow ==
    ASSUME Tables, NEW suffix \in EventNames, on(suffix), current_domain # NoDomain
    PROVE  ListsOK'
<1> SUFFICES ASSUME NEW n, n = Len(script)
             PROVE  ListsOK'
  OBVIOUS
<1> DEFINE cd == current_domain
           entry == [suffix |-> suffix, handler |-> n + 1]
<1>1. Says("on", suffix) /\ ChainOK
  BY DEF on, Tables
<1>2. Grown(n, "on", suffix)
  BY <1>1, Added
<1>3. /\ cd \in DOMAIN handlers /\ cd' = cd
      /\ handlers' = [handlers EXCEPT ![cd] = Append(@, entry)]
      /\ n \in Nat
  BY <1>2 DEF on, Tables, ChainOK, Here, Grown
<1> HIDE DEF cd
<1>4. handlers[cd] \in Seq(Entries)
  BY <1>3 DEF Tables, ListsOK
<1>5. entry \in Entries
  BY <1>3 DEF Entries
<1>6. cd \in DOMAIN handlers' /\ handlers'[cd] = Append(handlers[cd], entry)
  BY <1>3
<1>7. ASSUME NEW d \in DOMAIN handlers', d # cd
      PROVE  /\ handlers'[d] \in Seq(Entries)
             /\ \A k \in DOMAIN handlers'[d] :
                   MadeBy(handlers[d][k].handler, "on", d, handlers[d][k].suffix)'
             /\ \A j, k \in DOMAIN handlers'[d] :
                   j < k => handlers'[d][j].handler < handlers'[d][k].handler
  <2>1. d \in DOMAIN handlers /\ handlers'[d] = handlers[d]
    BY <1>3, <1>7
  <2>2. ASSUME NEW k \in DOMAIN handlers[d]
        PROVE  MadeBy(handlers[d][k].handler, "on", d, handlers[d][k].suffix)'
    <3>1. PICK i, t : i = handlers[d][k].handler /\ t = handlers[d][k].suffix
      OBVIOUS
    <3>2. MadeBy(i, "on", d, t)
      BY <2>1, <3>1 DEF Tables, ListsOK
    <3>3. MadeBy(i, "on", d, t)'
      BY <1>1, <3>2, MadeStill
    <3>4. i = handlers'[d][k].handler /\ t = handlers'[d][k].suffix
      BY <2>1, <3>1
    <3> QED  BY <3>3, <3>4
  <2>3. /\ handlers[d] \in Seq(Entries)
        /\ \A j, k \in DOMAIN handlers[d] :
              j < k => handlers[d][j].handler < handlers[d][k].handler
    BY <2>1 DEF Tables, ListsOK
  <2> QED  BY <2>1, <2>2, <2>3
<1>8. ASSUME NEW d \in DOMAIN handlers', d = cd
      PROVE  /\ handlers'[d] \in Seq(Entries)
             /\ \A k \in DOMAIN handlers'[d] :
                   MadeBy(handlers[d][k].handler, "on", d, handlers[d][k].suffix)'
             /\ \A j, k \in DOMAIN handlers'[d] :
                   j < k => handlers'[d][j].handler < handlers'[d][k].handler
  <2>1. /\ d \in DOMAIN handlers /\ handlers'[d] = Append(handlers[d], entry)
        /\ handlers[d] \in Seq(Entries) /\ entry \in Entries
    BY <1>3, <1>8, <1>4, <1>5, <1>6
  <2>2. PICK m \in Nat : m = Len(handlers[d])
    BY <2>1
  <2>3. /\ DOMAIN handlers'[d] = 1..(m + 1) /\ DOMAIN handlers[d] = 1..m
        /\ handlers'[d][m + 1] = entry
        /\ \A k \in 1..m : handlers'[d][k] = handlers[d][k]
        /\ handlers'[d] \in Seq(Entries)
    BY <2>1, <2>2
  <2>4. ASSUME NEW k \in 1..m
        PROVE  /\ MadeBy(handlers[d][k].handler, "on", d, handlers[d][k].suffix)'
               /\ handlers[d][k].handler \in 1..n
    <3>1. PICK i, t : i = handlers[d][k].handler /\ t = handlers[d][k].suffix
      OBVIOUS
    <3>2. MadeBy(i, "on", d, t)
      BY <2>1, <2>3, <3>1 DEF Tables, ListsOK
    <3>3. MadeBy(i, "on", d, t)'
      BY <1>1, <3>2, MadeStill
    <3>4. i = handlers'[d][k].handler /\ t = handlers'[d][k].suffix
      BY <2>3, <3>1
    <3>5. i \in 1..n
      BY <1>2, <3>2 DEF MadeBy, Grown
    <3> QED  BY <3>1, <3>3, <3>4, <3>5
  <2>5. MadeBy(handlers[d][m + 1].handler, "on", d, handlers[d][m + 1].suffix)'
    <3>1. DomainOf(n + 1)' = cd
      BY <1>2, <1>3 DEF Grown, cd
    <3>2. MadeBy(n + 1, "on", d, suffix)'
      BY <1>2, <1>3, <1>8, <3>1 DEF Grown, MadeBy, cd
    <3>3. n + 1 = handlers'[d][m + 1].handler /\ suffix = handlers'[d][m + 1].suffix
      BY <2>3
    <3> QED  BY <2>2, <3>2, <3>3
  <2>6. \A j, k \in 1..(m + 1) :
           j < k => handlers'[d][j].handler < handlers'[d][k].handler
    <3> SUFFICES ASSUME NEW j \in 1..(m + 1), NEW k \in 1..(m + 1), j < k
                 PROVE  handlers'[d][j].handler < handlers'[d][k].handler
      OBVIOUS
    <3>1. j \in 1..m /\ handlers'[d][j] = handlers[d][j] /\ handlers[d][j].handler \in 1..n
      <4>1. j \in 1..m
        BY <2>2
      <4> QED  BY <2>3, <2>4, <4>1
    <3>2. CASE k \in 1..m
      BY <2>1, <2>3, <3>1, <3>2 DEF Tables, ListsOK
    <3>3. CASE k = m + 1
      BY <1>3, <2>3, <3>1, <3>3
    <3> QED  BY <3>2, <3>3
  <2>7. ASSUME NEW k \in 1..(m + 1)
        PROVE  MadeBy(handlers[d][k].handler, "on", d, handlers[d][k].suffix)'
    <3>1. CASE k \in 1..m
      BY <2>4, <3>1
    <3>2. CASE k = m + 1
      BY <2>5, <3>2
    <3> QED  BY <3>1, <3>2, <2>2
  <2> QED  BY <2>3, <2>6, <2>7
<1>9. ASSUME NEW i \in DOMAIN script', script'[i].call = "on", DomainOf(i)' # NoDomain
      PROVE  /\ DomainOf(i)' \in DOMAIN handlers'
             /\ \E k \in DOMAIN handlers'[DomainOf(i)'] : handlers'[DomainOf(i)'][k].handler = i
  <2>1. DomainOf(i)' = DomainOf(i)
    BY <1>2 DEF Grown
  <2>2. CASE i \in 1..n
    <3>1. /\ DomainOf(i) \in DOMAIN handlers
          /\ \E k \in DOMAIN handlers[DomainOf(i)] : handlers[DomainOf(i)][k].handler = i
      BY <1>2, <1>9, <2>1, <2>2 DEF Tables, ListsOK, Grown
    <3>2. PICK d, k : d = DomainOf(i) /\ k \in DOMAIN handlers[d] /\ handlers[d][k].handler = i
      BY <3>1
    <3>3. d \in DOMAIN handlers /\ handlers[d] \in Seq(Entries)
      BY <3>1, <3>2 DEF Tables, ListsOK
    <3>4. k \in DOMAIN handlers'[d] /\ handlers'[d][k] = handlers[d][k]
      <4>1. CASE d = cd
        BY <1>3, <3>2, <3>3, <4>1 DEF Entries
      <4>2. CASE d # cd
        BY <1>3, <3>2, <3>3, <4>2
      <4> QED  BY <4>1, <4>2
    <3>5. d \in DOMAIN handlers'
      BY <1>3, <3>3
    <3> QED  BY <2>1, <3>2, <3>4, <3>5
  <2>3. CASE i = n + 1
    <3>1. DomainOf(i) = cd
      BY <1>2, <2>3 DEF Grown, cd
    <3>2. handlers'[cd] = Append(handlers[cd], entry) /\ handlers[cd] \in Seq(Entries)
          /\ entry \in Entries /\ cd \in DOMAIN handlers'
      BY <1>4, <1>5, <1>6
    <3>3. PICK m \in Nat : m = Len(handlers[cd])
      BY <3>2
    <3>4. m + 1 \in DOMAIN handlers'[cd] /\ handlers'[cd][m + 1].handler = n + 1
      BY <3>2, <3>3
    <3> QED  BY <2>1, <2>3, <3>1, <3>2, <3>4
  <2> QED  BY <1>2, <2>2, <2>3 DEF Grown
<1> QED  BY <1>7, <1>8, <1>9 DEF ListsOK

\* MapsOK of a step that leaves the maps of all domains but new ones.
LEMMA MapsKept ==
    ASSUME Tables, NEW call \in {"domain", "on", "prepare"},
           NEW name \in Domains \cup EventNames, Says(call, name),
           DOMAIN prepare_handlers \subseteq DOMAIN prepare_handlers',
           \A d \in DOMAIN prepare_handlers : prepare_handlers'[d] = prepare_handlers[d],
           \A d \in DOMAIN prepare_handlers' \ DOMAIN prepare_handlers :
              DOMAIN prepare_handlers'[d] = {},
           call = "prepare" => current_domain = NoDomain
    PROVE  MapsOK'
<1> SUFFICES ASSUME NEW n, n = Len(script)
             PROVE  MapsOK'
  OBVIOUS
<1>1. Grown(n, call, name)
  BY Added DEF Tables
<1>2. ASSUME NEW d \in DOMAIN prepare_handlers', NEW t \in DOMAIN prepare_handlers'[d]
      PROVE  MadeBy(prepare_handlers[d][t], "prepare", d, t)'
  <2>1. d \in DOMAIN prepare_handlers /\ prepare_handlers'[d] = prepare_handlers[d]
    BY <1>2
  <2>2. PICK i : i = prepare_handlers[d][t] /\ i = prepare_handlers'[d][t]
    BY <2>1
  <2>3. MadeBy(i, "prepare", d, t)
    BY <1>2, <2>1, <2>2 DEF Tables, MapsOK
  <2>4. MadeBy(i, "prepare", d, t)'
    BY <2>3, MadeStill DEF Tables
  <2> QED  BY <2>2, <2>4
<1>3. ASSUME NEW i \in DOMAIN script', script'[i].call = "prepare", DomainOf(i)' # NoDomain
      PROVE  /\ DomainOf(i)' \in DOMAIN prepare_handlers'
             /\ script'[i].name \in DOMAIN prepare_handlers'[DomainOf(i)']
             /\ i <= prepare_handlers'[DomainOf(i)'][script'[i].name]
  <2>1. DomainOf(i)' = DomainOf(i)
    BY <1>1 DEF Grown
  <2>2. i \in 1..n
    <3>1. CASE i = n + 1
      BY <1>1, <1>3, <2>1, <3>1 DEF Grown
    <3> QED  BY <1>1, <3>1 DEF Grown
  <2>3. /\ DomainOf(i) \in DOMAIN prepare_handlers /\ script'[i] = script[i]
        /\ script[i].name \in DOMAIN prepare_handlers[DomainOf(i)]
        /\ i <= prepare_handlers[DomainOf(i)][script[i].name]
    BY <1>1, <1>3, <2>1, <2>2 DEF Tables, MapsOK, Grown
  <2> QED  BY <2>1, <2>3
<1> QED  BY <1>2, <1>3 DEF MapsOK

\* prepare() in a domain: the type's entry is the call just made.
LEMMA MapsGrow ==
    ASSUME Tables, NEW suffix \in EventNames, prepare(suffix), current_domain # NoDomain
    PROVE  MapsOK'
<1> SUFFICES ASSUME NEW n, n = Len(script)
             PROVE  MapsOK'
  OBVIOUS
<1> DEFINE cd == current_domain
           map == prepare_handlers[cd]
<1>1. Says("prepare", suffix) /\ ChainOK
  BY DEF prepare, Tables
<1>2. Grown(n, "prepare", suffix)
  BY <1>1, Added
<1>3. /\ cd \in DOMAIN prepare_handlers
      /\ prepare_handlers' = [prepare_handlers EXCEPT ![cd] =
            [t \in DOMAIN map \cup {suffix} |-> IF t = suffix THEN n + 1 ELSE map[t]]]
      /\ n \in Nat
  BY <1>2 DEF prepare, Tables, ChainOK, Here, Grown
<1>4. /\ DOMAIN prepare_handlers' = DOMAIN prepare_handlers
      /\ DOMAIN prepare_handlers'[cd] = DOMAIN map \cup {suffix}
      /\ prepare_handlers'[cd][suffix] = n + 1
      /\ \A t \in DOMAIN map : t # suffix => prepare_handlers'[cd][t] = map[t]
      /\ \A d \in DOMAIN prepare_handlers : d # cd => prepare_handlers'[d] = prepare_handlers[d]
  BY <1>3
<1>5. DomainOf(n + 1)' = cd /\ cd # NoDomain
  BY <1>2 DEF Grown
<1> HIDE DEF cd
<1>6. ASSUME NEW d \in DOMAIN prepare_handlers', NEW t \in DOMAIN prepare_handlers'[d]
      PROVE  MadeBy(prepare_handlers[d][t], "prepare", d, t)'
  <2>1. CASE d = cd /\ t = suffix
    <3>1. MadeBy(n + 1, "prepare", d, t)'
      BY <1>2, <1>5, <2>1 DEF MadeBy, Grown
    <3> QED  BY <1>2, <1>4, <2>1, <3>1
  <2>2. CASE ~(d = cd /\ t = suffix)
    <3>1. /\ d \in DOMAIN prepare_handlers /\ t \in DOMAIN prepare_handlers[d]
          /\ prepare_handlers'[d][t] = prepare_handlers[d][t]
      BY <1>4, <1>6, <2>2
    <3>2. PICK i : i = prepare_handlers[d][t] /\ i = prepare_handlers'[d][t]
      BY <3>1
    <3>3. MadeBy(i, "prepare", d, t)
      BY <3>1, <3>2 DEF Tables, MapsOK
    <3>4. MadeBy(i, "prepare", d, t)'
      BY <1>1, <3>3, MadeStill
    <3> QED  BY <3>2, <3>4
  <2> QED  BY <2>1, <2>2
<1>7. ASSUME NEW i \in DOMAIN script', script'[i].call = "prepare", DomainOf(i)' # NoDomain
      PROVE  /\ DomainOf(i)' \in DOMAIN prepare_handlers'
             /\ script'[i].name \in DOMAIN prepare_handlers'[DomainOf(i)']
             /\ i <= prepare_handlers'[DomainOf(i)'][script'[i].name]
  <2>1. DomainOf(i)' = DomainOf(i) /\ i \in 1..(n + 1)
    BY <1>2 DEF Grown
  <2>2. CASE i = n + 1
    BY <1>2, <1>3, <1>4, <1>5, <2>2 DEF Grown
  <2>3. CASE i \in 1..n
    <3>1. /\ DomainOf(i) \in DOMAIN prepare_handlers /\ script'[i] = script[i]
          /\ script[i].name \in DOMAIN prepare_handlers[DomainOf(i)]
          /\ i <= prepare_handlers[DomainOf(i)][script[i].name]
      BY <1>2, <1>7, <2>1, <2>3 DEF Tables, MapsOK, Grown
    <3>2. CASE DomainOf(i) = cd /\ script[i].name = suffix
      BY <1>3, <1>4, <2>1, <2>3, <3>1, <3>2
    <3>3. CASE ~(DomainOf(i) = cd /\ script[i].name = suffix)
      BY <1>4, <2>1, <3>1, <3>3
    <3> QED  BY <3>2, <3>3
  <2> QED  BY <1>2, <2>1, <2>2, <2>3 DEF Grown
<1> QED  BY <1>6, <1>7 DEF MapsOK

LEMMA TablesStep ==
    ASSUME Tables, [Next]_vars
    PROVE  Tables'
<1>1. CASE UNCHANGED vars
  <2>1. UNCHANGED <<current_domain, handlers, prepare_handlers, script>>
    BY <1>1 DEF vars
  <2>2. ASSUME NEW i
        PROVE  DomainOf(i)' = DomainOf(i)
    BY <2>1 DEF DomainOf
  <2>3. ChainOK' /\ ListsOK' /\ MapsOK'
    BY <2>1, <2>2 DEF Tables, ChainOK, ListsOK, MapsOK, MadeBy
  <2> QED  BY <2>3 DEF Tables
<1>2. ASSUME NEW name \in Domains, domain(name), Next
      PROVE  Tables'
  <2>1. ListsOK'
    BY <1>2, ListsKept DEF domain, opened
  <2>2. MapsOK'
    BY <1>2, MapsKept DEF domain, opened
  <2> QED  BY <1>2, <2>1, <2>2, ChainStep DEF Tables
<1>3. ASSUME NEW suffix \in EventNames, on(suffix), Next
      PROVE  Tables'
  <2>1. Says("on", suffix) /\ prepare_handlers' = prepare_handlers
    BY <1>3 DEF on
  <2>2. MapsOK'
    BY <2>1, MapsKept
  <2>3. CASE current_domain = NoDomain
    <3>1. handlers' = handlers
      BY <1>3, <2>3 DEF on
    <3>2. ListsOK'
      BY <2>1, <2>3, <3>1, ListsKept
    <3> QED  BY <1>3, <2>2, <3>2, ChainStep DEF Tables
  <2>4. CASE current_domain # NoDomain
    BY <1>3, <2>2, <2>4, ListsGrow, ChainStep DEF Tables
  <2> QED  BY <2>3, <2>4
<1>4. ASSUME NEW suffix \in EventNames, prepare(suffix), Next
      PROVE  Tables'
  <2>1. Says("prepare", suffix) /\ handlers' = handlers
    BY <1>4 DEF prepare
  <2>2. ListsOK'
    BY <2>1, ListsKept
  <2>3. CASE current_domain = NoDomain
    <3>1. prepare_handlers' = prepare_handlers
      BY <1>4, <2>3 DEF prepare
    <3>2. MapsOK'
      BY <2>1, <2>3, <3>1, MapsKept
    <3> QED  BY <1>4, <2>2, <3>2, ChainStep DEF Tables
  <2>4. CASE current_domain # NoDomain
    BY <1>4, <2>2, <2>4, MapsGrow, ChainStep DEF Tables
  <2> QED  BY <2>3, <2>4
<1> QED  BY <1>1, <1>2, <1>3, <1>4 DEF Next

-----------------------------------------------------------------------------
(* What the tables answer. *)

LEMMA FirstOfList ==
    ASSUME Tables, NEW source, NEW url
    PROVE  handler_for(source, url) = FirstOn(source, url)
<1> DEFINE list == IF source \in DOMAIN handlers THEN handlers[source] ELSE <<>>
           hits == {k \in DOMAIN list : type_url_matches(url, list[k].suffix)}
           places == Registered("on", source, url)
           k0 == CHOOSE j \in hits : \A k \in hits : j <= k
           i0 == CHOOSE i \in places : \A j \in places : i <= j
<1>1. \A k \in hits : list[k].handler \in places
  <2> SUFFICES ASSUME NEW k \in hits
               PROVE  list[k].handler \in places
    OBVIOUS
  <2>1. source \in DOMAIN handlers /\ list = handlers[source] /\ k \in DOMAIN handlers[source]
    OBVIOUS
  <2>2. MadeBy(list[k].handler, "on", source, list[k].suffix)
    BY <2>1 DEF Tables, ListsOK
  <2> QED  BY <2>2 DEF MadeBy, Registered
<1>2. \A i \in places : \E k \in hits : list[k].handler = i
  <2> SUFFICES ASSUME NEW i \in places
               PROVE  \E k \in hits : list[k].handler = i
    OBVIOUS
  <2>1. /\ i \in DOMAIN script /\ script[i].call = "on" /\ DomainOf(i) = source
        /\ source # NoDomain /\ type_url_matches(url, script[i].name)
    BY DEF Registered
  <2>2. source \in DOMAIN handlers
        /\ \E k \in DOMAIN handlers[source] : handlers[source][k].handler = i
    BY <2>1 DEF Tables, ListsOK
  <2>3. PICK k \in DOMAIN handlers[source] : handlers[source][k].handler = i
    BY <2>2
  <2>4. MadeBy(i, "on", source, handlers[source][k].suffix)
    BY <2>2, <2>3 DEF Tables, ListsOK
  <2>5. handlers[source][k].suffix = script[i].name
    BY <2>4 DEF MadeBy
  <2> QED  BY <2>1, <2>2, <2>3, <2>5
<1>3. CASE hits = {}
  <2>1. places = {}
    BY <1>2, <1>3
  <2> QED  BY <1>3, <2>1 DEF handler_for, FirstOn
<1>4. CASE hits # {}
  <2>1. /\ source \in DOMAIN handlers /\ list = handlers[source]
        /\ list \in Seq(Entries)
    BY <1>4 DEF Tables, ListsOK
  <2>2. hits \in SUBSET Nat
    BY <2>1
  <2>3. \E j \in hits : \A k \in hits : j <= k
    <3> HIDE DEF hits
    <3> QED  BY <1>4, <2>2, Minimum
  <2>4. k0 \in hits /\ \A k \in hits : k0 <= k
    <3> HIDE DEF hits
    <3> QED  BY <2>3
  <2>5. \A i \in places : list[k0].handler <= i
    <3> SUFFICES ASSUME NEW i \in places
                 PROVE  list[k0].handler <= i
      OBVIOUS
    <3>1. PICK k \in hits : list[k].handler = i
      BY <1>2
    <3>2. k0 <= k /\ k0 \in DOMAIN list /\ k \in DOMAIN list
      BY <2>4, <3>1
    <3>3. \A a, b \in DOMAIN list : a < b => list[a].handler < list[b].handler
      BY <2>1 DEF Tables, ListsOK
    <3>4. \A a \in DOMAIN list : list[a].handler \in Nat /\ a \in Nat
      <4> HIDE DEF list
      <4> SUFFICES ASSUME NEW a \in DOMAIN list
                   PROVE  list[a].handler \in Nat /\ a \in Nat
        OBVIOUS
      <4>1. list \in Seq(Entries)
        BY <2>1
      <4>2. a \in 1..Len(list) /\ list[a] \in Entries
        BY <4>1
      <4> QED  BY <4>2 DEF Entries
    <3> HIDE DEF list, k0, hits
    <3>5. CASE k0 = k
      BY <3>1, <3>2, <3>4, <3>5
    <3>6. CASE k0 # k
      <4>1. k0 < k
        BY <3>2, <3>4, <3>6
      <4> QED  BY <3>1, <3>2, <3>3, <3>4, <4>1
    <3> QED  BY <3>5, <3>6
  <2>6. list[k0].handler \in places /\ places \subseteq Nat
    <3>1. places \subseteq Nat
      BY DEF Registered, Tables, ChainOK
    <3> HIDE DEF list, hits, k0, places
    <3> QED  BY <1>1, <2>4, <3>1
  <2>7. i0 = list[k0].handler
    <3> HIDE DEF places, list, k0
    <3> QED  BY <2>5, <2>6, TheMinimum
  <2>8. handler_for(source, url) = list[k0].handler
    BY <1>4 DEF handler_for
  <2>9. FirstOn(source, url) = i0
    BY <2>6 DEF FirstOn
  <2> QED  BY <2>7, <2>8, <2>9
<1> QED  BY <1>3, <1>4

LEMMA LastOfMap ==
    ASSUME Tables, NEW source, NEW url
    PROVE  prepare_for(source, url) = LastPrepare(source, url)
<1> DEFINE map == IF source \in DOMAIN prepare_handlers THEN prepare_handlers[source]
                  ELSE [t \in {} |-> NoHandler]
           hits == {t \in DOMAIN map : type_url_matches(url, t)}
           places == Registered("prepare", source, url)
           full == type_name_from_url(url)
<1>1. \A t : type_url_matches(url, t) => t = full
  BY DEF type_url_matches
<1>2. ASSUME NEW i \in places
      PROVE  full \in hits /\ i <= map[full]
  <2>1. /\ i \in DOMAIN script /\ script[i].call = "prepare" /\ DomainOf(i) = source
        /\ source # NoDomain /\ type_url_matches(url, script[i].name)
    BY DEF Registered
  <2>2. script[i].name = full
    BY <1>1, <2>1
  <2>3. /\ source \in DOMAIN prepare_handlers /\ full \in DOMAIN prepare_handlers[source]
        /\ i <= prepare_handlers[source][full]
    BY <2>1, <2>2 DEF Tables, MapsOK
  <2> QED  BY <2>1, <2>2, <2>3
<1>3. ASSUME full \in hits
      PROVE  map[full] \in places
  <2>1. source \in DOMAIN prepare_handlers /\ full \in DOMAIN prepare_handlers[source]
        /\ map = prepare_handlers[source]
    BY <1>3
  <2>2. MadeBy(map[full], "prepare", source, full)
    BY <2>1 DEF Tables, MapsOK
  <2> QED  BY <1>3, <2>2 DEF MadeBy, Registered
<1>4. places \subseteq Nat
  BY DEF Registered, Tables, ChainOK
<1>5. CASE full \in hits
  <2>1. hits = {full}
    BY <1>1, <1>5
  <2>2. prepare_for(source, url) = map[full]
    BY <2>1 DEF prepare_for
  <2>3. map[full] \in places /\ \A i \in places : i <= map[full]
    BY <1>2, <1>3, <1>5
  <2>4. (CHOOSE i \in places : \A j \in places : j <= i) = map[full]
    <3> HIDE DEF places, map, full
    <3> QED  BY <1>4, <2>3, TheMaximum
  <2> QED  BY <2>2, <2>3, <2>4 DEF LastPrepare
<1>6. CASE full \notin hits
  <2>1. hits = {}
    BY <1>1, <1>6
  <2>2. places = {}
    BY <1>2, <1>6
  <2> QED  BY <2>1, <2>2 DEF prepare_for, LastPrepare
<1> QED  BY <1>5, <1>6

LEMMA TablesInvariant == Spec => []Tables
<1>1. Init => Tables
  BY DEF Init, Tables, ChainOK, ListsOK, MapsOK, DomainOf, MadeBy
<1> QED  BY <1>1, TablesStep, PTL DEF Spec

\* For every chain, however long, every page of every book reaches the handler
\* that the chain names first for it.
THEOREM ChainsAreObeyed == Spec => []HandledAsDeclared
<1>1. Tables => HandledAsDeclared
  <2> SUFFICES ASSUME Tables, NEW source \in Sources, NEW pages \in Books
               PROVE  dispatch(source, pages) = Calls([i \in DOMAIN pages |-> FirstOn(source, pages[i])])
    BY DEF HandledAsDeclared
  <2>1. \A url : handler_for(source, url) = FirstOn(source, url)
    BY FirstOfList
  <2> QED  BY <2>1 DEF dispatch, Calls
<1> QED  BY <1>1, TablesInvariant, PTL

\* For every chain, destinations are asked for by the handler it names last.
THEOREM PreparationsAreObeyed == Spec => []PreparedAsDeclared
<1>1. Tables => PreparedAsDeclared
  <2> SUFFICES ASSUME Tables, NEW source \in Sources, NEW pages \in Books
               PROVE  prepare_destinations(source, pages)
                        = Calls([i \in DOMAIN pages |-> LastPrepare(source, pages[i])])
    BY DEF PreparedAsDeclared
  <2>1. \A url : prepare_for(source, url) = LastPrepare(source, url)
    BY LastOfMap
  <2> QED  BY <2>1 DEF prepare_destinations, Calls
<1> QED  BY <1>1, TablesInvariant, PTL

\* A book of one page makes a call exactly when a handler is chosen for it.
LEMMA OneCall ==
    ASSUME NEW h, NEW f, f = [i \in 1..1 |-> h]
    PROVE  Calls(f) = <<>> <=> h = NoHandler
<1> DEFINE s == [i \in DOMAIN f |-> [handler |-> f[i], page |-> i]]
           K == {i \in DOMAIN s : s[i].handler # NoHandler}
<1>1. s = [i \in 1..1 |-> s[i]] /\ DOMAIN s = 1..1 /\ s[1].handler = h
  OBVIOUS
<1>2. Calls(f) = Picked(s, K)
  BY DEF Calls, Where
<1>3. h # NoHandler => \A i \in 1..1 : i \in K
  BY <1>1
<1>4. h = NoHandler => \A i \in 1..1 : i \notin K
  BY <1>1
<1> HIDE DEF s, K
<1>5. IsSequence(s) /\ Len(s) = 1
  BY <1>1, Made
<1>6. s # <<>>
  BY <1>5, EmptyIffNoPlace
<1>7. CASE h = NoHandler
  BY <1>2, <1>4, <1>5, <1>7, PickedNone
<1>8. CASE h # NoHandler
  BY <1>2, <1>3, <1>5, <1>6, <1>8, PickedAll
<1> QED  BY <1>7, <1>8

\* For every chain, a component subscribes to what it handles and to nothing
\* else, and to no domain without naming a type of it.
THEOREM SubscriptionsAreHandled == Spec => []SubscribedIsHandled
<1>1. ASSUME Tables, NEW source \in Sources, NEW suffix \in EventNames
      PROVE  (source \in DOMAIN subscriptions /\ suffix \in subscriptions[source])
                <=> dispatch(source, <<Url(suffix.package, suffix.name)>>) # <<>>
  <2> DEFINE url == Url(suffix.package, suffix.name)
             h == handler_for(source, url)
             list == IF source \in DOMAIN handlers THEN handlers[source] ELSE <<>>
             hits == {i \in DOMAIN list : type_url_matches(url, list[i].suffix)}
  <2>1. \A type : type_url_matches(url, type) <=> type = suffix
    BY RouterAssumption DEF type_url_matches, type_name_from_url, Url
  <2>2. dispatch(source, <<url>>) = <<>> <=> h = NoHandler
    <3> DEFINE pages == <<url>>
               f == [i \in DOMAIN pages |-> handler_for(source, pages[i])]
    <3>1. f = [i \in 1..1 |-> h]
      OBVIOUS
    <3>2. dispatch(source, <<url>>) = Calls(f)
      BY DEF dispatch
    <3> HIDE DEF f, h, url
    <3> QED  BY <3>1, <3>2, OneCall
  <2>3. (source \in DOMAIN subscriptions /\ suffix \in subscriptions[source])
           <=> \E k \in DOMAIN list : list[k].suffix = suffix
    <3>1. source \in DOMAIN handlers => (handlers[source] = <<>> => DOMAIN handlers[source] = {})
      OBVIOUS
    <3> QED  BY <3>1 DEF subscriptions
  <2>4. (\E k \in DOMAIN list : list[k].suffix = suffix) <=> hits # {}
    BY <2>1
  <2>5. hits = {} => h = NoHandler
    BY DEF handler_for
  <2>6. ASSUME hits # {}
        PROVE  h # NoHandler
    <3>1. source \in DOMAIN handlers /\ list = handlers[source] /\ list \in Seq(Entries)
      <4>1. source \in DOMAIN handlers
        BY <2>6
      <4>2. list = handlers[source]
        BY <4>1
      <4>3. handlers[source] \in Seq(Entries)
        BY <1>1, <4>1 DEF Tables, ListsOK
      <4> QED  BY <4>1, <4>2, <4>3
    <3>2. hits \in SUBSET Nat
      BY <3>1
    <3>3. PICK k : k \in hits /\ h = list[k].handler
      <4>1. \E j \in hits : \A k \in hits : j <= k
        <5> HIDE DEF hits
        <5> QED  BY <2>6, <3>2, Minimum
      <4>2. h = list[CHOOSE i \in hits : \A j \in hits : i <= j].handler
        BY <2>6 DEF handler_for
      <4>3. (CHOOSE i \in hits : \A j \in hits : i <= j) \in hits
        <5> HIDE DEF hits
        <5> QED  BY <4>1
      <4> HIDE DEF hits, list, h
      <4> QED  BY <4>2, <4>3
    <3>4. MadeBy(h, "on", source, list[k].suffix)
      <4>1. /\ k \in DOMAIN handlers[source] /\ h = handlers[source][k].handler
            /\ list[k].suffix = handlers[source][k].suffix
        BY <3>1, <3>3
      <4>2. MadeBy(handlers[source][k].handler, "on", source, handlers[source][k].suffix)
        BY <1>1, <3>1, <4>1 DEF Tables, ListsOK
      <4> HIDE DEF h, list, hits
      <4> QED  BY <4>1, <4>2
    <3>5. h \in DOMAIN script /\ script \in Seq(CallRecords)
      BY <1>1, <3>4 DEF MadeBy, Tables, ChainOK
    <3> HIDE DEF h
    <3> QED  BY <3>5 DEF NoHandler
  <2> HIDE DEF h, hits, list, url
  <2>7. (source \in DOMAIN subscriptions /\ suffix \in subscriptions[source])
           <=> dispatch(source, <<url>>) # <<>>
    BY <2>2, <2>3, <2>4, <2>5, <2>6
  <2> QED  BY <2>7 DEF url
<1>2. ASSUME Tables, NEW source \in DOMAIN subscriptions
      PROVE  subscriptions[source] # {}
  <2>1. source \in DOMAIN handlers /\ handlers[source] # <<>>
    BY DEF subscriptions
  <2>2. handlers[source] \in Seq(Entries)
    BY <1>2, <2>1 DEF Tables, ListsOK
  <2>3. 1 \in DOMAIN handlers[source]
    BY <2>1, <2>2
  <2>4. handlers[source][1].suffix \in subscriptions[source]
    BY <2>1, <2>3 DEF subscriptions
  <2> QED  BY <2>4
<1>3. Tables => SubscribedIsHandled
  BY <1>1, <1>2 DEF SubscribedIsHandled
<1> QED  BY <1>3, TablesInvariant, PTL

-----------------------------------------------------------------------------
(* Aggregates. *)

Parts == {"methods", "appliers"}
Methods == [Types -> Nat \cup {Undeclared}]
ClassTables == [methods : Methods, appliers : Methods]

DeclaredOK ==
    /\ declared \in Seq([class : Classes, part : Parts, type : Types])
    /\ listed \in [Classes -> Seq([type : Types, method : Nat])]
    /\ tables \in [Classes -> ClassTables]
    /\ statics \in ClassTables
    /\ stateful \in [Classes -> Methods]

OwnLast(class, part, type) == LastOf(By({class}, part, type))

\* Every entry of a map is the last declaration for it.
LastsOK ==
    /\ \A class \in Classes, type \in Types :
         /\ tables[class].methods[type] = OwnLast(class, "methods", type)
         /\ tables[class].appliers[type] = OwnLast(class, "appliers", type)
         /\ stateful[class][type] = OwnLast(class, "appliers", type)
    /\ \A type \in Types :
         /\ statics.methods[type] = LastOf(By(Classes, "methods", type))
         /\ statics.appliers[type] = LastOf(By(Classes, "appliers", type))

Chosen(class, url) ==
    IF matching(class, url) = <<>> THEN Undeclared ELSE Head(matching(class, url)).method

FirstMethod(class, url) ==
    IF url.prefix = GoogleApis THEN FirstOf(By({class}, "methods", type_name_from_url(url)))
    ELSE Undeclared

\* What a list finds first is the first declaration.
FirstsOK ==
    \A class \in Classes : \A url :
        /\ Chosen(class, url) = FirstMethod(class, url)
        /\ matching(class, url) = <<>> <=> FirstMethod(class, url) = Undeclared

Declarations == DeclaredOK /\ LastsOK /\ FirstsOK

LEMMA LastIs ==
    ASSUME NEW T \in SUBSET Nat, NEW x \in T, \A y \in T : y <= x
    PROVE  LastOf(T) = x
<1>1. ASSUME NEW i \in T, \A j \in T : i >= j
      PROVE  i = x
  <2>1. i \in Nat /\ x \in Nat /\ i >= x /\ i <= x
    BY <1>1
  <2> QED  BY <2>1
<1>2. \A j \in T : x >= j
  OBVIOUS
<1> QED  BY <1>1, <1>2 DEF LastOf

LEMMA FirstIs ==
    ASSUME NEW T \in SUBSET Nat, NEW x \in T, \A y \in T : x <= y
    PROVE  FirstOf(T) = x
BY TheMinimum DEF FirstOf

\* Where the declarations of a kind are, with one more.
LEMMA Noted ==
    ASSUME DeclaredOK, NEW class, NEW part, NEW type, Note(class, part, type),
           NEW n, n = Len(declared), NEW C, NEW p, NEW t
    PROVE  /\ n \in Nat /\ By(C, p, t) \in SUBSET (1..n)
           /\ By(C, p, t)' = IF class \in C /\ part = p /\ type = t
                             THEN By(C, p, t) \cup {n + 1} ELSE By(C, p, t)
<1> DEFINE d == [class |-> class, part |-> part, type |-> type]
<1>1. /\ n \in Nat /\ DOMAIN declared = 1..n /\ DOMAIN declared' = 1..(n + 1)
      /\ \A i \in 1..n : declared'[i] = declared[i]
      /\ declared'[n + 1] = d
  <2>1. IsSequence(declared) /\ declared' = Append(declared, d)
    BY SeqIsSequence DEF DeclaredOK, Note
  <2> HIDE DEF d
  <2>2. IsSequence(declared') /\ Len(declared') = n + 1
    BY <2>1, AppendFacts
  <2> QED  BY <2>1, <2>2, AppendFacts, Places
<1>2. d.class = class /\ d.part = part /\ d.type = type
  OBVIOUS
<1> HIDE DEF d
<1> QED  BY <1>1, <1>2 DEF By

LEMMA LastNoted ==
    ASSUME DeclaredOK, NEW class, NEW part, NEW type, Note(class, part, type),
           NEW n, n = Len(declared), NEW C, NEW p, NEW t
    PROVE  LastOf(By(C, p, t))' = IF class \in C /\ part = p /\ type = t
                                  THEN n + 1 ELSE LastOf(By(C, p, t))
<1> DEFINE before == By(C, p, t)
           after == By(C, p, t)'
<1>1. LastOf(By(C, p, t))' = LastOf(after)
  BY DEF LastOf
<1>2. /\ n \in Nat /\ before \in SUBSET (1..n)
      /\ after = IF class \in C /\ part = p /\ type = t THEN before \cup {n + 1} ELSE before
  BY Noted
<1> HIDE DEF before, after
<1>3. CASE class \in C /\ part = p /\ type = t
  <2>1. after \in SUBSET Nat /\ n + 1 \in after /\ \A y \in after : y <= n + 1
    <3>1. after = before \cup {n + 1}
      BY <1>2, <1>3
    <3>2. \A y \in before : y \in Nat /\ y <= n + 1
      BY <1>2
    <3>3. n + 1 \in Nat /\ n + 1 <= n + 1
      BY <1>2
    <3> QED  BY <3>1, <3>2, <3>3
  <2>2. LastOf(after) = n + 1
    BY <2>1, LastIs
  <2> QED  BY <1>1, <1>3, <2>2
<1>4. CASE ~(class \in C /\ part = p /\ type = t)
  <2>1. after = before
    BY <1>2, <1>4
  <2> QED  BY <1>1, <1>4, <2>1 DEF before
<1> QED  BY <1>3, <1>4

LEMMA FirstNoted ==
    ASSUME DeclaredOK, NEW class, NEW part, NEW type, Note(class, part, type),
           NEW n, n = Len(declared), NEW C, NEW p, NEW t
    PROVE  FirstOf(By(C, p, t))' =
             IF class \in C /\ part = p /\ type = t /\ FirstOf(By(C, p, t)) = Undeclared
             THEN n + 1 ELSE FirstOf(By(C, p, t))
<1> DEFINE before == By(C, p, t)
           after == By(C, p, t)'
<1>1. FirstOf(By(C, p, t))' = FirstOf(after)
  BY DEF FirstOf
<1>2. /\ n \in Nat /\ before \in SUBSET (1..n)
      /\ after = IF class \in C /\ part = p /\ type = t THEN before \cup {n + 1} ELSE before
  BY Noted
<1> HIDE DEF before, after
<1>3. CASE class \in C /\ part = p /\ type = t /\ before = {}
  <2>1. after \in SUBSET Nat /\ n + 1 \in after /\ \A y \in after : n + 1 <= y
    BY <1>2, <1>3
  <2>2. FirstOf(after) = n + 1 /\ FirstOf(before) = Undeclared
    BY <1>3, <2>1, FirstIs DEF FirstOf
  <2> QED  BY <1>1, <1>3, <2>2 DEF before
<1>4. CASE class \in C /\ part = p /\ type = t /\ before # {}
  <2>1. before \in SUBSET Nat
    BY <1>2
  <2>2. PICK x \in before : \A y \in before : x <= y
    BY <1>4, <2>1, Minimum
  <2>3. after \in SUBSET Nat /\ x \in after /\ \A y \in after : x <= y
    <3>1. after = before \cup {n + 1}
      BY <1>2, <1>4
    <3>2. n + 1 \in Nat /\ x <= n + 1
      BY <1>2
    <3> QED  BY <2>1, <2>2, <3>1, <3>2
  <2>4. FirstOf(before) = x /\ FirstOf(after) = x
    BY <2>1, <2>2, <2>3, FirstIs
  <2>5. x # Undeclared
    BY <2>1, AggregatesAssumption
  <2> QED  BY <1>1, <2>4, <2>5 DEF before
<1>5. CASE ~(class \in C /\ part = p /\ type = t)
  <2>1. after = before
    BY <1>2, <1>5
  <2> QED  BY <1>1, <1>5, <2>1 DEF before
<1> QED  BY <1>3, <1>4, <1>5

\* A declaration that leaves the list of a class alone, or lengthens it.
LEMMA ListStep ==
    ASSUME NEW class, NEW url, NEW s, NEW entry, IsSequence(s),
           listed[class] = s, listed'[class] = Append(s, entry)
    PROVE  /\ Chosen(class, url)' =
                IF matching(class, url) = <<>> /\ type_url_matches(url, entry.type)
                THEN entry.method ELSE Chosen(class, url)
           /\ matching(class, url)' = <<>> <=>
                matching(class, url) = <<>> /\ ~type_url_matches(url, entry.type)
<1> DEFINE K == {i \in DOMAIN s : type_url_matches(url, s[i].type)}
           t == Append(s, entry)
           L == {i \in DOMAIN t : type_url_matches(url, t[i].type)}
           found == Picked(s, K)
<1>1. matching(class, url) = found
  BY DEF matching, Where
<1>2. matching(class, url)' = Picked(t, L)
  BY DEF matching, Where
<1>3. /\ IsSequence(t) /\ Len(t) = Len(s) + 1 /\ Len(s) \in Nat
      /\ DOMAIN s = 1..Len(s) /\ DOMAIN t = 1..(Len(s) + 1)
      /\ \A i \in 1..Len(s) : t[i] = s[i]
      /\ t[Len(s) + 1] = entry
  <2>1. /\ IsSequence(t) /\ Len(t) = Len(s) + 1
        /\ \A i \in 1..Len(s) : t[i] = s[i]
        /\ t[Len(s) + 1] = entry
    <3>1. IsSequence(t) /\ Len(t) = Len(s) + 1
      BY AppendFacts
    <3>2. (\A i \in 1..Len(s) : t[i] = s[i]) /\ t[Len(s) + 1] = entry
      BY AppendFacts
    <3> QED  BY <3>1, <3>2
  <2>2. Len(s) \in Nat /\ DOMAIN s = 1..Len(s)
    BY Places, Zenon
  <2> HIDE DEF t
  <2>3. DOMAIN t = 1..Len(t)
    BY <2>1, Places, Zenon
  <2> QED  BY <2>1, <2>2, <2>3
<1>4. \A i \in 1..Len(s) : i \in L <=> i \in K
  BY <1>3
<1>5. Len(s) + 1 \in L <=> type_url_matches(url, entry.type)
  BY <1>3
<1>6. matching(class, url)' = IF type_url_matches(url, entry.type) THEN Append(found, entry)
                              ELSE found
  <2>1. Picked(t, L) = IF Len(s) + 1 \in L THEN Append(Picked(s, L), entry) ELSE Picked(s, L)
    <3> HIDE DEF L, K
    <3> QED  BY PickedAppend
  <2>2. Picked(s, L) = found
    <3> HIDE DEF L, K, t
    <3> QED  BY <1>4, PickedAgree
  <2> HIDE DEF L, K, t, found
  <2> QED  BY <1>2, <1>5, <2>1, <2>2
<1>7. IsSequence(found)
  BY PickedIsSequence
<1> HIDE DEF found, K, L, t
<1>8. /\ found = <<>> => Head(Append(found, entry)) = entry
      /\ found # <<>> => Head(Append(found, entry)) = Head(found)
      /\ Append(found, entry) # <<>>
  <2>1. /\ IsSequence(Append(found, entry)) /\ Len(Append(found, entry)) = Len(found) + 1
        /\ Len(found) \in Nat
        /\ \A i \in 1..Len(found) : Append(found, entry)[i] = found[i]
        /\ Append(found, entry)[Len(found) + 1] = entry
    <3>1. Len(found) \in Nat
      BY <1>7, Places
    <3>2. IsSequence(Append(found, entry)) /\ Len(Append(found, entry)) = Len(found) + 1
      BY <1>7, AppendFacts
    <3>3. \A i \in 1..Len(found) : Append(found, entry)[i] = found[i]
      BY <1>7, AppendFacts
    <3>4. Append(found, entry)[Len(found) + 1] = entry
      BY <1>7, AppendFacts
    <3> QED  BY <3>1, <3>2, <3>3, <3>4
  <2>2. \A u : IsSequence(u) => (u = <<>> <=> Len(u) = 0)
    BY EmptyIffNoPlace
  <2>3. Head(Append(found, entry)) = Append(found, entry)[1] /\ Head(found) = found[1]
    OBVIOUS
  <2>4. found = <<>> <=> Len(found) = 0
    BY <1>7, <2>2
  <2>5. Append(found, entry) # <<>>
    BY <2>1, <2>2
  <2> HIDE DEF IsSequence
  <2> QED  BY <2>1, <2>3, <2>4, <2>5
<1>9. Chosen(class, url) = IF found = <<>> THEN Undeclared ELSE Head(found).method
  BY <1>1 DEF Chosen
<1>10. Chosen(class, url)' = IF matching(class, url)' = <<>> THEN Undeclared
                             ELSE Head(matching(class, url)').method
  BY DEF Chosen
<1> QED  BY <1>1, <1>6, <1>8, <1>9, <1>10

LEMMA DeclaredStep ==
    ASSUME Declarations, NEW class \in Classes, NEW type \in Types,
           handles(class, type) \/ applies(class, type)
    PROVE  DeclaredOK'
<1>1. Place \in Nat /\ DeclaredOK
  <2>1. Len(declared) \in Nat
    BY DEF Declarations, DeclaredOK
  <2> QED  BY <2>1 DEF Place, Declarations
<1>2. ASSUME NEW part \in Parts, Note(class, part, type)
      PROVE  declared' \in Seq([class : Classes, part : Parts, type : Types])
  BY <1>1, <1>2 DEF DeclaredOK, Note
<1> HIDE DEF Place
<1>3. CASE handles(class, type)
  <2>1. declared' \in Seq([class : Classes, part : Parts, type : Types])
    BY <1>2, <1>3 DEF handles, Parts
  <2>2. listed' \in [Classes -> Seq([type : Types, method : Nat])]
    <3>1. Append(listed[class], [type |-> type, method |-> Place])
             \in Seq([type : Types, method : Nat])
      <4>1. listed[class] \in Seq([type : Types, method : Nat])
        BY <1>1 DEF DeclaredOK
      <4>2. [type |-> type, method |-> Place] \in [type : Types, method : Nat]
        BY <1>1
      <4> QED  BY <4>1, <4>2
    <3> QED  BY <1>1, <1>3, <3>1 DEF handles, on_command, DeclaredOK
  <2>3. tables' \in [Classes -> ClassTables]
    BY <1>1, <1>3 DEF handles, DeclaredOK, ClassTables, Methods
  <2>4. statics' \in ClassTables
    BY <1>1, <1>3 DEF handles, register_handler, DeclaredOK, ClassTables, Methods
  <2>5. stateful' \in [Classes -> Methods]
    BY <1>1, <1>3 DEF handles, DeclaredOK
  <2> QED  BY <2>1, <2>2, <2>3, <2>4, <2>5 DEF DeclaredOK
<1>4. CASE applies(class, type)
  <2>1. declared' \in Seq([class : Classes, part : Parts, type : Types])
    BY <1>2, <1>4 DEF applies, Parts
  <2>2. listed' \in [Classes -> Seq([type : Types, method : Nat])]
    BY <1>1, <1>4 DEF applies, DeclaredOK
  <2>3. tables' \in [Classes -> ClassTables]
    BY <1>1, <1>4 DEF applies, DeclaredOK, ClassTables, Methods
  <2>4. statics' \in ClassTables
    BY <1>1, <1>4 DEF applies, register_applier, DeclaredOK, ClassTables, Methods
  <2>5. stateful' \in [Classes -> Methods]
    BY <1>1, <1>4 DEF applies, DeclaredOK, Methods
  <2> QED  BY <2>1, <2>2, <2>3, <2>4, <2>5 DEF DeclaredOK
<1> QED  BY <1>3, <1>4

LEMMA LastsStep ==
    ASSUME Declarations, NEW class \in Classes, NEW type \in Types,
           handles(class, type) \/ applies(class, type)
    PROVE  LastsOK'
<1> DEFINE n == Len(declared)
<1>1. PICK part \in Parts : /\ Note(class, part, type)
                            /\ part = "methods" => handles(class, type)
                            /\ part = "appliers" => applies(class, type)
  BY DEF handles, applies, Parts
<1>2. \A C, p, t : LastOf(By(C, p, t))' = IF class \in C /\ part = p /\ type = t
                                          THEN n + 1 ELSE LastOf(By(C, p, t))
  <2> TAKE C, p, t
  <2> HIDE DEF n
  <2>1. DeclaredOK /\ n = Len(declared)
    BY DEF Declarations, n
  <2> QED  BY <1>1, <2>1, LastNoted
<1>8. \A c, p, t : OwnLast(c, p, t)' = IF class = c /\ part = p /\ type = t
                                       THEN n + 1 ELSE OwnLast(c, p, t)
  <2> TAKE c, p, t
  <2> QED  BY <1>2 DEF OwnLast
<1>9. \A p, t : LastOf(By(Classes, p, t))' = IF part = p /\ type = t
                                             THEN n + 1 ELSE LastOf(By(Classes, p, t))
  <2> TAKE p, t
  <2> QED  BY <1>2
<1>3. /\ \A c \in Classes, t \in Types :
           /\ tables[c].methods[t] = OwnLast(c, "methods", t)
           /\ tables[c].appliers[t] = OwnLast(c, "appliers", t)
           /\ stateful[c][t] = OwnLast(c, "appliers", t)
      /\ \A t \in Types :
           /\ statics.methods[t] = LastOf(By(Classes, "methods", t))
           /\ statics.appliers[t] = LastOf(By(Classes, "appliers", t))
  BY DEF Declarations, LastsOK
<1>4. Place = n + 1
  BY DEF Place
<1>5. /\ tables \in [Classes -> ClassTables] /\ statics \in ClassTables
      /\ stateful \in [Classes -> Methods]
  BY DEF Declarations, DeclaredOK
<1> HIDE DEF n
<1>6. CASE part = "methods"
  <2>1. /\ tables' = [tables EXCEPT ![class].methods[type] = n + 1]
        /\ statics' = [statics EXCEPT !.methods[type] = n + 1]
        /\ stateful' = stateful
    BY <1>1, <1>4, <1>6 DEF handles, register_handler
  <2>2. \A c \in Classes, t \in Types :
           /\ tables'[c].methods[t] = IF c = class /\ t = type THEN n + 1
                                      ELSE tables[c].methods[t]
           /\ tables'[c].appliers[t] = tables[c].appliers[t]
    BY <1>5, <2>1 DEF ClassTables, Methods
  <2>3. \A t \in Types : /\ statics'.methods[t] = IF t = type THEN n + 1 ELSE statics.methods[t]
                         /\ statics'.appliers[t] = statics.appliers[t]
    BY <1>5, <2>1 DEF ClassTables, Methods
  <2>4. ASSUME NEW c \in Classes, NEW t \in Types
        PROVE  /\ tables'[c].methods[t] = OwnLast(c, "methods", t)'
               /\ tables'[c].appliers[t] = OwnLast(c, "appliers", t)'
               /\ stateful'[c][t] = OwnLast(c, "appliers", t)'
    BY <1>3, <1>8, <1>6, <2>1, <2>2
  <2>5. ASSUME NEW t \in Types
        PROVE  /\ statics'.methods[t] = LastOf(By(Classes, "methods", t))'
               /\ statics'.appliers[t] = LastOf(By(Classes, "appliers", t))'
    BY <1>3, <1>9, <1>6, <2>3
  <2> QED  BY <2>4, <2>5 DEF LastsOK
<1>7. CASE part = "appliers"
  <2>1. /\ tables' = [tables EXCEPT ![class].appliers[type] = n + 1]
        /\ statics' = [statics EXCEPT !.appliers[type] = n + 1]
        /\ stateful' = [stateful EXCEPT ![class][type] = n + 1]
    BY <1>1, <1>4, <1>7 DEF applies, register_applier
  <2>2. \A c \in Classes, t \in Types :
           /\ tables'[c].appliers[t] = IF c = class /\ t = type THEN n + 1
                                       ELSE tables[c].appliers[t]
           /\ stateful'[c][t] = IF c = class /\ t = type THEN n + 1 ELSE stateful[c][t]
           /\ tables'[c].methods[t] = tables[c].methods[t]
    BY <1>5, <2>1 DEF ClassTables, Methods
  <2>3. \A t \in Types : /\ statics'.appliers[t] = IF t = type THEN n + 1 ELSE statics.appliers[t]
                         /\ statics'.methods[t] = statics.methods[t]
    BY <1>5, <2>1 DEF ClassTables, Methods
  <2>4. ASSUME NEW c \in Classes, NEW t \in Types
        PROVE  /\ tables'[c].methods[t] = OwnLast(c, "methods", t)'
               /\ tables'[c].appliers[t] = OwnLast(c, "appliers", t)'
               /\ stateful'[c][t] = OwnLast(c, "appliers", t)'
    BY <1>3, <1>8, <1>7, <2>1, <2>2
  <2>5. ASSUME NEW t \in Types
        PROVE  /\ statics'.methods[t] = LastOf(By(Classes, "methods", t))'
               /\ statics'.appliers[t] = LastOf(By(Classes, "appliers", t))'
    BY <1>3, <1>9, <1>7, <2>3
  <2> QED  BY <2>4, <2>5 DEF LastsOK
<1> QED  BY <1>6, <1>7 DEF Parts

LEMMA FirstsStep ==
    ASSUME Declarations, NEW class \in Classes, NEW type \in Types,
           handles(class, type) \/ applies(class, type)
    PROVE  FirstsOK'
<1> SUFFICES ASSUME NEW c \in Classes, NEW url
             PROVE  /\ Chosen(c, url)' = FirstMethod(c, url)'
                    /\ matching(c, url)' = <<>> <=> FirstMethod(c, url)' = Undeclared
  BY DEF FirstsOK
<1> DEFINE n == Len(declared)
           name == type_name_from_url(url)
<1>1. PICK part \in Parts : /\ Note(class, part, type)
                            /\ part = "methods" => handles(class, type)
                            /\ part = "appliers" => applies(class, type)
  BY DEF handles, applies, Parts
<1>2. FirstOf(By({c}, "methods", name))' =
        IF class \in {c} /\ part = "methods" /\ type = name
           /\ FirstOf(By({c}, "methods", name)) = Undeclared
        THEN n + 1 ELSE FirstOf(By({c}, "methods", name))
  <2> HIDE DEF n, name
  <2>1. DeclaredOK /\ n = Len(declared)
    BY DEF Declarations, n
  <2> QED  BY <1>1, <2>1, FirstNoted
<1>3. /\ Chosen(c, url) = FirstMethod(c, url)
      /\ matching(c, url) = <<>> <=> FirstMethod(c, url) = Undeclared
  BY DEF Declarations, FirstsOK
<1>4. n + 1 # Undeclared /\ Place = n + 1
  BY AggregatesAssumption DEF Declarations, DeclaredOK, Place
<1>5. FirstMethod(c, url)' =
        IF class = c /\ part = "methods" /\ type_url_matches(url, type)
           /\ FirstMethod(c, url) = Undeclared
        THEN n + 1 ELSE FirstMethod(c, url)
  BY <1>2 DEF FirstMethod, type_url_matches
<1> HIDE DEF n, name
<1>6. CASE class = c /\ part = "methods"
  <2> DEFINE entry == [type |-> type, method |-> n + 1]
             s == listed[c]
  <2>1. listed'[c] = Append(s, entry) /\ IsSequence(s)
    <3>1. listed \in [Classes -> Seq([type : Types, method : Nat])]
      BY DEF Declarations, DeclaredOK
    <3>2. listed' = [listed EXCEPT ![class] = Append(@, entry)]
      BY <1>1, <1>4, <1>6 DEF handles, on_command
    <3>3. IsSequence(s)
      BY <3>1, SeqIsSequence
    <3> QED  BY <1>6, <3>1, <3>2, <3>3
  <2>2. entry.type = type /\ entry.method = n + 1
    OBVIOUS
  <2> HIDE DEF entry, s
  <2>3. /\ Chosen(c, url)' = IF matching(c, url) = <<>> /\ type_url_matches(url, entry.type)
                             THEN entry.method ELSE Chosen(c, url)
        /\ matching(c, url)' = <<>> <=> matching(c, url) = <<>> /\ ~type_url_matches(url, entry.type)
    <3>1. s = listed[c]
      BY DEF s
    <3> QED  BY <2>1, <3>1, ListStep
  <2> QED  BY <1>3, <1>4, <1>5, <1>6, <2>2, <2>3
<1>7. CASE ~(class = c /\ part = "methods")
  <2>1. listed'[c] = listed[c]
    <3>1. listed \in [Classes -> Seq([type : Types, method : Nat])]
      BY DEF Declarations, DeclaredOK
    <3>2. CASE part = "methods"
      BY <1>1, <1>7, <3>1, <3>2 DEF handles, on_command
    <3>3. CASE part = "appliers"
      BY <1>1, <3>3 DEF applies
    <3> QED  BY <3>2, <3>3 DEF Parts
  <2>2. matching(c, url)' = matching(c, url)
    BY <2>1 DEF matching, Where
  <2>3. Chosen(c, url)' = Chosen(c, url)
    BY <2>2 DEF Chosen
  <2> QED  BY <1>3, <1>5, <1>7, <2>2, <2>3
<1> QED  BY <1>6, <1>7

LEMMA NoneIsLast == LastOf({}) = Undeclared /\ FirstOf({}) = Undeclared
BY DEF LastOf, FirstOf

LEMMA DeclarationsInvariant == AggregatesSpec => []Declarations
<1>1. ASSUME NothingDeclared
      PROVE  Declarations
  <2>1. declared = <<>> /\ (\A C, p, t : By(C, p, t) = {})
    BY <1>1 DEF NothingDeclared, By
  <2>2. NoTable \in Methods /\ NoTables \in ClassTables
    BY DEF NoTable, NoTables, Methods, ClassTables
  <2>3. DeclaredOK
    BY <1>1, <2>1, <2>2 DEF NothingDeclared, DeclaredOK
  <2>4. LastsOK
    <3>1. \A c, p, t : OwnLast(c, p, t) = Undeclared /\ LastOf(By(Classes, p, t)) = Undeclared
      BY <2>1, NoneIsLast DEF OwnLast
    <3> QED  BY <1>1, <3>1 DEF NothingDeclared, LastsOK, NoTable, NoTables
  <2>5. FirstsOK
    <3> SUFFICES ASSUME NEW c \in Classes, NEW url
                 PROVE  /\ Chosen(c, url) = FirstMethod(c, url)
                        /\ matching(c, url) = <<>> <=> FirstMethod(c, url) = Undeclared
      BY DEF FirstsOK
    <3>1. FirstMethod(c, url) = Undeclared
      BY <2>1, NoneIsLast DEF FirstMethod
    <3>2. matching(c, url) = <<>>
      <4>1. listed[c] = <<>>
        BY <1>1 DEF NothingDeclared
      <4> QED  BY <4>1, PickedNothing DEF matching, Where
    <3> QED  BY <3>1, <3>2 DEF Chosen
  <2> QED  BY <2>3, <2>4, <2>5 DEF Declarations
<1>2. ASSUME Declarations, [Declare]_aggregates
      PROVE  Declarations'
  <2>1. CASE Declare
    <3>1. PICK class \in Classes, type \in Types : handles(class, type) \/ applies(class, type)
      BY <2>1 DEF Declare
    <3> QED  BY <1>2, <3>1, DeclaredStep, LastsStep, FirstsStep DEF Declarations
  <2>2. CASE UNCHANGED aggregates
    <3>1. /\ declared' = declared /\ listed' = listed /\ tables' = tables
          /\ statics' = statics /\ stateful' = stateful
      BY <2>2 DEF aggregates
    <3>2. DeclaredOK'
      BY <1>2, <3>1 DEF Declarations, DeclaredOK
    <3>3. \A C, p, t : By(C, p, t)' = By(C, p, t)
      BY <3>1 DEF By
    <3>4. LastsOK'
      BY <1>2, <3>1, <3>3 DEF Declarations, LastsOK, OwnLast
    <3>5. FirstsOK'
      <4> SUFFICES ASSUME NEW c \in Classes, NEW url
                   PROVE  /\ Chosen(c, url)' = FirstMethod(c, url)'
                          /\ matching(c, url)' = <<>> <=> FirstMethod(c, url)' = Undeclared
        BY DEF FirstsOK
      <4>1. matching(c, url)' = matching(c, url)
        BY <3>1 DEF matching, Where
      <4>2. FirstMethod(c, url)' = FirstMethod(c, url)
        BY <3>3 DEF FirstMethod
      <4>3. Chosen(c, url)' = Chosen(c, url)
        BY <4>1 DEF Chosen
      <4> QED  BY <1>2, <4>1, <4>2, <4>3 DEF Declarations, FirstsOK
    <3> QED  BY <3>2, <3>4, <3>5 DEF Declarations
  <2> QED  BY <1>2, <2>1, <2>2
<1> QED  BY <1>1, <1>2, PTL DEF AggregatesSpec

\* Only types are declared: whatever else is looked for has no declaration.
LEMMA NothingElse ==
    ASSUME DeclaredOK, NEW name, name \notin Types, NEW C, NEW p
    PROVE  LastOf(By(C, p, name)) = Undeclared /\ FirstOf(By(C, p, name)) = Undeclared
<1>1. By(C, p, name) = {}
  <2>1. ASSUME NEW i \in DOMAIN declared
        PROVE  declared[i].type \in Types
    <3> DEFINE R == [class : Classes, part : Parts, type : Types]
    <3>1. declared \in Seq(R)
      BY DEF DeclaredOK
    <3>2. \A r \in R : r.type \in Types
      OBVIOUS
    <3> HIDE DEF R
    <3>3. declared[i] \in R
      BY <3>1
    <3> QED  BY <3>2, <3>3
  <2> QED  BY <2>1 DEF By
<1> QED  BY <1>1, NoneIsLast

\* A table of appliers that holds the last ones makes the state they make.
LEMMA Rebuilt ==
    ASSUME DeclaredOK, NEW C, NEW A, NEW prior,
           \A t \in Types : A[t] = LastOf(By(C, "appliers", t))
    PROVE  rebuilt_by(A, prior) = State(C, prior)
<1> DEFINE met == [i \in DOMAIN prior.pages |->
                     IF has_event(prior.pages[i])
                     THEN Lookup(A, type_name_from_url(prior.pages[i].event.url))
                     ELSE Undeclared]
           told == [i \in DOMAIN prior.pages |->
                      LastOf(By(C, "appliers", type_name_from_url(prior.pages[i].event.url)))]
<1>1. ASSUME NEW i \in DOMAIN prior.pages
      PROVE  (IF has_event(prior.pages[i])
              THEN Lookup(A, type_name_from_url(prior.pages[i].event.url))
              ELSE Undeclared)
               = LastOf(By(C, "appliers", type_name_from_url(prior.pages[i].event.url)))
  <2> DEFINE url == prior.pages[i].event.url
             name == type_name_from_url(url)
  <2>1. Lookup(A, name) = LastOf(By(C, "appliers", name))
    <3> HIDE DEF name
    <3> QED  BY NothingElse DEF Lookup
  <2>2. ~has_event(prior.pages[i]) => name \notin Types
    BY AggregatesAssumption DEF has_event
  <2>3. ~has_event(prior.pages[i]) => LastOf(By(C, "appliers", name)) = Undeclared
    <3> HIDE DEF name
    <3> QED  BY <2>2, NothingElse
  <2> QED  BY <2>1, <2>3
<1>2. met = told
  BY <1>1
<1>3. rebuilt_by(A, prior) = Where(met, LAMBDA applier : applier # Undeclared)
  BY DEF rebuilt_by
<1>4. State(C, prior) = Where(told, LAMBDA place : place # Undeclared)
  BY DEF State
<1> HIDE DEF met, told
<1> QED  BY <1>2, <1>3, <1>4 DEF Where

\* What each way answers, told by the declarations.
LEMMA Dispatched ==
    ASSUME Declarations, NEW class \in Classes, NEW request, NEW prior,
           NEW name, name = type_name_from_url(Url0(request))
    PROVE  /\ router_dispatch(class, request, prior)
                = IF class \in Rebuilding
                  THEN answer(request, FirstMethod(class, Url0(request)), State({class}, prior), prior)
                  ELSE Ends("get_state")
           /\ base_dispatch(class, request, prior)
                = answer(request, LastOf(By({class}, "methods", name)), State({class}, prior), prior)
           /\ component_dispatch(class, request, prior)
                = answer(request, LastOf(By({class}, "methods", name)), State({class}, prior), prior)
           /\ legacy_dispatch(class, request, prior)
                = answer(request, LastOf(By(Classes, "methods", name)), State(Classes, prior), prior)
<1>1. DeclaredOK /\ LastsOK /\ FirstsOK
  BY DEF Declarations
<1>2. /\ rebuilt_by(stateful[class], prior) = State({class}, prior)
      /\ rebuilt_by(tables[class].appliers, prior) = State({class}, prior)
      /\ rebuilt_by(statics.appliers, prior) = State(Classes, prior)
  <2>1. \A t \in Types : stateful[class][t] = LastOf(By({class}, "appliers", t))
    BY <1>1 DEF LastsOK, OwnLast
  <2>2. \A t \in Types : tables[class].appliers[t] = LastOf(By({class}, "appliers", t))
    BY <1>1 DEF LastsOK, OwnLast
  <2>3. \A t \in Types : statics.appliers[t] = LastOf(By(Classes, "appliers", t))
    BY <1>1 DEF LastsOK
  <2>4. \A C, A : (\A t \in Types : A[t] = LastOf(By(C, "appliers", t)))
                     => rebuilt_by(A, prior) = State(C, prior)
    BY <1>1, Rebuilt
  <2> QED  BY <2>1, <2>2, <2>3, <2>4
<1>3. /\ Lookup(tables[class].methods, name) = LastOf(By({class}, "methods", name))
      /\ Lookup(statics.methods, name) = LastOf(By(Classes, "methods", name))
  <2>1. CASE name \in Types
    BY <1>1, <2>1 DEF LastsOK, OwnLast, Lookup
  <2>2. CASE name \notin Types
    BY <1>1, <2>2, NothingElse DEF Lookup
  <2> QED  BY <2>1, <2>2
<1>4. router_dispatch(class, request, prior)
        = IF class \in Rebuilding
          THEN answer(request, Chosen(class, Url0(request)), rebuilt_by(stateful[class], prior), prior)
          ELSE Ends("get_state")
  BY DEF router_dispatch, Chosen
<1>5. Chosen(class, Url0(request)) = FirstMethod(class, Url0(request))
  BY <1>1 DEF FirstsOK
<1> QED  BY <1>2, <1>3, <1>4, <1>5 DEF base_dispatch, component_dispatch, legacy_dispatch, rebuild_state

\* A command runs when its name is one the table announces.
LEMMA RunsIffAnnounced ==
    ASSUME NEW request, NEW method, NEW state, NEW prior,
           NEW name, name = type_name_from_url(Url0(request)),
           NEW table, name \notin Types => method = Undeclared,
           name \in Types => method = table[name]
    PROVE  answer(request, method, state, prior).end = "ran"
             <=> name \in {t \in Types : table[t] # Undeclared}
<1>1. name \in Types => /\ request # <<>> /\ Head(request) # NoUrl
                        /\ ~type_url_matches(Head(request), NotificationType)
  BY AggregatesAssumption DEF Url0, type_url_matches
<1> QED  BY <1>1 DEF answer, Ends

\* However many declarations there were: of several for one type, CommandRouter,
\* if it can rebuild, runs the first, the base class the last, the legacy class
\* the last of anybody, in the state the declared appliers make; and the two
\* classes that announce commands run just those.
THEOREM DeclarationsAreObeyed == AggregatesSpec => []RunsAsDeclared
<1>1. ASSUME Declarations, NEW class \in Classes, NEW request, NEW prior,
             NEW name, name = type_name_from_url(Url0(request))
      PROVE  /\ base_dispatch(class, request, prior).end = "ran" <=> name \in descriptor(class)
             /\ legacy_dispatch(class, request, prior).end = "ran" <=> name \in legacy_descriptor
  <2> DEFINE own == LastOf(By({class}, "methods", name))
             anybody == LastOf(By(Classes, "methods", name))
  <2>1. DeclaredOK /\ LastsOK
    BY <1>1 DEF Declarations
  <2>2. name \notin Types => own = Undeclared /\ anybody = Undeclared
    BY <2>1, NothingElse
  <2>3. name \in Types => own = tables[class].methods[name] /\ anybody = statics.methods[name]
    BY <2>1 DEF LastsOK, OwnLast
  <2>4. /\ base_dispatch(class, request, prior) = answer(request, own, State({class}, prior), prior)
        /\ legacy_dispatch(class, request, prior)
             = answer(request, anybody, State(Classes, prior), prior)
    BY <1>1, Dispatched
  <2> HIDE DEF own, anybody
  <2>5. base_dispatch(class, request, prior).end = "ran" <=> name \in descriptor(class)
    BY <1>1, <2>2, <2>3, <2>4, RunsIffAnnounced DEF descriptor
  <2>6. legacy_dispatch(class, request, prior).end = "ran" <=> name \in legacy_descriptor
    BY <1>1, <2>2, <2>3, <2>4, RunsIffAnnounced DEF legacy_descriptor
  <2> QED  BY <2>5, <2>6
<1>2. Declarations => RunsAsDeclared
  <2> SUFFICES ASSUME Declarations
               PROVE  RunsAsDeclared
    OBVIOUS
  <2> USE DEF FirstMethod
  <2> QED  BY <1>1, Dispatched DEF RunsAsDeclared
<1> QED  BY <1>2, DeclarationsInvariant, PTL

\* Without competition there is one declaration of a kind at most, and it is
\* the first and the last.
LEMMA OneDeclaration ==
    ASSUME DeclaredOK, Unambiguous, NEW C, NEW p, NEW t
    PROVE  FirstOf(By(C, p, t)) = LastOf(By(C, p, t))
<1> DEFINE places == By(C, p, t)
<1>1. \A i, j \in places : i = j
  BY DEF Unambiguous, By
<1>2. places \in SUBSET Nat
  BY DEF DeclaredOK, By
<1> HIDE DEF places
<1>3. CASE places = {}
  BY <1>3, NoneIsLast DEF places
<1>4. CASE places # {}
  <2>1. PICK x \in places : TRUE
    BY <1>4
  <2>2. \A y \in places : x <= y /\ y <= x
    BY <1>1, <1>2, <2>1
  <2>3. FirstOf(places) = x /\ LastOf(places) = x
    BY <1>2, <2>2, FirstIs, LastIs
  <2> QED  BY <2>3 DEF places
<1> QED  BY <1>3, <1>4

\* For every number of declarations that do not compete, each way of writing an
\* aggregate answers a command as the base class does, under its own condition:
\* CommandRouter for the usual prefix and with a rebuild function, the legacy
\* class if nobody else declares, CommandHandlerRouter as far as the state goes.
THEOREM WaysAgreeWithoutRivals == AggregatesSpec => []WaysAgree
<1>1. ASSUME Declarations, Unambiguous, NEW class \in Classes, NEW request, NEW prior
      PROVE  /\ component_dispatch(class, request, prior) = base_dispatch(class, request, prior)
             /\ class \in Rebuilding /\ Url0(request).prefix = GoogleApis =>
                   router_dispatch(class, request, prior) = base_dispatch(class, request, prior)
             /\ (\A i \in DOMAIN declared : declared[i].class = class) =>
                   legacy_dispatch(class, request, prior) = base_dispatch(class, request, prior)
  <2> DEFINE url == Url0(request)
             name == type_name_from_url(url)
  <2>1. DeclaredOK
    BY <1>1 DEF Declarations
  <2>2. /\ class \in Rebuilding => router_dispatch(class, request, prior)
             = answer(request, FirstMethod(class, url), State({class}, prior), prior)
        /\ base_dispatch(class, request, prior)
             = answer(request, LastOf(By({class}, "methods", name)), State({class}, prior), prior)
        /\ component_dispatch(class, request, prior)
             = answer(request, LastOf(By({class}, "methods", name)), State({class}, prior), prior)
        /\ legacy_dispatch(class, request, prior)
             = answer(request, LastOf(By(Classes, "methods", name)), State(Classes, prior), prior)
    BY <1>1, Dispatched
  <2>3. url.prefix = GoogleApis => FirstMethod(class, url) = LastOf(By({class}, "methods", name))
    BY <1>1, <2>1, OneDeclaration DEF FirstMethod
  <2>4. ASSUME \A i \in DOMAIN declared : declared[i].class = class
        PROVE  /\ LastOf(By(Classes, "methods", name)) = LastOf(By({class}, "methods", name))
               /\ State(Classes, prior) = State({class}, prior)
    <3>1. \A p, t : By(Classes, p, t) = By({class}, p, t)
      BY <2>4 DEF By
    <3> QED  BY <3>1 DEF State
  <2> QED  BY <2>2, <2>3, <2>4
<1>2. Declarations => WaysAgree
  BY <1>1 DEF WaysAgree
<1> QED  BY <1>2, DeclarationsInvariant, PTL

-----------------------------------------------------------------------------
(* Reading a stream: what one page becomes. *)

Pages == [sequence : Nat, created_at : BOOLEAN, event : Events]

StreamsOK ==
    /\ upcasters \in Seq(Endings)
    /\ stored \in [SourceDomains -> Seq(Pages)]
    /\ \A d \in SourceDomains : \A i \in 1..Len(stored[d]) :
          stored[d][i].sequence = i - 1 /\ stored[d][i].created_at

\* Every entry of the map is the last registration for it.
BoxesOK ==
    /\ projectors \in Seq(Projected)
    /\ DOMAIN boxed = {projectors[i] : i \in DOMAIN projectors}
    /\ \A t \in DOMAIN boxed :
         /\ boxed[t] \in DOMAIN projectors /\ projectors[boxed[t]] = t
         /\ \A i \in DOMAIN projectors : projectors[i] = t => i <= boxed[t]

\* The endings that match, the first of them, and what it makes.
LEMMA FirstMatch ==
    ASSUME upcasters \in Seq(Endings), NEW url
    PROVE  IF \A i \in DOMAIN upcasters : url \notin EndsIn[upcasters[i]]
           THEN Matching(url) = <<>>
           ELSE /\ Matching(url) # <<>>
                /\ Head(Matching(url)) =
                     upcasters[CHOOSE i \in {k \in DOMAIN upcasters : url \in EndsIn[upcasters[k]]} :
                                  \A j \in {k \in DOMAIN upcasters : url \in EndsIn[upcasters[k]]} : i <= j]
<1> DEFINE hits == {i \in DOMAIN upcasters : url \in EndsIn[upcasters[i]]}
           first == CHOOSE i \in hits : \A j \in hits : i <= j
<1>1. Matching(url) = Picked(upcasters, hits)
  BY DEF Matching, Where
<1>2. IsSequence(upcasters) /\ DOMAIN upcasters = 1..Len(upcasters)
  BY SeqIsSequence
<1>3. CASE hits = {}
  <2>1. \A i \in 1..Len(upcasters) : i \notin hits
    BY <1>3
  <2>2. \A i \in DOMAIN upcasters : url \notin EndsIn[upcasters[i]]
    BY <1>3
  <2> HIDE DEF hits
  <2> QED  BY <1>1, <1>2, <2>1, <2>2, PickedNone
<1>4. CASE hits # {}
  <2>1. ~ \A i \in DOMAIN upcasters : url \notin EndsIn[upcasters[i]]
    BY <1>4
  <2>2. hits \in SUBSET Nat /\ hits \subseteq 1..Len(upcasters)
    BY <1>2
  <2>3. first \in hits /\ \A j \in hits : first <= j
    <3> HIDE DEF hits
    <3>1. \E x \in hits : \A y \in hits : x <= y
      BY <1>4, <2>2, Minimum
    <3> QED  BY <3>1
  <2> HIDE DEF first, hits
  <2>4. Picked(upcasters, hits) # <<>> /\ Picked(upcasters, hits)[1] = upcasters[first]
    <3>1. first \in 1..Len(upcasters) /\ \A j \in 1..Len(upcasters) : j \in hits => first <= j
      BY <2>2, <2>3
    <3> QED  BY <1>2, <2>3, <3>1, PickedHead
  <2>5. Matching(url) # <<>> /\ Head(Matching(url)) = upcasters[first]
    BY <1>1, <2>4
  <2> QED  BY <2>1, <2>5 DEF first, hits
<1> QED  BY <1>3, <1>4

\* A page comes out with its payload, its place and its time, and as the event it
\* is in the end.
LEMMA PageUpcast ==
    ASSUME upcasters \in Seq(Endings), NEW page \in Pages
    PROVE  /\ upcast_page(page).event.url = CurrentUrl(page.event)
           /\ upcast_page(page).event.value = page.event.value
           /\ upcast_page(page).sequence = page.sequence
           /\ upcast_page(page).created_at = page.created_at
<1> DEFINE url == page.event.url
           hits == {i \in DOMAIN upcasters : url \in EndsIn[upcasters[i]]}
           first == CHOOSE i \in hits : \A j \in hits : i <= j
           found == Matching(url)
<1>1. /\ page = [sequence |-> page.sequence, created_at |-> page.created_at, event |-> page.event]
      /\ page.event = [url |-> page.event.url, value |-> page.event.value]
  BY ReadAssumption DEF Pages
<1>2. IF \A i \in DOMAIN upcasters : url \notin EndsIn[upcasters[i]]
      THEN found = <<>>
      ELSE found # <<>> /\ Head(found) = upcasters[first]
  BY FirstMatch
<1>3. hits = {} <=> \A i \in DOMAIN upcasters : url \notin EndsIn[upcasters[i]]
  OBVIOUS
<1>4. upcast_page(page) = IF url = NoUrl \/ found = <<>> THEN page
                          ELSE [page EXCEPT !.event.url = Makes[Head(found)]]
  BY DEF upcast_page, has_event
<1>5. CurrentUrl(page.event) = IF url = NoUrl \/ hits = {} THEN url ELSE Makes[upcasters[first]]
  BY DEF CurrentUrl
<1> HIDE DEF found, first, hits
<1>6. CASE url = NoUrl \/ found = <<>>
  BY <1>2, <1>3, <1>4, <1>5, <1>6
<1>7. CASE ~(url = NoUrl \/ found = <<>>)
  <2>1. upcast_page(page) = [page EXCEPT !.event.url = Makes[Head(found)]]
    BY <1>4, <1>7
  <2>2. CurrentUrl(page.event) = Makes[Head(found)]
    BY <1>2, <1>3, <1>5, <1>7
  <2> QED  BY <1>1, <2>1, <2>2
<1> QED  BY <1>6, <1>7

\* What is projected of one page.
OneBox(page) == IF IsBoxed(page) THEN <<Boxes(page)>> ELSE <<>>

LEMMA PageProjected ==
    ASSUME upcasters \in Seq(Endings), BoxesOK, NEW page \in Pages
    PROVE  OneBox(upcast_page(page)) = ProjectsAs(page.event)
<1> DEFINE new == upcast_page(page)
           url == CurrentUrl(page.event)
           type == type_name_from_url(url)
           places == {i \in DOMAIN projectors : projectors[i] = type}
           last == CHOOSE i \in places : \A j \in places : i >= j
<1>1. new.event.url = url /\ new.event.value = page.event.value
  BY PageUpcast
<1>2. type \in DOMAIN boxed <=> places # {}
  BY DEF BoxesOK
<1>3. ASSUME places # {}
      PROVE  last = boxed[type]
  <2>1. type \in DOMAIN boxed
    BY <1>2, <1>3
  <2>2. /\ boxed[type] \in DOMAIN projectors /\ projectors[boxed[type]] = type
        /\ \A i \in DOMAIN projectors : projectors[i] = type => i <= boxed[type]
    BY <2>1 DEF BoxesOK
  <2>3. places \in SUBSET Nat
    BY DEF BoxesOK
  <2>4. boxed[type] \in places /\ \A i \in places : i <= boxed[type]
    BY <2>2
  <2> HIDE DEF places, type
  <2>5. LastOf(places) = boxed[type]
    BY <2>3, <2>4, LastIs
  <2> QED  BY <1>3, <2>5 DEF LastOf
<1>4. ProjectsAs(page.event) =
        IF url = NoUrl \/ places = {} THEN <<>>
        ELSE <<[by |-> last, value |-> page.event.value]>>
  BY DEF ProjectsAs
<1>5. OneBox(new) = IF new.event.url # NoUrl /\ type_name_from_url(new.event.url) \in DOMAIN boxed
                    THEN <<[by |-> boxed[type_name_from_url(new.event.url)],
                            value |-> new.event.value]>>
                    ELSE <<>>
  BY DEF OneBox, IsBoxed, Boxes, has_event
<1> HIDE DEF last, places, url
<1>6. OneBox(new) = IF url # NoUrl /\ type \in DOMAIN boxed
                    THEN <<[by |-> boxed[type], value |-> page.event.value]>>
                    ELSE <<>>
  BY <1>1, <1>5
<1> HIDE DEF type, new
<1>7. OneBox(new) = ProjectsAs(page.event)
  BY <1>2, <1>3, <1>4, <1>6
<1> QED  BY <1>7 DEF new

-----------------------------------------------------------------------------
(* What many pages become. *)

Kept(pages) == Where(pages, IsBoxed)
BoxesOf(kept) == [i \in DOMAIN kept |-> Boxes(kept[i])]

\* What of the projections could be read.
Readable(boxes) == Where(boxes, LAMBDA p : p.value \notin {"broken", "private"})

LEMMA KeptAppend ==
    ASSUME NEW pages, IsSequence(pages), NEW page
    PROVE  Kept(Append(pages, page)) = IF IsBoxed(page) THEN Append(Kept(pages), page)
                                       ELSE Kept(pages)
<1> DEFINE K == {i \in DOMAIN pages : IsBoxed(pages[i])}
           longer == Append(pages, page)
           L == {i \in DOMAIN longer : IsBoxed(longer[i])}
<1>1. Kept(pages) = Picked(pages, K) /\ Kept(longer) = Picked(longer, L)
  BY DEF Kept, Where
<1>2. (\A i \in 1..Len(pages) : longer[i] = pages[i]) /\ longer[Len(pages) + 1] = page
  BY AppendFacts
<1>3. IsSequence(longer) /\ Len(longer) = Len(pages) + 1
  BY AppendFacts
<1>4. Len(pages) \in Nat /\ DOMAIN pages = 1..Len(pages)
  BY Places
<1>5. DOMAIN longer = 1..(Len(pages) + 1)
  BY <1>3, Places
<1> HIDE DEF longer
<1>6. \A i \in 1..Len(pages) : i \in L <=> i \in K
  BY <1>2, <1>4, <1>5
<1>7. Len(pages) + 1 \in L <=> IsBoxed(page)
  BY <1>2, <1>4, <1>5
<1> HIDE DEF K, L
<1>8. Picked(Append(pages, page), L) = IF Len(pages) + 1 \in L
                                       THEN Append(Picked(pages, K), page) ELSE Picked(pages, K)
  BY <1>6, PickedGrows
<1> QED  BY <1>1, <1>7, <1>8 DEF longer

LEMMA ReadableAppend ==
    ASSUME NEW boxes, IsSequence(boxes), NEW box
    PROVE  Readable(Append(boxes, box)) = IF box.value \notin {"broken", "private"} THEN Append(Readable(boxes), box)
                                          ELSE Readable(boxes)
<1> DEFINE K == {i \in DOMAIN boxes : boxes[i].value \notin {"broken", "private"}}
           longer == Append(boxes, box)
           L == {i \in DOMAIN longer : longer[i].value \notin {"broken", "private"}}
<1>1. Readable(boxes) = Picked(boxes, K) /\ Readable(longer) = Picked(longer, L)
  BY DEF Readable, Where
<1>2. (\A i \in 1..Len(boxes) : longer[i] = boxes[i]) /\ longer[Len(boxes) + 1] = box
  BY AppendFacts
<1>3. IsSequence(longer) /\ Len(longer) = Len(boxes) + 1
  BY AppendFacts
<1>4. Len(boxes) \in Nat /\ DOMAIN boxes = 1..Len(boxes)
  BY Places
<1>5. DOMAIN longer = 1..(Len(boxes) + 1)
  BY <1>3, Places
<1> HIDE DEF longer
<1>6. \A i \in 1..Len(boxes) : i \in L <=> i \in K
  BY <1>2, <1>4, <1>5
<1>7. Len(boxes) + 1 \in L <=> box.value \notin {"broken", "private"}
  BY <1>2, <1>4, <1>5
<1> HIDE DEF K, L
<1>8. Picked(Append(boxes, box), L) = IF Len(boxes) + 1 \in L
                                      THEN Append(Picked(boxes, K), box) ELSE Picked(boxes, K)
  BY <1>6, PickedGrows
<1> QED  BY <1>1, <1>7, <1>8 DEF longer

LEMMA ReadableConcat ==
    ASSUME NEW boxes, IsSequence(boxes), NEW more, IsSequence(more)
    PROVE  Readable(boxes \o more) = Readable(boxes) \o Readable(more)
<1> DEFINE K == {i \in DOMAIN boxes : boxes[i].value \notin {"broken", "private"}}
           L == {i \in DOMAIN more : more[i].value \notin {"broken", "private"}}
           all == boxes \o more
           M == {i \in DOMAIN all : all[i].value \notin {"broken", "private"}}
<1>1. /\ Readable(boxes) = Picked(boxes, K) /\ Readable(more) = Picked(more, L)
      /\ Readable(all) = Picked(all, M)
  BY DEF Readable, Where
<1>2. \A i \in 1..Len(boxes) : all[i] = boxes[i]
  BY ConcatFacts
<1>3. \A i \in 1..Len(more) : all[Len(boxes) + i] = more[i]
  BY ConcatFacts
<1>4. IsSequence(all) /\ Len(all) = Len(boxes) + Len(more)
  BY ConcatFacts
<1>5. /\ Len(boxes) \in Nat /\ DOMAIN boxes = 1..Len(boxes)
      /\ Len(more) \in Nat /\ DOMAIN more = 1..Len(more)
  BY Places
<1>6. DOMAIN all = 1..(Len(boxes) + Len(more))
  BY <1>4, Places
<1> HIDE DEF all
<1>7. \A i \in 1..Len(boxes) : i \in M <=> i \in K
  BY <1>2, <1>5, <1>6
<1>8. \A i \in 1..Len(more) : Len(boxes) + i \in M <=> i \in L
  BY <1>3, <1>5, <1>6
<1> HIDE DEF K, L, M
<1>9. Joins(boxes, more, K, L, M)
  BY <1>7, <1>8, PickedJoins
<1> QED  BY <1>1, <1>9 DEF all, Joins

LEMMA BoxesAppend ==
    ASSUME NEW kept, IsSequence(kept), NEW page
    PROVE  /\ IsSequence(BoxesOf(kept))
           /\ BoxesOf(Append(kept, page)) = Append(BoxesOf(kept), Boxes(page))
<1> DEFINE n == Len(kept)
           f == BoxesOf(kept)
           longer == Append(kept, page)
           g == BoxesOf(longer)
<1>1. n \in Nat /\ DOMAIN kept = 1..n
  BY Places
<1>2. f = [i \in 1..n |-> f[i]] /\ \A i \in 1..n : f[i] = Boxes(kept[i])
  BY <1>1 DEF BoxesOf
<1>3. (\A i \in 1..n : longer[i] = kept[i]) /\ longer[n + 1] = page
  BY AppendFacts
<1>4. IsSequence(longer) /\ Len(longer) = n + 1
  BY AppendFacts
<1>5. DOMAIN longer = 1..(n + 1)
  BY <1>1, <1>4, Places
<1> HIDE DEF longer, n
<1>6. g = [i \in 1..(n + 1) |-> g[i]] /\ \A i \in 1..(n + 1) : g[i] = Boxes(longer[i])
  BY <1>5 DEF BoxesOf
<1> HIDE DEF f, g
<1>7. (\A i \in 1..n : g[i] = f[i]) /\ g[n + 1] = Boxes(page)
  BY <1>1, <1>2, <1>3, <1>6
<1>8. IsSequence(f) /\ g = Append(f, g[n + 1])
  BY <1>1, <1>2, <1>6, <1>7, MadeGrows
<1> QED  BY <1>7, <1>8 DEF f, g, longer

LEMMA UpcastAppend ==
    ASSUME NEW pages, IsSequence(pages), NEW page
    PROVE  /\ IsSequence(upcast(pages))
           /\ upcast(Append(pages, page)) = Append(upcast(pages), upcast_page(page))
<1> DEFINE n == Len(pages)
           f == upcast(pages)
           longer == Append(pages, page)
           g == upcast(longer)
<1>1. n \in Nat /\ DOMAIN pages = 1..n
  BY Places
<1>2. f = [i \in 1..n |-> f[i]] /\ \A i \in 1..n : f[i] = upcast_page(pages[i])
  BY <1>1 DEF upcast
<1>3. (\A i \in 1..n : longer[i] = pages[i]) /\ longer[n + 1] = page
  BY AppendFacts
<1>4. IsSequence(longer) /\ Len(longer) = n + 1
  BY AppendFacts
<1>5. DOMAIN longer = 1..(n + 1)
  BY <1>1, <1>4, Places
<1> HIDE DEF longer, n
<1>6. g = [i \in 1..(n + 1) |-> g[i]] /\ \A i \in 1..(n + 1) : g[i] = upcast_page(longer[i])
  BY <1>5 DEF upcast
<1> HIDE DEF f, g
<1>7. (\A i \in 1..n : g[i] = f[i]) /\ g[n + 1] = upcast_page(page)
  BY <1>1, <1>2, <1>3, <1>6
<1>8. IsSequence(f) /\ g = Append(f, g[n + 1])
  BY <1>1, <1>2, <1>6, <1>7, MadeGrows
<1> QED  BY <1>7, <1>8 DEF f, g, longer

\* What the registrations say of each page.
Told(pages) == [i \in 1..Len(pages) |-> ProjectsAs(pages[i].event)]

LEMMA ToldAppend ==
    ASSUME NEW pages, IsSequence(pages), NEW page
    PROVE  /\ IsSequence(Told(pages))
           /\ Told(Append(pages, page)) = Append(Told(pages), ProjectsAs(page.event))
<1> DEFINE n == Len(pages)
           f == Told(pages)
           longer == Append(pages, page)
           g == Told(longer)
<1>1. n \in Nat
  BY Places
<1>2. f = [i \in 1..n |-> f[i]] /\ \A i \in 1..n : f[i] = ProjectsAs(pages[i].event)
  BY DEF Told
<1>3. (\A i \in 1..n : longer[i] = pages[i]) /\ longer[n + 1] = page
  BY AppendFacts
<1>4. Len(longer) = n + 1
  BY AppendFacts
<1> HIDE DEF longer, n
<1>6. g = [i \in 1..(n + 1) |-> g[i]] /\ \A i \in 1..(n + 1) : g[i] = ProjectsAs(longer[i].event)
  BY <1>4 DEF Told
<1> HIDE DEF f, g
<1>7. (\A i \in 1..n : g[i] = f[i]) /\ g[n + 1] = ProjectsAs(page.event)
  BY <1>1, <1>2, <1>3, <1>6
<1>8. IsSequence(f) /\ g = Append(f, g[n + 1])
  <2>1. n \in Nat /\ f = [i \in 1..n |-> f[i]]
    BY <1>1, <1>2
  <2>2. g = [i \in 1..(n + 1) |-> g[i]] /\ \A i \in 1..n : g[i] = f[i]
    BY <1>6, <1>7
  <2> QED  BY <2>1, <2>2, MadeGrows
<1> QED  BY <1>7, <1>8 DEF f, g, longer

\* One page more is one projection more, or none.
LEMMA ProjectAppend ==
    ASSUME NEW pages, IsSequence(pages), NEW page
    PROVE  /\ IsSequence(project(pages)) /\ IsSequence(project_cloud(pages))
           /\ project(Append(pages, page)) = project(pages) \o OneBox(page)
<1> DEFINE kept == Kept(pages)
<1>1. IsSequence(kept) /\ \A s, J : IsSequence(s) => IsSequence(Picked(s, J))
  BY PickedIsSequence DEF Kept, Where
<1>2. project(pages) = BoxesOf(kept) /\ project(Append(pages, page)) = BoxesOf(Kept(Append(pages, page)))
  BY DEF project, BoxesOf, Kept
<1>3. Kept(Append(pages, page)) = IF IsBoxed(page) THEN Append(kept, page) ELSE kept
  BY KeptAppend
<1> HIDE DEF kept
<1>4. IsSequence(BoxesOf(kept)) /\ BoxesOf(Append(kept, page)) = Append(BoxesOf(kept), Boxes(page))
  BY <1>1, BoxesAppend
<1>5. \A s, e : IsSequence(s) => Append(s, e) = s \o <<e>> /\ s \o <<>> = s
  BY AppendFacts, ConcatFacts, EmptyIsSequence
<1>6. project(Append(pages, page)) = project(pages) \o OneBox(page)
  <2> DEFINE b == BoxesOf(kept)
  <2> HIDE DEF b
  <2>1. Append(b, Boxes(page)) = b \o <<Boxes(page)>> /\ b \o <<>> = b
    BY <1>4, <1>5 DEF b
  <2> QED  BY <1>2, <1>3, <1>4, <2>1 DEF OneBox, b
<1>7. IsSequence(project_cloud(pages))
  <2> DEFINE K == {i \in DOMAIN pages : IsBoxed(pages[i]) /\ Tells(pages[i])}
             rest == Picked(pages, K)
  <2>1. project_cloud(pages) = BoxesOf(rest)
    BY DEF project_cloud, BoxesOf, Where
  <2>2. IsSequence(rest)
    BY <1>1
  <2> HIDE DEF rest
  <2> QED  BY <2>1, <2>2, BoxesAppend
<1> QED  BY <1>2, <1>4, <1>6, <1>7

LEMMA CloudAppend ==
    ASSUME NEW pages, IsSequence(pages), NEW page
    PROVE  project_cloud(Append(pages, page)) =
             IF IsBoxed(page) /\ Tells(page) THEN Append(project_cloud(pages), Boxes(page))
             ELSE project_cloud(pages)
<1> DEFINE K == {i \in DOMAIN pages : IsBoxed(pages[i]) /\ Tells(pages[i])}
           longer == Append(pages, page)
           L == {i \in DOMAIN longer : IsBoxed(longer[i]) /\ Tells(longer[i])}
<1>1. project_cloud(pages) = BoxesOf(Picked(pages, K))
      /\ project_cloud(longer) = BoxesOf(Picked(longer, L))
  BY DEF project_cloud, BoxesOf, Where
<1>2. (\A i \in 1..Len(pages) : longer[i] = pages[i]) /\ longer[Len(pages) + 1] = page
  BY AppendFacts
<1>3. IsSequence(longer) /\ Len(longer) = Len(pages) + 1
  BY AppendFacts
<1>4. Len(pages) \in Nat /\ DOMAIN pages = 1..Len(pages)
  BY Places
<1>5. DOMAIN longer = 1..(Len(pages) + 1)
  BY <1>3, Places
<1> HIDE DEF longer
<1>6. \A i \in 1..Len(pages) : i \in L <=> i \in K
  BY <1>2, <1>4, <1>5
<1>7. Len(pages) + 1 \in L <=> IsBoxed(page) /\ Tells(page)
  BY <1>2, <1>4, <1>5
<1> HIDE DEF K, L
<1>8. Picked(Append(pages, page), L) = IF Len(pages) + 1 \in L
                                       THEN Append(Picked(pages, K), page) ELSE Picked(pages, K)
  BY <1>6, PickedGrows
<1> DEFINE kept == Picked(pages, K)
<1>9. IsSequence(kept)
  BY PickedIsSequence
<1> HIDE DEF kept
<1>10. BoxesOf(Append(kept, page)) = Append(BoxesOf(kept), Boxes(page))
  BY <1>9, BoxesAppend
<1> QED  BY <1>1, <1>7, <1>8, <1>10 DEF longer, kept

LEMMA NothingProjected ==
    project(<<>>) = <<>> /\ project_cloud(<<>>) = <<>> /\ Readable(<<>>) = <<>>
<1>1. \A K : Picked(<<>>, K) = <<>>
  BY PickedNothing
<1>2. BoxesOf(<<>>) = <<>>
  BY DEF BoxesOf
<1>3. project(<<>>) = BoxesOf(<<>>)
  BY <1>1 DEF project, BoxesOf, Where
<1>4. project_cloud(<<>>) = BoxesOf(<<>>)
  BY <1>1 DEF project_cloud, BoxesOf, Where
<1>5. Readable(<<>>) = <<>>
  BY <1>1 DEF Readable, Where
<1> QED  BY <1>2, <1>3, <1>4, <1>5

\* The cloud events of a book are the projections of it that can be read.
LEMMA CloudIsReadable ==
    ASSUME NEW pages, IsSequence(pages)
    PROVE  project_cloud(pages) = Readable(project(pages))
<1> DEFINE n == Len(pages)
           u(j) == SubSeq(pages, 1, j)
           T == {j \in 0..n : project_cloud(u(j)) = Readable(project(u(j)))}
<1>1. n \in Nat
  BY Places
<1>2. 0 \in T
  <2>1. u(0) = <<>>
    BY WholeFront
  <2>2. project_cloud(u(0)) = Readable(project(u(0)))
    BY <2>1, NothingProjected
  <2>3. 0 \in 0..n
    BY <1>1
  <2> QED  BY <2>2, <2>3
<1>3. ASSUME NEW j \in 1..n, j - 1 \in T
      PROVE  j \in T
  <2> DEFINE v == u(j - 1)
             page == pages[j]
             p == project(v)
  <2>1. u(j) = Append(v, page)
    BY FrontGrows
  <2>2. j \in 0..n /\ j - 1 \in 0..n
    BY <1>1
  <2>3. IsSequence(v) /\ project_cloud(v) = Readable(p)
    BY <1>3, <2>2, FrontFacts
  <2> HIDE DEF v, page, p
  <2>4. IsSequence(p) /\ project(Append(v, page)) = p \o OneBox(page)
    BY <2>3, ProjectAppend DEF p
  <2>5. project_cloud(Append(v, page)) =
          IF IsBoxed(page) /\ Tells(page) THEN Append(project_cloud(v), Boxes(page))
          ELSE project_cloud(v)
    BY <2>3, CloudAppend
  <2>6. p \o <<Boxes(page)>> = Append(p, Boxes(page)) /\ p \o <<>> = p
    <3>1. p \o <<>> = p
      BY <2>4, EmptyIsSequence, ConcatFacts
    <3> QED  BY <2>4, <3>1, AppendFacts
  <2>7. Readable(Append(p, Boxes(page))) =
          IF Boxes(page).value \notin {"broken", "private"} THEN Append(Readable(p), Boxes(page)) ELSE Readable(p)
    BY <2>4, ReadableAppend
  <2>8. Boxes(page).value \notin {"broken", "private"} <=> Tells(page)
    BY DEF Boxes, Tells
  <2>9. project_cloud(Append(v, page)) = Readable(project(Append(v, page)))
    <3>1. CASE IsBoxed(page)
      BY <2>3, <2>4, <2>5, <2>6, <2>7, <2>8, <3>1 DEF OneBox
    <3>2. CASE ~IsBoxed(page)
      BY <2>3, <2>4, <2>5, <2>6, <3>2 DEF OneBox
    <3> QED  BY <3>1, <3>2
  <2> QED  BY <2>1, <2>2, <2>9
<1> HIDE DEF T
<1>4. 0..n \subseteq T
  BY <1>1, <1>2, <1>3, InductionUpTo
<1>5. n \in T
  BY <1>1, <1>4
<1> QED  BY <1>5, WholeFront DEF T

LEMMA ProjectsIsSequence ==
    ASSUME NEW event
    PROVE  IsSequence(ProjectsAs(event))
<1>1. \A x : IsSequence(<<x>>)
  BY AppendFacts, EmptyIsSequence
<1> QED  BY <1>1, EmptyIsSequence DEF ProjectsAs

\* A book is projected as the registrations say.
LEMMA CutProjected ==
    ASSUME upcasters \in Seq(Endings), BoxesOK, NEW pages \in Seq(Pages)
    PROVE  project(upcast(pages)) = FlattenSeq(Told(pages))
<1> DEFINE n == Len(pages)
           u(j) == SubSeq(pages, 1, j)
           T == {j \in 0..n : project(upcast(u(j))) = FlattenSeq(Told(u(j)))}
<1>1. n \in Nat /\ IsSequence(pages)
  BY Places, SeqIsSequence
<1>2. 0 \in T
  <2>1. u(0) = <<>>
    BY <1>1, WholeFront
  <2>2. upcast(<<>>) = <<>> /\ Told(<<>>) = <<>>
    BY DEF upcast, Told
  <2>3. project(upcast(u(0))) = FlattenSeq(Told(u(0)))
    BY <2>1, <2>2, NothingProjected, FlattenNothing
  <2>4. 0 \in 0..n
    BY <1>1
  <2> QED  BY <2>3, <2>4
<1>3. ASSUME NEW j \in 1..n, j - 1 \in T
      PROVE  j \in T
  <2> DEFINE v == u(j - 1)
             page == pages[j]
  <2>1. u(j) = Append(v, page)
    BY <1>1, FrontGrows
  <2>2. j \in 0..n /\ j - 1 \in 0..n /\ page \in Pages
    BY <1>1
  <2>3. IsSequence(v) /\ project(upcast(v)) = FlattenSeq(Told(v))
    BY <1>1, <1>3, <2>2, FrontFacts
  <2> HIDE DEF v, page
  <2>4. /\ IsSequence(upcast(v)) /\ upcast(Append(v, page)) = Append(upcast(v), upcast_page(page))
    BY <2>3, UpcastAppend
  <2>5. project(Append(upcast(v), upcast_page(page))) = project(upcast(v)) \o OneBox(upcast_page(page))
    BY <2>4, ProjectAppend
  <2>6. OneBox(upcast_page(page)) = ProjectsAs(page.event)
    BY <2>2, PageProjected
  <2>7. IsSequence(Told(v)) /\ Told(Append(v, page)) = Append(Told(v), ProjectsAs(page.event))
    BY <2>3, ToldAppend
  <2>8. FlattenSeq(Append(Told(v), ProjectsAs(page.event))) = FlattenSeq(Told(v)) \o ProjectsAs(page.event)
    BY <2>7, ProjectsIsSequence, FlattenAppend
  <2> QED  BY <2>1, <2>2, <2>3, <2>4, <2>5, <2>6, <2>7, <2>8
<1> HIDE DEF T
<1>4. 0..n \subseteq T
  BY <1>1, <1>2, <1>3, InductionUpTo
<1>5. n \in T
  BY <1>1, <1>4
<1> QED  BY <1>1, <1>5, WholeFront DEF T

-----------------------------------------------------------------------------
(* The invariant of reading. *)

ReadTypeOK ==
    /\ seen \in [SourceDomains -> Nat]
    /\ \A d \in SourceDomains : seen[d] <= Len(stored[d])
    /\ shown = [d \in SourceDomains |-> shown[d]]
    /\ cloud = [d \in SourceDomains |-> cloud[d]]

Due(d, n) == [i \in 1..n |-> ProjectsAs(stored[d][i].event)]

ProjectedOK ==
    \A d \in SourceDomains : /\ shown[d] = FlattenSeq(Due(d, seen[d]))
                             /\ cloud[d] = Readable(shown[d])

ReadOK == StreamsOK /\ BoxesOK /\ ReadTypeOK /\ ProjectedOK

LEMMA DueFacts ==
    ASSUME NEW d, NEW n \in Nat
    PROVE  /\ IsSequence(Due(d, n)) /\ Len(Due(d, n)) = n
           /\ \A i \in 1..n : IsSequence(Due(d, n)[i])
           /\ IsSequence(FlattenSeq(Due(d, n)))
<1> DEFINE f == Due(d, n)
<1>1. f = [i \in 1..n |-> f[i]] /\ \A i \in 1..n : f[i] = ProjectsAs(stored[d][i].event)
  BY DEF Due
<1> HIDE DEF f
<1>2. IsSequence(f) /\ Len(f) = n
  BY <1>1, Made
<1>3. \A i \in 1..n : IsSequence(f[i])
  BY <1>1, ProjectsIsSequence
<1>4. IsSequence(FlattenSeq(f))
  BY <1>2, <1>3, FlattenIsSequence
<1> QED  BY <1>2, <1>3, <1>4 DEF f

\* What is due of k + n pages: what was due of k, and what a book of n more says.
LEMMA DueCut ==
    ASSUME NEW d, NEW S, stored[d] \in Seq(S), NEW k \in Nat, NEW n \in Nat, k + n <= Len(stored[d])
    PROVE  FlattenSeq(Due(d, k + n))
             = FlattenSeq(Due(d, k)) \o FlattenSeq(Told(SubSeq(stored[d], k + 1, k + n)))
<1> DEFINE cut == SubSeq(stored[d], k + 1, k + n)
           f == Due(d, k)
           g == Told(cut)
           h == Due(d, k + n)
           fg == f \o g
<1>1. Len(cut) = n /\ \A i \in 1..n : cut[i] = stored[d][k + i]
  BY PieceFacts
<1> HIDE DEF cut
<1>2. /\ \A i \in 1..k : f[i] = ProjectsAs(stored[d][i].event)
      /\ \A i \in 1..(k + n) : h[i] = ProjectsAs(stored[d][i].event)
      /\ g = [i \in 1..n |-> g[i]]
      /\ \A i \in 1..n : g[i] = ProjectsAs(stored[d][k + i].event)
  BY <1>1 DEF Due, Told
<1>3. k + n \in Nat
  OBVIOUS
<1>4. IsSequence(f) /\ Len(f) = k /\ (\A i \in 1..k : IsSequence(f[i]))
  BY DueFacts
<1>5. IsSequence(h) /\ Len(h) = k + n
  BY <1>3, DueFacts
<1> HIDE DEF f, g, h
<1>6. IsSequence(g) /\ Len(g) = n
  BY <1>2, Made
<1>7. \A i \in 1..n : IsSequence(g[i])
  BY <1>2, ProjectsIsSequence
<1>8. (\A i \in 1..k : fg[i] = f[i]) /\ (\A i \in 1..n : fg[k + i] = g[i])
  BY <1>4, <1>6, ConcatFacts
<1>9. IsSequence(fg) /\ Len(fg) = k + n
  BY <1>4, <1>6, ConcatFacts
<1> HIDE DEF fg
<1>10. ASSUME NEW i \in 1..(k + n)
       PROVE  h[i] = fg[i]
  <2>1. CASE i \in 1..k
    BY <1>2, <1>8, <2>1
  <2>2. CASE i \notin 1..k
    <3>1. i - k \in 1..n /\ k + (i - k) = i
      BY <2>2
    <3>2. fg[k + (i - k)] = g[i - k] /\ g[i - k] = ProjectsAs(stored[d][k + (i - k)].event)
      BY <1>2, <1>8, <3>1
    <3> QED  BY <1>2, <3>1, <3>2
  <2> QED  BY <2>1, <2>2
<1>11. h = fg
  BY <1>5, <1>9, <1>10, SameSequence
<1>12. FlattenSeq(f \o g) = FlattenSeq(f) \o FlattenSeq(g)
  BY <1>4, <1>6, <1>7, FlattenConcat
<1> QED  BY <1>11, <1>12 DEF f, g, h, fg, cut

\* What an event is in the end changes with the registrations only.
LEMMA RulesKept ==
    ASSUME upcasters' = upcasters, projectors' = projectors, NEW event
    PROVE  ProjectsAs(event)' = ProjectsAs(event)
<1> DEFINE url == CurrentUrl(event)
           places == {i \in DOMAIN projectors : projectors[i] = type_name_from_url(url)}
           last(p) == CHOOSE i \in p : \A j \in p : i >= j
<1>1. url' = url
  BY DEF CurrentUrl
<1>2. places' = places
  BY <1>1
<1>3. ProjectsAs(event) = IF url = NoUrl \/ places = {} THEN <<>>
                          ELSE <<[by |-> last(places), value |-> event.value]>>
  BY DEF ProjectsAs
<1>4. ProjectsAs(event)' = IF url' = NoUrl \/ places' = {} THEN <<>>
                           ELSE <<[by |-> last(places'), value |-> event.value]>>
  BY DEF ProjectsAs
<1> HIDE DEF url, places, last
<1> QED  BY <1>1, <1>2, <1>3, <1>4

\* As long as nothing is stored nothing is due, whatever is registered.
LEMMA RegisteringKeeps ==
    ASSUME ReadOK, ~Started, UNCHANGED <<stored, seen, shown, cloud>>
    PROVE  ReadTypeOK' /\ ProjectedOK'
<1>1. ReadTypeOK'
  BY DEF ReadOK, ReadTypeOK
<1>2. ASSUME NEW d \in SourceDomains
      PROVE  shown'[d] = FlattenSeq(Due(d, seen[d])') /\ cloud'[d] = Readable(shown[d])'
  <2>1. stored[d] = <<>> /\ seen[d] \in Nat /\ seen[d] <= Len(stored[d])
    BY DEF Started, ReadOK, ReadTypeOK
  <2>2. seen[d] = 0
    BY <2>1
  <2>3. Due(d, seen[d]) = <<>> /\ Due(d, seen[d])' = <<>>
    BY <2>2 DEF Due
  <2>4. shown[d] = FlattenSeq(Due(d, seen[d])) /\ cloud[d] = Readable(shown[d])
    BY DEF ReadOK, ProjectedOK
  <2>5. Readable(shown[d])' = Readable(shown[d])
    BY DEF Readable, Where
  <2> QED  BY <2>3, <2>4, <2>5
<1>3. ProjectedOK'
  <2>1. ASSUME NEW d \in SourceDomains
        PROVE  FlattenSeq(Due(d, seen[d]))' = FlattenSeq(Due(d, seen[d])')
    OBVIOUS
  <2> QED  BY <1>2, <2>1 DEF ProjectedOK
<1> QED  BY <1>1, <1>3

LEMMA EndingStep ==
    ASSUME ReadOK, NEW ending \in Endings, on_ending(ending)
    PROVE  ReadOK'
<1>1. ReadTypeOK' /\ ProjectedOK'
  BY RegisteringKeeps DEF on_ending
<1>2. StreamsOK'
  BY DEF on_ending, ReadOK, StreamsOK
<1>3. BoxesOK'
  BY DEF on_ending, ReadOK, BoxesOK
<1> QED  BY <1>1, <1>2, <1>3 DEF ReadOK

LEMMA RegisterStep ==
    ASSUME ReadOK, NEW type \in Projected, register_projector_handler(type)
    PROVE  ReadOK'
<1>1. ReadTypeOK' /\ ProjectedOK'
  BY RegisteringKeeps DEF register_projector_handler
<1>2. StreamsOK'
  BY DEF register_projector_handler, ReadOK, StreamsOK
<1>3. BoxesOK'
  <2> DEFINE n == Len(projectors)
  <2>1. projectors' \in Seq(Projected) /\ n \in Nat
    BY DEF register_projector_handler, ReadOK, BoxesOK
  <2>2. /\ DOMAIN projectors = 1..n /\ DOMAIN projectors' = 1..(n + 1)
        /\ projectors'[n + 1] = type /\ Len(projectors') = n + 1
        /\ \A i \in 1..n : projectors'[i] = projectors[i]
    BY DEF register_projector_handler, ReadOK, BoxesOK
  <2>3. boxed' = [t \in DOMAIN boxed \cup {type} |-> IF t = type THEN n + 1 ELSE boxed[t]]
    BY <2>2 DEF register_projector_handler
  <2>4. /\ DOMAIN boxed = {projectors[i] : i \in DOMAIN projectors}
        /\ \A t \in DOMAIN boxed :
             /\ boxed[t] \in DOMAIN projectors /\ projectors[boxed[t]] = t
             /\ \A i \in DOMAIN projectors : projectors[i] = t => i <= boxed[t]
    BY DEF ReadOK, BoxesOK
  <2> HIDE DEF n
  <2>5. DOMAIN boxed' = {projectors'[i] : i \in DOMAIN projectors'}
    <3>1. \A t : (\E i \in 1..(n + 1) : projectors'[i] = t)
                   <=> t = type \/ \E i \in 1..n : projectors[i] = t
      <4> TAKE t
      <4>1. ASSUME NEW i \in 1..(n + 1), projectors'[i] = t
            PROVE  t = type \/ \E j \in 1..n : projectors[j] = t
        <5>1. i = n + 1 \/ i \in 1..n
          BY <2>1
        <5> QED  BY <2>2, <4>1, <5>1
      <4>2. ASSUME t = type \/ \E i \in 1..n : projectors[i] = t
            PROVE  \E i \in 1..(n + 1) : projectors'[i] = t
        <5>1. n + 1 \in 1..(n + 1) /\ \A i \in 1..n : i \in 1..(n + 1)
          BY <2>1
        <5> QED  BY <2>2, <4>2, <5>1
      <4> QED  BY <4>1, <4>2
    <3>2. DOMAIN boxed' = DOMAIN boxed \cup {type}
      BY <2>3
    <3> QED  BY <2>2, <2>4, <3>1, <3>2
  <2>6. ASSUME NEW t \in DOMAIN boxed'
        PROVE  /\ boxed'[t] \in DOMAIN projectors' /\ projectors'[boxed'[t]] = t
               /\ \A i \in DOMAIN projectors' : projectors'[i] = t => i <= boxed'[t]
    <3>1. CASE t = type
      <4>1. boxed'[t] = n + 1
        BY <2>3, <3>1
      <4> QED  BY <2>1, <2>2, <3>1, <4>1
    <3>2. CASE t # type
      <4>1. t \in DOMAIN boxed /\ boxed'[t] = boxed[t]
        BY <2>3, <2>6, <3>2
      <4>2. boxed[t] \in 1..n /\ projectors[boxed[t]] = t
        BY <2>2, <2>4, <4>1
      <4>3. \A i \in 1..n : projectors[i] = t => i <= boxed[t]
        BY <2>2, <2>4, <4>1
      <4>4. \A i \in 1..(n + 1) : i \in 1..n \/ i = n + 1
        BY <2>1
      <4> QED  BY <2>1, <2>2, <3>2, <4>1, <4>2, <4>3, <4>4
    <3> QED  BY <3>1, <3>2
  <2> QED  BY <2>1, <2>5, <2>6 DEF BoxesOK
<1> QED  BY <1>1, <1>2, <1>3 DEF ReadOK

LEMMA DomainStep ==
    ASSUME ReadOK, NEW d \in SourceDomains, project_domain(d)
    PROVE  ReadOK'
<1>1. ReadTypeOK' /\ ProjectedOK'
  BY RegisteringKeeps DEF project_domain
<1>2. StreamsOK' /\ BoxesOK'
  BY DEF project_domain, ReadOK, StreamsOK, BoxesOK
<1> QED  BY <1>1, <1>2 DEF ReadOK

LEMMA StoreStep ==
    ASSUME ReadOK, NEW d \in SourceDomains, NEW event \in Events, Store(d, event)
    PROVE  ReadOK'
<1> DEFINE n == Len(stored[d])
           page == [sequence |-> n, created_at |-> TRUE, event |-> event]
<1>1. n \in Nat /\ page \in Pages
  BY DEF ReadOK, StreamsOK, Pages
<1>2. /\ stored \in [SourceDomains -> Seq(Pages)]
      /\ stored' = [stored EXCEPT ![d] = Append(stored[d], page)]
      /\ upcasters' = upcasters /\ projectors' = projectors /\ boxed' = boxed
      /\ seen' = seen /\ shown' = shown /\ cloud' = cloud
  BY DEF Store, ReadOK, StreamsOK
<1>3. page.sequence = n /\ page.created_at = TRUE
  OBVIOUS
<1> HIDE DEF page
<1>4. stored' \in [SourceDomains -> Seq(Pages)]
  BY <1>1, <1>2
<1>5. \A e \in SourceDomains :
         /\ Len(stored[e]) \in Nat
         /\ stored'[e] = IF e = d THEN Append(stored[d], page) ELSE stored[e]
  BY <1>2
<1>6. /\ Len(stored'[d]) = n + 1 /\ stored'[d][n + 1] = page
      /\ \A i \in 1..n : stored'[d][i] = stored[d][i]
  BY <1>1, <1>2
<1>7. ASSUME NEW e \in SourceDomains
      PROVE  /\ Len(stored[e]) <= Len(stored'[e])
             /\ \A i \in 1..Len(stored[e]) : stored'[e][i] = stored[e][i]
  BY <1>1, <1>5, <1>6
<1>8. StreamsOK'
  <2>1. ASSUME NEW e \in SourceDomains, NEW i \in 1..Len(stored'[e])
        PROVE  stored'[e][i].sequence = i - 1 /\ stored'[e][i].created_at
    <3>1. \A j \in 1..Len(stored[e]) : stored[e][j].sequence = j - 1 /\ stored[e][j].created_at
      BY DEF ReadOK, StreamsOK
    <3>2. CASE i \in 1..Len(stored[e])
      BY <1>7, <3>1, <3>2
    <3>3. CASE i \notin 1..Len(stored[e])
      <4>1. e = d /\ i = n + 1
        BY <1>1, <1>5, <1>6, <2>1, <3>3
      <4>2. (n + 1) - 1 = n
        BY <1>1
      <4> QED  BY <1>3, <1>6, <4>1, <4>2
    <3> QED  BY <3>2, <3>3
  <2> QED  BY <1>2, <1>4, <2>1 DEF ReadOK, StreamsOK
<1>9. BoxesOK'
  BY <1>2 DEF ReadOK, BoxesOK
<1>10. ReadTypeOK'
  <2>1. ASSUME NEW e \in SourceDomains
        PROVE  seen'[e] <= Len(stored'[e])
    <3>1. seen[e] \in Nat /\ seen[e] <= Len(stored[e]) /\ Len(stored[e]) \in Nat
      BY <1>5 DEF ReadOK, ReadTypeOK
    <3>2. Len(stored'[e]) \in Nat
      BY <1>4
    <3> QED  BY <1>2, <1>7, <3>1, <3>2
  <2> QED  BY <1>2, <2>1 DEF ReadOK, ReadTypeOK
<1>11. ProjectedOK'
  <2>1. ASSUME NEW e \in SourceDomains
        PROVE  Due(e, seen[e])' = Due(e, seen[e]) /\ Readable(shown[e])' = Readable(shown[e])
    <3>1. \A i \in 1..seen[e] : stored'[e][i] = stored[e][i]
      <4>1. seen[e] \in Nat /\ seen[e] <= Len(stored[e])
        BY DEF ReadOK, ReadTypeOK
      <4>2. \A i \in 1..seen[e] : i \in 1..Len(stored[e])
        BY <1>5, <4>1
      <4> QED  BY <1>7, <4>2
    <3>3. \A a : ProjectsAs(a)' = ProjectsAs(a)
      BY <1>2, RulesKept
    <3>4. Due(e, seen[e])' = [i \in 1..seen[e] |-> ProjectsAs(stored'[e][i].event)]
      BY <1>2, <3>3 DEF Due
    <3>5. Readable(shown[e])' = Readable(shown[e])
      BY <1>2 DEF Readable, Where
    <3> QED  BY <3>1, <3>4, <3>5 DEF Due
  <2> QED  BY <1>2, <2>1 DEF ReadOK, ProjectedOK
<1> QED  BY <1>8, <1>9, <1>10, <1>11 DEF ReadOK

LEMMA ProjectStep ==
    ASSUME ReadOK, NEW d \in SourceDomains, NEW n \in 1..MaxCut, Project(d, n)
    PROVE  ReadOK'
<1> DEFINE k == seen[d]
           cut == SubSeq(stored[d], k + 1, k + n)
           boxes == project(upcast(cut))
<1>1. n \in Nat /\ k \in Nat /\ k + n <= Len(stored[d]) /\ stored[d] \in Seq(Pages)
  BY ReadAssumption DEF ReadOK, ReadTypeOK, StreamsOK, Project
<1>2. /\ seen' = [seen EXCEPT ![d] = k + n]
      /\ shown' = [shown EXCEPT ![d] = shown[d] \o boxes]
      /\ cloud' = [cloud EXCEPT ![d] = cloud[d] \o project_cloud(upcast(cut))]
      /\ upcasters' = upcasters /\ projectors' = projectors /\ boxed' = boxed /\ stored' = stored
  BY DEF Project
<1>3. StreamsOK' /\ BoxesOK'
  BY <1>2 DEF ReadOK, StreamsOK, BoxesOK
<1>4. /\ seen \in [SourceDomains -> Nat]
      /\ shown = [e \in SourceDomains |-> shown[e]] /\ cloud = [e \in SourceDomains |-> cloud[e]]
      /\ \A e \in SourceDomains : seen[e] <= Len(stored[e])
  BY DEF ReadOK, ReadTypeOK
<1>5. cut \in Seq(Pages) /\ IsSequence(cut)
  BY <1>1, PieceFacts, SeqIsSequence
<1> HIDE DEF k, cut
<1>6. boxes = FlattenSeq(Told(cut))
  BY <1>5, CutProjected DEF ReadOK, StreamsOK
<1>7. project_cloud(upcast(cut)) = Readable(boxes) /\ IsSequence(boxes)
  <2>1. IsSequence(upcast(cut))
    BY <1>5, UpcastAppend
  <2> QED  BY <2>1, CloudIsReadable, ProjectAppend
<1> HIDE DEF boxes
<1>8. shown[d] = FlattenSeq(Due(d, k)) /\ cloud[d] = Readable(shown[d])
  BY DEF ReadOK, ProjectedOK, k
<1>9. FlattenSeq(Due(d, k + n)) = shown[d] \o boxes
  <2>1. FlattenSeq(Due(d, k + n)) = FlattenSeq(Due(d, k)) \o FlattenSeq(Told(cut))
    BY <1>1, DueCut DEF cut
  <2> QED  BY <1>6, <1>8, <2>1
<1>10. Readable(shown[d] \o boxes) = cloud[d] \o Readable(boxes)
  <2>1. IsSequence(shown[d])
    BY <1>1, <1>8, DueFacts
  <2> QED  BY <1>7, <1>8, <2>1, ReadableConcat
<1>11. ReadTypeOK'
  <2>1. seen' \in [SourceDomains -> Nat]
    BY <1>1, <1>2, <1>4
  <2>2. ASSUME NEW e \in SourceDomains
        PROVE  seen'[e] <= Len(stored'[e])
    BY <1>1, <1>2, <1>4
  <2>3. shown' = [e \in SourceDomains |-> shown'[e]]
    BY <1>2, <1>4
  <2>4. cloud' = [e \in SourceDomains |-> cloud'[e]]
    BY <1>2, <1>4
  <2> QED  BY <2>1, <2>2, <2>3, <2>4 DEF ReadTypeOK
<1>12. ASSUME NEW e, NEW m
       PROVE  Due(e, m)' = Due(e, m)
  <2>1. \A a : ProjectsAs(a)' = ProjectsAs(a)
    BY <1>2, RulesKept
  <2> QED  BY <1>2, <2>1 DEF Due
<1>13. ASSUME NEW e \in SourceDomains
       PROVE  shown'[e] = FlattenSeq(Due(e, seen[e])') /\ cloud'[e] = Readable(shown'[e])
  <2>1. Due(e, seen[e])' = Due(e, seen'[e])
    BY <1>2, <1>12 DEF Due
  <2>2. shown[e] = FlattenSeq(Due(e, seen[e])) /\ cloud[e] = Readable(shown[e])
    BY DEF ReadOK, ProjectedOK
  <2>3. CASE e = d
    <3>1. seen'[d] = k + n /\ shown'[d] = shown[d] \o boxes /\ cloud'[d] = cloud[d] \o Readable(boxes)
      BY <1>2, <1>4, <1>7
    <3> QED  BY <1>9, <1>10, <2>1, <2>3, <3>1
  <2>4. CASE e # d
    <3>1. seen'[e] = seen[e] /\ shown'[e] = shown[e] /\ cloud'[e] = cloud[e]
      BY <1>2, <1>4, <2>4
    <3> QED  BY <2>1, <2>2, <3>1
  <2> QED  BY <2>3, <2>4
<1>14. ProjectedOK'
  <2>1. ASSUME NEW e \in SourceDomains
        PROVE  Readable(shown[e])' = Readable(shown'[e])
    BY DEF Readable, Where
  <2> QED  BY <1>13, <2>1 DEF ProjectedOK
<1> QED  BY <1>3, <1>11, <1>14 DEF ReadOK

LEMMA ReadInvariant == ReadSpec => []ReadOK
<1>1. NothingRead => ReadOK
  <2> SUFFICES ASSUME NothingRead
               PROVE  ReadOK
    OBVIOUS
  <2>1. StreamsOK /\ BoxesOK /\ ReadTypeOK
    BY DEF NothingRead, StreamsOK, BoxesOK, ReadTypeOK
  <2>2. ASSUME NEW d \in SourceDomains
        PROVE  shown[d] = FlattenSeq(Due(d, seen[d])) /\ cloud[d] = Readable(shown[d])
    <3>1. shown[d] = <<>> /\ cloud[d] = <<>> /\ seen[d] = 0
      BY DEF NothingRead
    <3>2. Due(d, seen[d]) = <<>>
      BY <3>1 DEF Due
    <3> QED  BY <3>1, <3>2, FlattenNothing, NothingProjected
  <2> QED  BY <2>1, <2>2 DEF ReadOK, ProjectedOK
<1>2. ASSUME ReadOK, [Projecting]_readside
      PROVE  ReadOK'
  <2>1. CASE Projecting
    BY <1>2, <2>1, EndingStep, RegisterStep, DomainStep, StoreStep, ProjectStep DEF Projecting
  <2>2. CASE UNCHANGED readside
    <3>1. /\ upcasters' = upcasters /\ projectors' = projectors /\ boxed' = boxed
          /\ stored' = stored /\ seen' = seen /\ shown' = shown /\ cloud' = cloud
      BY <2>2 DEF readside
    <3>2. StreamsOK' /\ BoxesOK' /\ ReadTypeOK'
      <4>1. StreamsOK'
        BY <1>2, <3>1 DEF ReadOK, StreamsOK
      <4>2. BoxesOK'
        BY <1>2, <3>1 DEF ReadOK, BoxesOK
      <4>3. ReadTypeOK'
        BY <1>2, <3>1 DEF ReadOK, ReadTypeOK
      <4> QED  BY <4>1, <4>2, <4>3
    <3>3. ProjectedOK'
      <4>1. \A a : ProjectsAs(a)' = ProjectsAs(a)
        BY <3>1, RulesKept
      <4>2. ASSUME NEW e \in SourceDomains
            PROVE  Due(e, seen[e])' = Due(e, seen[e]) /\ Readable(shown[e])' = Readable(shown[e])
        BY <3>1, <4>1 DEF Due, Readable, Where
      <4> QED  BY <1>2, <3>1, <4>2 DEF ReadOK, ProjectedOK
    <3> QED  BY <3>2, <3>3 DEF ReadOK
  <2> QED  BY <1>2, <2>1, <2>2
<1> QED  BY <1>1, <1>2, PTL DEF ReadSpec

\* However long the stream, however it is cut into books and however many handlers
\* are registered: every event is projected as what it is today, once and in order.
THEOREM EveryEventIsProjected == ReadSpec => []EachProjectedOnce
<1>1. ReadOK => EachProjectedOnce
  BY DEF ReadOK, ProjectedOK, EachProjectedOnce, Due, Readable
<1> QED  BY <1>1, ReadInvariant, PTL

\* For every stream and every set of upcasters: pages keep their places, and
\* upcasting again changes nothing unless a handler makes what one takes.
THEOREM UpcastingIsStable == ReadSpec => []UpcastIsStable
<1>1. ASSUME ReadOK, NEW d \in SourceDomains, NEW i \in DOMAIN stored[d]
      PROVE  LET new == upcast_page(stored[d][i])
             IN  /\ new.sequence = i - 1 /\ new.created_at
                 /\ has_event(new) <=> has_event(stored[d][i])
  <2> DEFINE page == stored[d][i]
             new == upcast_page(page)
  <2>1. stored[d] \in Seq(Pages)
    BY <1>1 DEF ReadOK, StreamsOK
  <2>2. page \in Pages /\ i \in 1..Len(stored[d]) /\ upcasters \in Seq(Endings)
    BY <1>1, <2>1 DEF ReadOK, StreamsOK
  <2>3. page.sequence = i - 1 /\ page.created_at
    BY <1>1, <2>2 DEF ReadOK, StreamsOK
  <2>4. /\ new.event.url = CurrentUrl(page.event)
        /\ new.sequence = page.sequence /\ new.created_at = page.created_at
    BY <2>2, PageUpcast
  <2>5. CurrentUrl(page.event) = NoUrl <=> page.event.url = NoUrl
    <3> DEFINE hits == {j \in DOMAIN upcasters : page.event.url \in EndsIn[upcasters[j]]}
               first == CHOOSE j \in hits : \A l \in hits : j <= l
    <3>1. CurrentUrl(page.event) = IF page.event.url = NoUrl \/ hits = {} THEN page.event.url
                                   ELSE Makes[upcasters[first]]
      BY DEF CurrentUrl
    <3>2. hits # {} => upcasters[first] \in Endings
      <4>1. hits \in SUBSET Nat
        BY <2>2
      <4>2. hits # {} => \E x \in hits : \A y \in hits : x <= y
        <5> HIDE DEF hits
        <5> QED  BY <4>1, Minimum
      <4>3. hits # {} => first \in hits
        <5> HIDE DEF hits
        <5> QED  BY <4>2
      <4>4. first \in hits => first \in DOMAIN upcasters
        <5> HIDE DEF first
        <5> QED  OBVIOUS
      <4> HIDE DEF first, hits
      <4> QED  BY <2>2, <4>3, <4>4
    <3> HIDE DEF first, hits, page
    <3> QED  BY <3>1, <3>2, ReadAssumption
  <2> HIDE DEF new, page
  <2>6. /\ new.sequence = i - 1 /\ new.created_at
        /\ has_event(new) <=> has_event(page)
    BY <2>3, <2>4, <2>5 DEF has_event
  <2> QED  BY <2>6 DEF new, page
<1>2. ASSUME ReadOK, NEW d \in SourceDomains, NEW i \in DOMAIN stored[d],
             \A j, l \in DOMAIN upcasters : Makes[upcasters[j]] \notin EndsIn[upcasters[l]]
      PROVE  upcast_page(upcast_page(stored[d][i])) = upcast_page(stored[d][i])
  <2> DEFINE page == stored[d][i]
             found == Matching(page.event.url)
             new == upcast_page(page)
  <2>1. upcasters \in Seq(Endings) /\ page \in Pages
    <3>1. stored[d] \in Seq(Pages)
      BY <1>2 DEF ReadOK, StreamsOK
    <3> QED  BY <1>2, <3>1 DEF ReadOK, StreamsOK
  <2>2. CASE ~has_event(page) \/ found = <<>>
    <3>1. new = page
      BY <2>2 DEF upcast_page
    <3> QED  BY <3>1
  <2>3. CASE has_event(page) /\ found # <<>>
    <3>1. PICK j \in DOMAIN upcasters : new.event.url = Makes[upcasters[j]]
      <4> DEFINE K == {l \in DOMAIN upcasters : page.event.url \in EndsIn[upcasters[l]]}
      <4>1. found = Picked(upcasters, K) /\ IsSequence(upcasters)
        BY <2>1, SeqIsSequence DEF Matching, Where
      <4>2. Len(upcasters) \in Nat /\ DOMAIN upcasters = 1..Len(upcasters)
        BY <2>1
      <4> HIDE DEF K, found
      <4>3. IsSequence(found) /\ Len(found) \in Nat /\ Len(found) # 0
        BY <2>3, <4>1, PickedIsSequence, Places, EmptyIffNoPlace
      <4>4. 1 \in 1..Len(found) /\ Head(found) = found[1]
        BY <4>3
      <4>5. \A l \in 1..Len(Picked(upcasters, K)) :
               \E m \in 1..Len(upcasters) : m \in K /\ Picked(upcasters, K)[l] = upcasters[m]
        BY <4>1, PickedFrom
      <4>6. PICK m \in 1..Len(upcasters) : found[1] = upcasters[m]
        BY <4>1, <4>4, <4>5
      <4>7. new = [page EXCEPT !.event.url = Makes[Head(found)]]
        BY <2>3 DEF upcast_page, found
      <4>8. new.event.url = Makes[Head(found)]
        <5>1. /\ page = [sequence |-> page.sequence, created_at |-> page.created_at, event |-> page.event]
              /\ page.event = [url |-> page.event.url, value |-> page.event.value]
          BY <2>1, ReadAssumption DEF Pages
        <5> HIDE DEF new, page
        <5> QED  BY <4>7, <5>1
      <4> QED  BY <4>2, <4>4, <4>6, <4>8
    <3>2. \A l \in DOMAIN upcasters : new.event.url \notin EndsIn[upcasters[l]]
      BY <1>2, <3>1
    <3>3. Matching(new.event.url) = <<>>
      <4> DEFINE url == new.event.url
      <4>1. \A l \in DOMAIN upcasters : url \notin EndsIn[upcasters[l]]
        BY <3>2
      <4> HIDE DEF url
      <4>2. Matching(url) = <<>>
        BY <2>1, <4>1, FirstMatch
      <4> QED  BY <4>2 DEF url
    <3> HIDE DEF new
    <3>4. upcast_page(new) = new
      BY <3>3 DEF upcast_page
    <3> QED  BY <3>4 DEF new
  <2> QED  BY <2>2, <2>3
<1>3. ReadOK => UpcastIsStable
  <2> SUFFICES ASSUME ReadOK, NEW d \in SourceDomains
               PROVE  LET once == upcast(stored[d])
                      IN  /\ \A i \in DOMAIN once :
                               /\ once[i].sequence = i - 1 /\ once[i].created_at
                               /\ has_event(once[i]) <=> has_event(stored[d][i])
                          /\ (\A i, j \in DOMAIN upcasters :
                                 Makes[upcasters[i]] \notin EndsIn[upcasters[j]])
                                => upcast(once) = once
    BY DEF UpcastIsStable
  <2> DEFINE once == upcast(stored[d])
  <2>1. DOMAIN once = DOMAIN stored[d] /\ \A i \in DOMAIN stored[d] : once[i] = upcast_page(stored[d][i])
    BY DEF upcast
  <2>2. ASSUME \A i, j \in DOMAIN upcasters : Makes[upcasters[i]] \notin EndsIn[upcasters[j]]
        PROVE  upcast(once) = once
    <3>1. \A i \in DOMAIN stored[d] : upcast_page(once[i]) = once[i]
      BY <1>2, <2>1, <2>2
    <3>2. upcast(once) = [i \in DOMAIN stored[d] |-> upcast_page(once[i])]
      BY <2>1 DEF upcast
    <3>3. once = [i \in DOMAIN stored[d] |-> once[i]]
      BY DEF upcast
    <3> HIDE DEF once
    <3> QED  BY <3>1, <3>2, <3>3
  <2>3. \A i \in DOMAIN once : /\ once[i].sequence = i - 1 /\ once[i].created_at
                               /\ has_event(once[i]) <=> has_event(stored[d][i])
    BY <1>1, <2>1
  <2> QED  BY <2>2, <2>3
<1> QED  BY <1>3, ReadInvariant, PTL

=============================================================================
