----------------------------- MODULE EventBooks -----------------------------
(***************************************************************************)
(* The data every component of the library handles, and the operations of  *)
(* helpers.hpp on it.                                                      *)
(*                                                                         *)
(* A type URL is a record of the three parts the code tells apart: the     *)
(* text up to and including the last '/', the package, and the message     *)
(* name after the last '.'.  A fully-qualified name is a URL without its   *)
(* prefix, a simple name one that has no package either.                   *)
(***************************************************************************)
EXTENDS Integers, Sequences

GoogleApis == "type.googleapis.com/"

Url(package, name) == [prefix |-> GoogleApis, package |-> package, name |-> name]

\* PackFrom(message, "type.googleapis.com/"): an Any, its URL and its payload.
pack_any(package, name, value) == [url |-> Url(package, name), value |-> value]

\* The type URL of an Any nobody filled in.
NoUrl == [prefix |-> "", package |-> "", name |-> ""]

\* Everything after the last '/': the fully-qualified name.
type_name_from_url(url) == [package |-> url.package, name |-> url.name]

\* Exact comparison with the prefix; no suffix matching.
type_url_matches(url, full) ==
    /\ url.prefix = GoogleApis
    /\ type_name_from_url(url) = full

NotificationType == [package |-> "angzarr", name |-> "Notification"]

(***************************************************************************)
(* A loop that goes on with some elements of a sequence and skips the      *)
(* others: what SelectSeq says, as a recursive function over the places.   *)
(***************************************************************************)
Picked(s, places) ==
    LET picked[i \in 0..Len(s)] ==
        IF i = 0 THEN <<>>
        ELSE IF i \in places THEN Append(picked[i - 1], s[i]) ELSE picked[i - 1]
    IN  picked[Len(s)]

Where(s, Test(_)) == Picked(s, {i \in DOMAIN s : Test(s[i])})

(***************************************************************************)
(* An EventBook is the precomputed next sequence, and pages.  `present' is  *)
(* FALSE for the null pointer a handler gets when the coordinator sent no  *)
(* book.  A page whose payload is not an event has an Any without a URL.   *)
(***************************************************************************)
NoBook == [present |-> FALSE, next_sequence |-> 0, pages |-> <<>>]

Book(next, pages) ==
    [present |-> TRUE, next_sequence |-> next, pages |-> pages]

has_event(page) == page.event.url # NoUrl

\* Faults: the pages counted, which the comment at helpers.hpp:66 warns of; the
\* last sequence for the next; a missing book taken for one with an event.
counted_sequence(book) == Len(book.pages)
last_sequence(book) == IF book.present THEN book.next_sequence - 1 ELSE 0
first_is_one(book) == IF book.present THEN book.next_sequence ELSE 1

\* The field the framework precomputed, never the number of pages.
next_sequence(book) == IF book.present THEN book.next_sequence ELSE 0

\* One page, stamped with the sequence the handler was given.
new_event_book(event, seq) == Book(0, <<[sequence |-> seq, event |-> event]>>)
=============================================================================
