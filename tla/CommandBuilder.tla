--------------------------- MODULE CommandBuilder ---------------------------
(***************************************************************************)
(* CommandBuilder (builder.hpp): a command described by setters in any     *)
(* order, built as often as its user likes.  An application keeps one and  *)
(* changes it between two commands.                                        *)
(***************************************************************************)
EXTENDS EventBooks, FiniteSets

CONSTANTS
    Roots,       \* aggregate roots
    Ids,         \* correlation ids the application gives
    Sequences,   \* sequences it gives
    Urls,        \* type URLs of its commands
    Strategies,  \* merge strategies
    HexDigits,   \* the digits rand() is drawn from
    Variants,    \* the digits that stand for a UUID's variant
    NotSet,
    MaxAsks      \* setter calls

ASSUME BuilderAssumption == /\ MaxAsks \in Nat /\ "MERGE_COMMUTATIVE" \in Strategies
                            /\ NotSet \notin Roots /\ NotSet \notin Ids
                            /\ NotSet \notin Sequences /\ NotSet \notin Urls
                            /\ NotSet \notin Strategies

VARIABLES
    builder,  \* the members of the object
    asked,    \* the last thing said of each field, NotSet before
    asks,     \* setter calls so far
    built     \* what the last build() returned, or threw

vars == <<builder, asked, asks, built>>

Nothing == [kind |-> "nothing"]

Init ==
    /\ builder = [root |-> NotSet, correlation_id |-> NotSet, sequence |-> 0,
                  sequence_set |-> FALSE, merge_strategy |-> "MERGE_COMMUTATIVE",
                  type_url |-> NotSet, payload |-> NotSet]
    /\ asked = [field \in {"root", "correlation_id", "sequence", "merge_strategy", "command"} |->
                   NotSet]
    /\ asks = 0
    /\ built = Nothing

-----------------------------------------------------------------------------
Ask(new, field, value) ==
    /\ asks < MaxAsks
    /\ asks' = asks + 1
    /\ builder' = new
    /\ asked' = [asked EXCEPT ![field] = value]
    /\ built' = Nothing

with_root(r) == Ask([builder EXCEPT !.root = r], "root", r)

with_correlation_id(id) == Ask([builder EXCEPT !.correlation_id = id], "correlation_id", id)

\* Fault: the flag is derived from the value.
with_positive_sequence(seq) ==
    Ask([builder EXCEPT !.sequence = seq, !.sequence_set = seq > 0], "sequence", seq)

with_sequence(seq) ==
    Ask([builder EXCEPT !.sequence = seq, !.sequence_set = TRUE], "sequence", seq)

with_merge_strategy(strategy) ==
    Ask([builder EXCEPT !.merge_strategy = strategy], "merge_strategy", strategy)

\* The message, serialized; its content plays no part here.
with_command(url) ==
    Ask([builder EXCEPT !.type_url = url, !.payload = url], "command", url)

-----------------------------------------------------------------------------
(* generate_uuid: a text of 36 places, counted from 0. *)

Blank == [place \in 0..35 |-> "-"]
Hyphens == {8, 13, 18, 23}

\* The loop passes over every place that holds a hyphen.
Filled(digit) == [place \in 0..35 |-> IF Blank[place] = "-" THEN Blank[place] ELSE digit]

\* `digit' is what rand() gives for each place.
generate_uuid(digit, variant) == [Filled(digit) EXCEPT ![14] = "4", ![19] = variant]

Generated == {generate_uuid(digit, variant) : digit \in HexDigits, variant \in Variants}

IsUuid(text) ==
    /\ \A place \in Hyphens : text[place] = "-"
    /\ \A place \in (0..35) \ Hyphens : text[place] \in HexDigits
    /\ text[14] = "4" /\ text[19] \in Variants

\* The id is generated for this build only: the next one gets another.
CommandBook(id) ==
    [kind |-> "book", root |-> builder.root, correlation_id |-> id,
     sequence |-> builder.sequence, merge_strategy |-> builder.merge_strategy,
     url |-> builder.type_url]

Refused(why) == [kind |-> "invalid_argument", why |-> why]

build ==
    /\ built' \in IF builder.type_url = NotSet THEN {Refused("command")}
                  ELSE IF builder.payload = NotSet THEN {Refused("payload")}
                  ELSE IF ~builder.sequence_set THEN {Refused("sequence")}
                  ELSE IF builder.correlation_id # NotSet THEN {CommandBook(builder.correlation_id)}
                  ELSE {CommandBook(id) : id \in Generated}
    /\ UNCHANGED <<builder, asked, asks>>

Next ==
    \/ \E r \in Roots : with_root(r)
    \/ \E id \in Ids : with_correlation_id(id)
    \/ \E seq \in Sequences : with_sequence(seq)
    \/ \E strategy \in Strategies : with_merge_strategy(strategy)
    \/ \E url \in Urls : with_command(url)
    \/ build

Spec == Init /\ [][Next]_vars

-----------------------------------------------------------------------------
Or(field, default) == IF asked[field] = NotSet THEN default ELSE asked[field]

\* A book is built exactly when a command and a sequence were named, sequence 0
\* included, and it says of every field what was said last, however often the
\* builder was built and changed before.
BuiltAsAsked ==
    /\ built.kind = "book" =>
         /\ asked["command"] # NotSet /\ asked["sequence"] # NotSet
         /\ built.url = asked["command"] /\ built.sequence = asked["sequence"]
         /\ built.root = asked["root"]
         /\ built.merge_strategy = Or("merge_strategy", "MERGE_COMMUTATIVE")
         /\ built.correlation_id = Or("correlation_id", built.correlation_id)
    /\ built.kind = "invalid_argument" =>
         asked["command"] = NotSet \/ asked["sequence"] = NotSet

\* "If not set, a UUID will be auto-generated on build" (builder.hpp:77).
GeneratedIsUuid ==
    built.kind = "book" /\ asked["correlation_id"] = NotSet => IsUuid(built.correlation_id)
=============================================================================
