---------------------------- MODULE QueryBuilder ----------------------------
(***************************************************************************)
(* QueryBuilder (builder.hpp): the object a reader describes its query     *)
(* with, one setter after the other, as often and in any order as it       *)
(* likes, and which build() turns into a Query.  Optional members are      *)
(* NotSet or a value; client_ and domain_ never change.                    *)
(***************************************************************************)
EXTENDS Integers

CONSTANT NotSet

NewBuilder ==
    [root |-> NotSet, correlation_id |-> NotSet, edition |-> NotSet,
     has_range |-> FALSE, range_lower |-> 0, range_upper |-> NotSet,
     has_temporal |-> FALSE, temporal_sequence |-> NotSet, temporal_time |-> NotSet]

\* Fault: the correlation id asked for before stays.
with_root_too(builder, root) == [builder EXCEPT !.root = root]

with_root(builder, root) == [builder EXCEPT !.root = root, !.correlation_id = NotSet]

by_correlation_id(builder, id) == [builder EXCEPT !.correlation_id = id, !.root = NotSet]

with_edition(builder, edition) == [builder EXCEPT !.edition = edition]

\* Fault: the upper bound of a range_to() before stays.
range_below(builder, lower) ==
    [builder EXCEPT !.range_lower = lower, !.has_range = TRUE, !.has_temporal = FALSE]

range(builder, lower) ==
    [builder EXCEPT !.range_lower = lower, !.range_upper = NotSet,
                    !.has_range = TRUE, !.has_temporal = FALSE]

\* Fault: the lower bound is taken to be exclusive.
range_to_above(builder, lower, upper) ==
    [builder EXCEPT !.range_lower = lower - 1, !.range_upper = upper,
                    !.has_range = TRUE, !.has_temporal = FALSE]

range_to(builder, lower, upper) ==
    [builder EXCEPT !.range_lower = lower, !.range_upper = upper,
                    !.has_range = TRUE, !.has_temporal = FALSE]

as_of_sequence(builder, seq) ==
    [builder EXCEPT !.temporal_sequence = seq, !.has_temporal = TRUE, !.has_range = FALSE]

\* temporal_sequence is left as it was.
as_of_time(builder, time) ==
    [builder EXCEPT !.temporal_time = time, !.has_temporal = TRUE, !.has_range = FALSE]

-----------------------------------------------------------------------------
\* What a Query selects by: the oneof of range and temporal.
All == [by |-> "nothing", from |-> 0, to |-> NotSet]
Between(lower, upper) == [by |-> "range", from |-> lower, to |-> upper]
Until(by, point) == [by |-> by, from |-> 0, to |-> point]

Window(builder) ==
    IF builder.has_range THEN Between(builder.range_lower, builder.range_upper)
    ELSE IF ~builder.has_temporal THEN All
    ELSE IF builder.temporal_sequence # NotSet
    THEN Until("sequence", builder.temporal_sequence)
    ELSE Until("time", builder.temporal_time)

build(builder) ==
    [root |-> builder.root, correlation_id |-> builder.correlation_id,
     edition |-> builder.edition, window |-> Window(builder)]
=============================================================================
