---------------------------- MODULE SequencedLog ----------------------------
(***************************************************************************)
(* What the library promises the callers of CommandBuilder.with_sequence:  *)
(* a command book takes effect in one atomic step, as the decision on      *)
(* everything its aggregate has recorded, and only while the aggregate is  *)
(* still at the sequence the caller put in the book (builder.hpp,          *)
(* "preventing concurrent modification conflicts").  No network, no        *)
(* coordinator, no replay: those are CommandPath's business.               *)
(***************************************************************************)
EXTENDS Integers, Sequences

CONSTANTS
    Roots,              \* aggregate roots
    Books,              \* command books: records with `root' and `sequence'
    Decision(_, _)      \* history, command book -> the entry to add, or none

VARIABLES
    log,                \* per root, every entry ever recorded, in order
    issued              \* the command books callers have sent

vars == <<log, issued>>

Init == /\ log = [root \in Roots |-> <<>>]
        /\ issued = {}

\* Callers send whatever books they like, whenever they like.
Issue == /\ issued \subseteq issued'
         /\ issued' \subseteq Books
         /\ UNCHANGED log

Commit(command) ==
    LET history == log[command.root]
    IN  /\ Len(history) = command.sequence
        /\ \E entry \in Decision(history, command) :
             log' = [log EXCEPT ![command.root] = Append(history, entry)]
        /\ UNCHANGED issued

Next == Issue \/ \E command \in issued : Commit(command)

Spec == Init /\ [][Next]_vars
=============================================================================
