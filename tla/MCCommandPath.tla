---------------------------- MODULE MCCommandPath ----------------------------
(***************************************************************************)
(* CommandPath with a small aggregate: "Create" is allowed while exists()  *)
(* is false (require_not_exists), "Change" while it is true                *)
(* (require_exists), "Retired" has no handler.  A Changed event carries    *)
(* how many Changed events the state had counted; Created has no applier.  *)
(***************************************************************************)
EXTENDS CommandPath, TLC

Create == Url("demo", "Create")
Change == Url("demo", "Change")
Retired == Url("demo", "Retired")

Created == pack_any("demo", "Created", 0)
Changed(n) == pack_any("demo", "Changed", n)
Refused == [url |-> NoUrl, value |-> 0]

MaxEvents == Cardinality(Clients) * MaxBooks

MCHandlers == {type_name_from_url(Create), type_name_from_url(Change)}
MCAppliers == {type_name_from_url(Changed(0).url)}
MCCreations == {Created}
MCEventAnys == {Created} \cup {Changed(n) : n \in 0..MaxEvents}
MCAllUrls == {Create, Change, Retired}
MCKnownUrls == {Create, Change}

MCApplier(state, event) == state + 1
MCMethod(state, exists, url) ==
    CASE url = Create /\ ~exists -> Created
      [] url = Change /\ exists  -> Changed(state)
      [] OTHER                   -> Refused
MCCompensate(state, key) == NoBook

Symmetry == Permutations(Clients)

=============================================================================
