-------------------------- MODULE MCFlowsAndReaders --------------------------
(***************************************************************************)
(* The workflows of MCProcessFlow and the reader of MCEventReader, in one  *)
(* run: in every behaviour only one of the two moves.                      *)
(***************************************************************************)
EXTENDS MCProcessFlow, MCEventReader

BothInit == Init /\ NothingAsked
BothNext == \/ NothingAsked /\ Next /\ UNCHANGED reading
            \/ Init /\ Reading /\ UNCHANGED vars

BothSpec == BothInit /\ [][BothNext]_<<vars, reading>>
=============================================================================
