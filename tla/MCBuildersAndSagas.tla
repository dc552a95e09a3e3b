------------------------- MODULE MCBuildersAndSagas -------------------------
(***************************************************************************)
(* The parts of a client of MCCommandBuilder, and the sagas and chains of  *)
(* MCSagas, in one run: in every behaviour only one of the two moves.      *)
(***************************************************************************)
EXTENDS MCCommandBuilder, MCSagas

client == <<vars, calendar, connecting>>

Unused == NothingBuilt /\ days = 0 /\ OnePolicy
NothingHappened == MCSagasInit /\ style = "Saga" /\ kind = OneKind

BothInit == MCInit /\ MCSagasInit
BothNext == \/ NothingHappened /\ MCNext /\ UNCHANGED <<sagas, unwinding>>
            \/ Unused /\ MCSagasNext /\ UNCHANGED client

BothSpec == BothInit /\ [][BothNext]_<<client, sagas, unwinding>>
=============================================================================
