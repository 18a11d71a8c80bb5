----------------------------- MODULE MCCtProtocol -----------------------------
(***************************************************************************)
(* CtProtocol in an overlay for which find_paths finds what the journey of *)
(* a value needs.                                                          *)
(***************************************************************************)
EXTENDS CtProtocol

ASSUME PathsFound == RoutesFit /\ RoutesDisjoint

=============================================================================
