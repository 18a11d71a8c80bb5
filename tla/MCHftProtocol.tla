---------------------------- MODULE MCHftProtocol ----------------------------
(***************************************************************************)
(* HftProtocol in an overlay in which floods get around the failures.      *)
(***************************************************************************)
EXTENDS HftProtocol

ASSUME FloodsGetAround == FloodsReach

=============================================================================
