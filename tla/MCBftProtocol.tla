---------------------------- MODULE MCBftProtocol ----------------------------
(***************************************************************************)
(* BftProtocol with the proxies interchangeable.                           *)
(***************************************************************************)
EXTENDS BftProtocol, TLC

Symmetry == Permutations(Proxy)

=============================================================================
