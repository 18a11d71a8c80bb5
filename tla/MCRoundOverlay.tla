---------------------------- MODULE MCRoundOverlay ----------------------------
(***************************************************************************)
(* RoundOverlay with the offsets of util/Overlay.cpp.                      *)
(***************************************************************************)
EXTENDS RoundOverlay

Graph == INSTANCE Overlay

PowerOffsets == [j \in 0..LastRound |-> Graph!mod_pow(2, j, N)]

\* 2^j mod num_meters over the rounds of an overlay reaches every meter.
Heard[j \in 0..(LastRound + 1)] ==
  [m \in Meter |-> {m} \cup UNION {Heard[i][Pred(m, i)] : i \in 0..(j - 1)}]

ASSUME GossipReaches == GossipSpread(Heard) /\ SpreadsToAll(Heard)

=============================================================================
