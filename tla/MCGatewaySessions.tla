-------------------------- MODULE MCGatewaySessions --------------------------
(* Small instances of GatewaySessions for TLC. *)
EXTENDS GatewaySessions, TLC

\* Requests are interchangeable, and so are session ids.
GatewaySymmetry == Permutations(Tasks) \cup Permutations(Sessions)
=============================================================================
