----------------------------- MODULE MCEthTxRing -----------------------------
(***************************************************************************)
(* Small instances of EthTxRing.                                           *)
(***************************************************************************)
EXTENDS EthTxRing, TLC

CONSTANTS p1, p2

MCPackets == {p1, p2}
PacketSymmetry == Permutations(MCPackets)
=============================================================================
