----------------------------- MODULE MCEthRxRing -----------------------------
(***************************************************************************)
(* Small instances of EthRxRing.                                           *)
(***************************************************************************)
EXTENDS EthRxRing, TLC

CONSTANTS f1, f2

MCFrames == {f1, f2}
FrameSymmetry == Permutations(MCFrames)
=============================================================================
