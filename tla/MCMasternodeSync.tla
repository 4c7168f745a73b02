------------------------- MODULE MCMasternodeSync -------------------------
(* Small instances of MasternodeSync for TLC.                              *)
EXTENDS MasternodeSync

CONSTANTS p1, p2, v1

=============================================================================
