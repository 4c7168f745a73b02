------------------------ MODULE MCMasternodePayments ------------------------
(***************************************************************************)
(* Instances of MasternodePayments: which votes are signed.                *)
(***************************************************************************)
EXTENDS MasternodePayments

CONSTANTS me, mn, A, B

Vote(m, h, p) == [mn |-> m, height |-> h, payee |-> p]

\* The other masternode votes twice for height 1, as it does when the chain it
\* votes on is reorganised; this node votes for height 1.
FewBallots == {Vote(mn, 0, A), Vote(mn, 1, A), Vote(mn, 1, B), Vote(me, 1, A)}
=============================================================================
