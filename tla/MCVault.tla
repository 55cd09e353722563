------------------------------ MODULE MCVault ------------------------------
(***************************************************************************)
(* Vault at a small scale: two virtual shares, fees of a tenth per period, *)
(* a tenth of an exit and two tenths of the gains.                         *)
(***************************************************************************)
EXTENDS Vault, TLC

MCInitialFees == <<1, 2, 1>>
MCFeeChoices == {<<1, 2, 1>>, <<0, 2, 0>>}
MCSymmetry == Permutations(Holders)
MCNavMoves == {-3, 0, 6}
=============================================================================
