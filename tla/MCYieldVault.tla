---------------------------- MODULE MCYieldVault ----------------------------
(***************************************************************************)
(* TLC instance of the vault.                                              *)
(***************************************************************************)
EXTENDS YieldVaultProperties, TLC

\* Users differ only by name: no operator of the specification chooses one.
UserSymmetry == Permutations(Users)
=============================================================================
