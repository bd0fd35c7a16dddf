----------------------------- MODULE MCWalletApp -----------------------------
(* Two interchangeable keys.                                               *)
EXTENDS WalletApp, TLC

Symmetry == Permutations(Key)

=============================================================================
