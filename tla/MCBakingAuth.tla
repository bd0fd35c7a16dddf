---------------------------- MODULE MCBakingAuth ----------------------------
(* BakingAuth on small instances: two keys, "any" chain and two real ones,  *)
(* and a level range with one value that is_valid_level refuses.            *)
EXTENDS BakingAuth, TLC

\* Sessions that started with a P1_FIRST packet: parsed_baking_data is zero
\* when a delegation is signed.
CleanLeftover == {ZeroBakingData}

\* Whatever another instruction may have left in the session.
AnyLeftover == parsed_baking_data_t

KeySymmetry == Permutations(Key)

=============================================================================
