---------------------------- MODULE MCBakingApp ----------------------------
(* BakingApp on small instances.                                           *)
EXTENDS BakingApp

\* The lowest level, which lowers every mark, and the highest, which a reset
\* must refuse where the instance has an invalid level at all.
OutermostLevels == {0, MaxLevel}

=============================================================================
