-------------------------- MODULE MCLiveSubscriptions --------------------------
(* Small instances of LiveSubscriptions for TLC.                            *)
EXTENDS LiveSubscriptions, TLC

Symmetry == Permutations(Tasks) \cup Permutations(Keys)
=============================================================================
