------------------------------- MODULE MCMemo -------------------------------
(* Memo for TLC: the identities of callers, keys, flights and elements are  *)
(* interchangeable, so the safety runs use their permutations as symmetry.  *)
EXTENDS Memo, TLC

Symmetry == Permutations(Callers) \cup Permutations(Keys)
              \cup Permutations(Flights) \cup Permutations(Elements)
=============================================================================
