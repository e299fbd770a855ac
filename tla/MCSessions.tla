----------------------------- MODULE MCSessions -----------------------------
(* TLC instance of Sessions: symmetric ids and callers, safety runs only.  *)
EXTENDS Sessions, TLC

Symmetry == Permutations(SessionIDs) \cup Permutations(Callers)
=============================================================================
