-------------------------- MODULE MCArtemisAdapter --------------------------
(* Bounded instances of ArtemisAdapter for TLC. *)
EXTENDS ArtemisAdapter, TLC

Symmetry ==
    Permutations(Requests) \cup Permutations(Users)
      \cup Permutations(Messages) \cup Permutations(Counters)
=============================================================================
