-------------------------- MODULE MCGroupDispatch ---------------------------
(* Model checking of GroupDispatch on small instances. *)
EXTENDS GroupDispatch, TLC

MCSymmetry ==
    Permutations(OneShots) \cup Permutations(Chats) \cup Permutations(Humans)
    \cup Permutations(Agents)
=============================================================================
