-------------------------- MODULE MC_DescriptorRing --------------------------
(***************************************************************************)
(* DescriptorRing with three processes, two descriptors and a ring of two. *)
(***************************************************************************)
EXTENDS DescriptorRing, TLC

CONSTANTS p1, p2, p3, d1, d2

MCProcs == {p1, p2, p3}
MCDescs == {d1, d2}

Perms == Permutations(MCProcs) \cup Permutations(MCDescs)
=============================================================================
