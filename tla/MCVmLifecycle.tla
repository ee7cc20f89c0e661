---------------------------- MODULE MCVmLifecycle ----------------------------
(* Instances of VmLifecycle for TLC.                                        *)
EXTENDS VmLifecycleInvariant, TLC

\* Clients, launches and lock files are interchangeable: the safety runs take
\* one state of each orbit.
Symmetry ==
    Permutations(Clients) \cup Permutations(Launches) \cup Permutations(Inodes)

=============================================================================
