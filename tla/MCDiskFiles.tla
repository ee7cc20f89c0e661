----------------------------- MODULE MCDiskFiles -----------------------------
(* Instances of DiskFiles for TLC.                                          *)
EXTENDS DiskFiles, TLC

\* A PID only tells the temporary files of one process from those of another.
Symmetry == Permutations(Pids)

=============================================================================
