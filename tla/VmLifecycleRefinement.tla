------------------------ MODULE VmLifecycleRefinement ------------------------
(***************************************************************************)
(* VmLifecycle implements AbstractVm as long as no command deletes the VM: *)
(* the client in its critical section owns the VM, and the QEMU processes  *)
(* that vmctl knows of are the ones that run.                              *)
(***************************************************************************)
EXTENDS VmLifecycle

CONSTANT NoClient

ASSUME NoClientAssumption == NoClient \notin Clients

\* The one client of the set, or none.
TheClient(S) == IF S = {} THEN NoClient ELSE CHOOSE c \in S : TRUE

Owner == TheClient({c \in Clients : Critical(c)})

Worker == TheClient({c \in Clients : DiskInUse(c)})

Abstract == INSTANCE AbstractVm
    WITH Processes <- Launches, owner <- Owner, running <- Known, worker <- Worker

\* Under every interleaving and every crash of the clients the VM behaves as
\* AbstractVm says.
ImplementsAbstractVm == Abstract!Spec

=============================================================================
