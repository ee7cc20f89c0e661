------------------------------ MODULE AbstractVm ------------------------------
(***************************************************************************)
(* What vmctl promises about one VM, without locks, files or PID records:  *)
(* commands change the VM one at a time, QEMU is launched only when none   *)
(* runs and nobody works on the disk, and the disk is worked on only while *)
(* no QEMU runs.                                                           *)
(***************************************************************************)
CONSTANTS Clients, Processes, NoClient

VARIABLES
    owner,      \* the client whose command has the VM to itself
    running,    \* the QEMU processes of the VM
    worker      \* the client that works on the stopped disk

vars == <<owner, running, worker>>

Init ==
    /\ owner = NoClient
    /\ running = {}
    /\ worker = NoClient

Acquire(c) ==
    /\ owner = NoClient
    /\ owner' = c
    /\ UNCHANGED <<running, worker>>

\* A command ends.  A launch that its command gives up goes with it.
Release(c) ==
    /\ owner = c
    /\ owner' = NoClient
    /\ worker' = NoClient
    /\ running' \in SUBSET running

BeginWork(c) ==
    /\ owner = c
    /\ running = {}
    /\ worker' = c
    /\ UNCHANGED <<owner, running>>

EndWork(c) ==
    /\ worker = c
    /\ worker' = NoClient
    /\ UNCHANGED <<owner, running>>

Launch(c, p) ==
    /\ owner = c
    /\ worker = NoClient
    /\ running = {}
    /\ running' = {p}
    /\ UNCHANGED <<owner, worker>>

\* The guest shuts down, QEMU fails, or the owner's signal ends it.
Exit(p) ==
    /\ p \in running
    /\ running' = running \ {p}
    /\ UNCHANGED <<owner, worker>>

Next ==
    \/ \E c \in Clients : Acquire(c) \/ Release(c) \/ BeginWork(c) \/ EndWork(c)
    \/ \E c \in Clients, p \in Processes : Launch(c, p)
    \/ \E p \in Processes : Exit(p)

Spec == Init /\ [][Next]_vars

=============================================================================
