---------------------------- MODULE MCImageCache ----------------------------
(* Instances of ImageCache for TLC.                                        *)
EXTENDS ImageCache, TLC

\* Clients, URLs, contents and VMs are interchangeable.
Symmetry ==
    Permutations(Clients) \cup Permutations(Urls) \cup Permutations(Contents)
        \cup Permutations(Vms)

=============================================================================
