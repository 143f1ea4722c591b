------------------------------ MODULE MCInstaller ------------------------------
(* The releases are interchangeable: no definition prefers one to another. *)
EXTENDS Installer

Symmetry == Permutations(Images)

=============================================================================
