------------------------------ MODULE MCSfsFuse -----------------------------
(* Small instances of SfsFuse for TLC, with the symmetry of MCSfs.         *)
EXTENDS SfsFuse, MCSfs

=============================================================================
