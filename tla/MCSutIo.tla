------------------------------ MODULE MCSutIo ------------------------------
(* Small instances of SutIo for TLC.  The tasks are interchangeable.       *)
EXTENDS SutIo, TLC

Symmetry == Permutations(Task)

=============================================================================
