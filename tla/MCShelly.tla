------------------------------ MODULE MCShelly ------------------------------
(* Small instances of Shelly for TLC.  Process ids are interchangeable.    *)
EXTENDS Shelly, TLC

Symmetry == Permutations(Pid)

=============================================================================
