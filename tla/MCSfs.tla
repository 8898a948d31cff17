-------------------------------- MODULE MCSfs -------------------------------
(* Small instances of Sfs for TLC.  File names are interchangeable, and so  *)
(* are the bytes.                                                          *)
EXTENDS Sfs, TLC

Symmetry == Permutations(Name) \cup Permutations(Byte)

=============================================================================
