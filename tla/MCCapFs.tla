------------------------------- MODULE MCCapFs -------------------------------
(* Instances of CapFs for TLC, and the properties checked on them.         *)
EXTENDS CapFsProps, TLC

MCInputSize == [n \in Names |-> 2]
Symmetry == Permutations(Names)
==============================================================================
