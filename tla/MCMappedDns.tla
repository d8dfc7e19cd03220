---------------------------- MODULE MCMappedDns ----------------------------
(* MappedDns with interchangeable names.                                   *)
EXTENDS MappedDns

NameSymmetry == Permutations(Names)
=============================================================================
