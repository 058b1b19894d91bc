---------------------------- MODULE MCIngestion ----------------------------
(* Small instances of Ingestion for TLC. *)
EXTENDS Ingestion, TLC

\* Partitions and events of a class are interchangeable.
Symmetry == Permutations(Partition) \cup Permutations(Good)
=============================================================================
