------------------------ MODULE MCIncidentLifecycle ------------------------
(* Small instances of IncidentLifecycle for TLC. *)
EXTENDS IncidentLifecycle, TLC

\* Identifiers are interchangeable in safety runs.
Symmetry == Permutations(Incident) \cup Permutations(Runner) \cup Permutations(Measurement)
=============================================================================
