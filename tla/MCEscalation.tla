---------------------------- MODULE MCEscalation ----------------------------
(* Small instances of Escalation for TLC. *)
EXTENDS Escalation, TLC

\* Identifiers and request threads are interchangeable in safety runs.
Symmetry == Permutations(Incident) \cup Permutations(Reader)
=============================================================================
