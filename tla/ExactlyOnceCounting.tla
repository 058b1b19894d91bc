------------------------ MODULE ExactlyOnceCounting ------------------------
(***************************************************************************)
(* What ingestion promises the metrics that read its tables: an event that *)
(* was published is counted at most once, and never before it is           *)
(* published ("exactly-once counting", detector/store.py:226).             *)
(***************************************************************************)
EXTENDS Naturals

CONSTANT Event

VARIABLES
  published,  \* events some topic holds
  counted     \* rows stored for each event

vars == <<published, counted>>

Init == published = {} /\ counted = [e \in Event |-> 0]

Publish(e) == published' = published \cup {e} /\ UNCHANGED counted

\* A batch of published events is counted at once, each for the first time.
Count(batch) ==
  /\ \A e \in batch : counted[e] = 0
  /\ counted' = [e \in Event |-> IF e \in batch THEN 1 ELSE counted[e]]
  /\ UNCHANGED published

Next ==
  \/ \E e \in Event : Publish(e)
  \/ \E batch \in SUBSET published : Count(batch)

Spec == Init /\ [][Next]_vars
=============================================================================
