--------------------------- MODULE AuditedResults ---------------------------
(***************************************************************************)
(* What an incident's investigations promise those who read their results: *)
(* a result comes at once, with the evidence of one run and all of it, the *)
(* run gathered it one query after another within its budget, and the      *)
(* result cites nothing else.  A run that dies leaves nothing behind.      *)
(***************************************************************************)
EXTENDS Integers, Sequences, FiniteSets

CONSTANTS Query, QueryBudget

VARIABLES
  running,   \* a run is under way
  evidence,  \* what it has gathered: numbered queries
  published  \* the results, version by version, each with its evidence

vars == <<running, evidence, published>>

Init == ~running /\ evidence = {} /\ published = <<>>

Begin == ~running /\ running' = TRUE /\ UNCHANGED <<evidence, published>>

\* The further queries of a run that were executed are what it costs.
Cost(entries) == Cardinality({e \in entries : e.executed /\ ~e.opening})

Gather(query, opening, executed) ==
  LET entry == [seq |-> Cardinality(evidence) + 1, query |-> query,
                opening |-> opening, executed |-> executed]
  IN /\ running
     /\ Cost(evidence \cup {entry}) <= QueryBudget
     /\ evidence' = evidence \cup {entry}
     /\ UNCHANGED <<running, published>>

\* A result cites gathered queries, an answer only those that ran.
Publish(outcome, cites) ==
  /\ running
  /\ \A q \in cites : \E e \in evidence :
       e.query = q /\ (outcome = "answered" => e.executed)
  /\ published' = Append(published, [outcome |-> outcome, cites |-> cites, evidence |-> evidence])
  /\ running' = FALSE /\ evidence' = {}

Abandon == running /\ running' = FALSE /\ evidence' = {} /\ UNCHANGED published

Next ==
  \/ Begin \/ Abandon
  \/ \E q \in Query, opening, executed \in BOOLEAN : Gather(q, opening, executed)
  \/ \E outcome \in {"answered", "agent_unavailable"}, cites \in SUBSET Query :
       Publish(outcome, cites)

Spec == Init /\ [][Next]_vars
=============================================================================
