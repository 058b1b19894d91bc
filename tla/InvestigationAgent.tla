------------------------ MODULE InvestigationAgent ------------------------
(***************************************************************************)
(* One incident's investigations: investigation/agent.py drives a bounded  *)
(* loop of model and evidence calls, gateway.py runs and records the       *)
(* evidence calls, runner.py builds a gateway per run and stores what the  *)
(* agent returns (store.py).                                               *)
(*                                                                         *)
(* Every call runs on a thread of its own, which the agent joins for the   *)
(* rest of its wall-clock budget and then leaves running.  The threads of  *)
(* evidence calls write the run's trail and budget, so they are modelled   *)
(* step by step; a model call has no effect but its answer.                *)
(*                                                                         *)
(* A query stands for a {tool, input} value, the gateway's query_id being  *)
(* a function of it.  The claim, the version and the lifecycle of the row  *)
(* are in IncidentLifecycle.                                               *)
(***************************************************************************)
EXTENDS Integers, Sequences, FiniteSets

CONSTANTS
  Query,        \* what a model may ask for
  Allowed,      \* queries of an allowlisted tool
  Opening,      \* the fixed opening evidence set
  Thread,
  QueryBudget,
  MaxTurns,
  MaxCalls,     \* bound: tool calls in one model response
  MaxRuns,      \* bound: runs started
  None

VARIABLES
  phase,    \* where InvestigationAgent.investigate is
  late,     \* the wall-clock budget is exhausted
  turns,    \* model calls of _gather answered with tool calls
  left,     \* tool calls of the last response still to make
  call,     \* the thread the agent is joined to, if it is an evidence call
  thread,   \* the evidence calls under way, abandoned ones included
  spent,    \* EvidenceGateway._additional_calls
  trail,    \* EvidenceTrail.entries
  result,   \* the run's result, before it is stored
  results,  \* investigation_result, version by version; `trail` is what the
            \* run had recorded when its result was stored (history)
  table,    \* evidence_trail
  runs

agent   == <<phase, late, turns, left, call, result>>
gateway == <<spent, trail>>
store   == <<results, table>>
vars    == <<agent, thread, gateway, store, runs>>

Phase    == {"idle", "opening", "model", "tools", "final", "retry", "done"}
Position == {"next", "check", "count", "execute", "number", "append", "live", "returned", "raised"}
Entry    == [seq : Nat, query : Query, opening : BOOLEAN, executed : BOOLEAN]
Call     == [at : Position, query : Query \cup {None}, rest : SUBSET Query,
             opening : BOOLEAN, executed : BOOLEAN, seq : Nat]
Result   == [outcome : {"answered", "agent_unavailable"}, cites : SUBSET Query]
TrailRow == [version : Nat, entry : Entry]

ASSUME AgentAssumption ==
  /\ Opening \subseteq Allowed
  /\ Allowed \subseteq Query
  /\ QueryBudget \in Nat
  /\ MaxTurns \in Nat
  /\ MaxCalls \in Nat
  /\ MaxRuns \in Nat
  /\ None \notin Query \cup Thread \cup Call \cup Result

Entries(s) == {s[i] : i \in DOMAIN s}
Version  == Len(results) + 1   \* the version the run under way will store

\* INSERT OR REPLACE on the key (incident_id, result_version, sequence).
Upsert(rows, new) ==
  {r \in rows : \A n \in new : r.version # n.version \/ r.entry.seq # n.entry.seq} \cup new

\* What a run keeps in memory, before it starts and once it is over: the next
\* one has a gateway and a trail of its own. (Mutant: one gateway for all runs.)
ForgetButGateway ==
  /\ phase' = "idle" /\ late' = FALSE /\ turns' = 0 /\ left' = 0
  /\ call' = None /\ result' = None
  /\ thread' = [t \in Thread |-> None]
  /\ UNCHANGED gateway
Forget ==
  /\ phase' = "idle" /\ late' = FALSE /\ turns' = 0 /\ left' = 0
  /\ call' = None /\ result' = None
  /\ thread' = [t \in Thread |-> None]
  /\ spent' = 0 /\ trail' = <<>>

Init ==
  /\ phase = "idle" /\ late = FALSE /\ turns = 0 /\ left = 0
  /\ call = None /\ result = None
  /\ thread = [t \in Thread |-> None]
  /\ spent = 0 /\ trail = <<>>
  /\ results = <<>> /\ table = {}
  /\ runs = 0

-----------------------------------------------------------------------------
(* The gateway, on the thread of the call *)

At(t, p) == thread[t] # None /\ thread[t].at = p
Move(t, from, to) == At(t, from) /\ thread' = [thread EXCEPT ![t].at = to]

\* run_opening goes through its tools; a call of the model asks for one query.
NextQuery(t) ==
  /\ At(t, "next")
  /\ \E q \in thread[t].rest :
       thread' = [thread EXCEPT ![t].at = "check", ![t].query = q, ![t].rest = @ \ {q}]
  /\ UNCHANGED <<agent, gateway, store, runs>>

Return(t) ==
  /\ thread[t] # None /\ thread[t].rest = {}
  /\ Move(t, "next", "returned")
  /\ UNCHANGED <<agent, gateway, store, runs>>

\* An allowlisted tool, and budget for it.
Admitted(c) == c.query \in Allowed /\ (c.opening \/ spent < QueryBudget)

Refuse(t) ==
  /\ Move(t, "check", "number")
  /\ ~Admitted(thread[t])
  /\ UNCHANGED <<agent, gateway, store, runs>>

Admit(t) ==
  /\ Move(t, "check", "count")
  /\ Admitted(thread[t])
  /\ UNCHANGED <<agent, gateway, store, runs>>

\* The budget is charged before the tool runs, and opening calls are free.
Charge(t) ==
  /\ Move(t, "count", "execute")
  /\ spent' = IF thread[t].opening THEN spent ELSE spent + 1
  /\ UNCHANGED <<agent, trail, store, runs>>

\* A tool that times out or fails was attempted all the same.
Execute(t) ==
  /\ At(t, "execute")
  /\ thread' = [thread EXCEPT ![t].at = "number", ![t].executed = TRUE]
  /\ UNCHANGED <<agent, gateway, store, runs>>

\* EvidenceTrail.record numbers the entry, then appends it.
Number(t) ==
  /\ At(t, "number")
  /\ thread' = [thread EXCEPT ![t].at = "append", ![t].seq = Len(trail) + 1]
  /\ UNCHANGED <<agent, gateway, store, runs>>

Recorded(c) == [seq |-> c.seq, query |-> c.query, opening |-> c.opening, executed |-> c.executed]

Record(t) ==
  /\ Move(t, "append", "live")
  /\ trail' = Append(trail, Recorded(thread[t]))
  /\ UNCHANGED <<agent, spent, store, runs>>

\* persist_entry. The live connection was opened on the runner's thread and
\* sqlite3 refuses it on any other: the write raises, and _finish swallows it.
\* (Mutant: the connection works on every thread.)
LiveWriteAnyThread(row) == table' = IF phase = "done" THEN table ELSE Upsert(table, {row})
LiveWrite(row) == UNCHANGED table

Persisted(t) ==
  /\ At(t, "live")
  /\ LiveWrite([version |-> Version, entry |-> Recorded(thread[t])])
  /\ thread' = [thread EXCEPT ![t].at = "next", ![t].executed = FALSE]
  /\ UNCHANGED <<agent, gateway, results, runs>>

\* Anything else the call raises ends it.
Raise(t) ==
  /\ Move(t, "execute", "raised")
  /\ UNCHANGED <<agent, gateway, store, runs>>

GatewayStep(t) ==
  \/ NextQuery(t) \/ Return(t) \/ Refuse(t) \/ Admit(t) \/ Charge(t) \/ Execute(t)
  \/ Number(t) \/ Record(t) \/ Persisted(t) \/ Raise(t)

-----------------------------------------------------------------------------
(* The agent, on the runner's thread *)

Free(t) == thread[t] = None
NewCall(q, rest, opening, at) ==
  [at |-> at, query |-> q, rest |-> rest, opening |-> opening, executed |-> FALSE, seq |-> 0]

\* A claimed incident is submitted; the opening bundle is the first call.
StartRun(t) ==
  /\ phase = "idle" /\ runs < MaxRuns
  /\ runs' = runs + 1
  /\ phase' = "opening" /\ call' = t
  /\ thread' = [thread EXCEPT ![t] = NewCall(None, Opening, TRUE, "next")]
  /\ UNCHANGED <<late, turns, left, result, gateway, store>>

Returned == call # None /\ thread[call].at = "returned"
Waiting  == call # None /\ thread[call].at \notin {"returned", "raised"}
AfterTurn(n) == IF n < MaxTurns THEN "model" ELSE "final"

\* The ledger is seeded and the prompt assembled.
OpeningDone ==
  /\ phase = "opening" /\ Returned
  /\ phase' = AfterTurn(0)
  /\ call' = None /\ thread' = [thread EXCEPT ![call] = None]
  /\ UNCHANGED <<late, turns, left, result, gateway, store, runs>>

\* assert_prompt_safe fails: an AssertionError is none of the exceptions the
\* runner names, so collecting the future takes the process down.
PromptRefused ==
  /\ phase = "opening" /\ Returned
  /\ Forget
  /\ UNCHANGED <<store, runs>>

\* A response of _gather asks for tools, or for none.
ModelCalls(n) ==
  /\ phase = "model" /\ ~late
  /\ phase' = "tools" /\ left' = n
  /\ turns' = turns + 1
  /\ UNCHANGED <<late, call, result, thread, gateway, store, runs>>

ModelStops ==
  /\ phase = "model" /\ ~late
  /\ phase' = "final"
  /\ UNCHANGED <<late, turns, left, call, result, thread, gateway, store, runs>>

CallTool(t, q) ==
  /\ phase = "tools" /\ call = None /\ ~late
  /\ Free(t)
  /\ call' = t
  /\ thread' = [thread EXCEPT ![t] = NewCall(q, {}, FALSE, "check")]
  /\ UNCHANGED <<phase, late, turns, left, result, gateway, store, runs>>

\* On to the next call of the response, or to the next turn.
NextCall ==
  /\ left' = left - 1
  /\ phase' = IF left = 1 THEN AfterTurn(turns) ELSE "tools"
  /\ call' = None

ToolReturned ==
  /\ phase = "tools" /\ Returned
  /\ NextCall
  /\ thread' = [thread EXCEPT ![call] = None]
  /\ UNCHANGED <<late, turns, result, gateway, store, runs>>

\* _validate checks citations against the trail. (Mutant: a query that is in
\* the trail will do.)
VerifyRecorded(q) == \E e \in Entries(trail) : e.query = q
VerifyCitation(q) == \E e \in Entries(trail) : e.query = q /\ e.executed

End(r) ==
  /\ phase' = "done" /\ result' = r
  /\ call' = None
  /\ UNCHANGED <<late, turns, left, thread, gateway, store, runs>>

\* A final answer is accepted, or sent back once with its errors.
Accept(cites) ==
  /\ phase \in {"final", "retry"} /\ ~late
  /\ \A q \in cites : VerifyCitation(q)
  /\ End([outcome |-> "answered", cites |-> cites])

Reject ==
  /\ phase = "final" /\ ~late
  /\ phase' = "retry"
  /\ UNCHANGED <<late, turns, left, call, result, thread, gateway, store, runs>>

\* degrade_result cites every entry of an allowlisted tool, refused ones too.
References == {q \in Allowed : \E e \in Entries(trail) : e.query = q}
Degrade == End([outcome |-> "agent_unavailable", cites |-> References])

\* The client raises, the call raises, or the answer is invalid a second time.
Unavailable ==
  /\ \/ phase \in {"model", "final", "retry"} /\ ~late
     \/ call # None /\ thread[call].at = "raised"
  /\ Degrade

\* Out of time, waiting for a call or about to make one. (Mutants: the agent
\* gives up on the call and goes on; the agent joins without a timeout.)
SkipSlowCall ==
  /\ phase = "tools" /\ Waiting
  /\ NextCall
  /\ UNCHANGED <<late, turns, result, thread, gateway, store, runs>>
TimedOutBetweenCalls == late /\ phase \notin {"idle", "done"} /\ call = None /\ Degrade
TimedOut ==
  /\ late /\ phase \notin {"idle", "done"}
  /\ call = None \/ Waiting
  /\ Degrade

DeadlinePasses ==
  /\ phase \notin {"idle", "done"} /\ ~late
  /\ late' = TRUE
  /\ UNCHANGED <<phase, turns, left, call, result, thread, gateway, store, runs>>

-----------------------------------------------------------------------------
(* The runner's process *)

Rows(v, entries) == {[version |-> v, entry |-> e] : e \in Entries(entries)}

\* persist_result stores the result and, key by key, its trail.
Persist ==
  /\ phase = "done"
  /\ results' = Append(results,
       [outcome |-> result.outcome, cites |-> result.cites, trail |-> trail])
  /\ table' = Upsert(table, Rows(Version, trail))
  /\ Forget
  /\ UNCHANGED runs

\* The process dies in a run and is restarted: the reclaimed incident is run again.
Crash ==
  /\ phase # "idle"
  /\ Forget
  /\ UNCHANGED <<store, runs>>

Worker ==
  \/ OpeningDone \/ PromptRefused \/ ToolReturned \/ Unavailable \/ TimedOut \/ Persist
  \/ \E t \in Thread, q \in Query : CallTool(t, q)

Model ==
  \/ \E n \in 1..MaxCalls : ModelCalls(n)
  \/ ModelStops \/ Reject
  \/ \E cites \in SUBSET Query : Accept(cites)

Next ==
  \/ \E t \in Thread : StartRun(t) \/ GatewayStep(t)
  \/ Worker \/ Model \/ DeadlinePasses \/ Crash

Spec == Init /\ [][Next]_vars

\* The agent does what is its own to do, and clocks advance. Nobody owes an
\* answer: neither the model nor a tool's thread is fair.
Fairness == WF_vars(Worker) /\ WF_vars(DeadlinePasses)
FairSpec == Spec /\ Fairness

-----------------------------------------------------------------------------
(* Properties *)

\* Every variable holds what the code can put there.
TypeOK ==
  /\ phase \in Phase
  /\ late \in BOOLEAN
  /\ turns \in Nat
  /\ left \in Nat
  /\ call \in Thread \cup {None}
  /\ thread \in [Thread -> Call \cup {None}]
  /\ spent \in Nat
  /\ trail \in Seq(Entry)
  /\ result \in Result \cup {None}
  /\ results \in Seq([outcome : {"answered", "agent_unavailable"}, cites : SUBSET Query,
                      trail : Seq(Entry)])
  /\ table \subseteq TrailRow
  /\ runs \in Nat

Further(entries) == {i \in DOMAIN entries : entries[i].executed /\ ~entries[i].opening}

\* No run executes more than its budget of further queries, though the call of
\* a run that timed out is still running: ADR 0009's bound on cost.
BudgetKept == Cardinality(Further(trail)) <= QueryBudget

RowsOf(v) == {r \in table : r.version = v}

\* The trail stored with a result is the trail of the run that wrote it, whole:
\* no call of it is missing or overwritten, and nothing of a run that died
\* under the same version is left in it.
StoredTrailIsRuns ==
  \A v \in DOMAIN results :
    /\ RowsOf(v) = Rows(v, results[v].trail)
    /\ \A i \in DOMAIN results[v].trail : results[v].trail[i].seq = i

\* Every citation of a stored result can be looked up in its stored trail, and
\* the query an answer cites was executed.
CitationsHold ==
  \A v \in DOMAIN results : \A q \in results[v].cites :
    \E r \in RowsOf(v) :
      r.entry.query = q /\ (results[v].outcome = "answered" => r.entry.executed)

\* _result_from_row and _trail_entries: a result and its version's rows of the trail.
Readable == [v \in DOMAIN results |->
  [outcome |-> results[v].outcome, cites |-> results[v].cites,
   evidence |-> {r.entry : r \in RowsOf(v)}]]

\* Whoever reads a result and its trail, two tables of the database, reads what a
\* single run gathered step by step and published at once, though calls go on
\* after their run gave up on them, entries are checked, charged and numbered in
\* separate steps, and a dead run is repeated under its version (persist_result).
Audited == INSTANCE AuditedResults
             WITH running <- phase # "idle", evidence <- Entries(trail), published <- Readable
ResultsAreAudited == Audited!Spec

\* Every run ends, stored or with its process, though no call ever returns.
RunEnds == phase # "idle" ~> phase = "idle"
=============================================================================
