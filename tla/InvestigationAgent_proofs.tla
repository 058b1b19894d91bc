--------------------- MODULE InvestigationAgent_proofs ---------------------
(***************************************************************************)
(* Proofs about InvestigationAgent, for any sets of queries and threads    *)
(* and any bounds.                                                         *)
(***************************************************************************)
EXTENDS InvestigationAgent, FiniteSetTheorems, SequenceTheorems, TLAPS

StoredResult == [outcome : {"answered", "agent_unavailable"}, cites : SUBSET Query,
                 trail : Seq(Entry)]

\* What a gateway step does to a thread keeps it a call.
LEMMA CallTyped ==
  ASSUME NEW c \in Call, NEW p \in Position
  PROVE  /\ [c EXCEPT !.at = p] \in Call
         /\ [c EXCEPT !.at = p, !.executed = TRUE] \in Call
         /\ [c EXCEPT !.at = p, !.executed = FALSE] \in Call
         /\ \A n \in Nat : [c EXCEPT !.at = p, !.seq = n] \in Call
         /\ \A q \in Query : [c EXCEPT !.at = p, !.query = q, !.rest = @ \ {q}] \in Call
BY DEF Call

LEMMA NewCallTyped ==
  ASSUME NEW q \in Query \cup {None}, NEW rest \in SUBSET Query,
         NEW opening \in BOOLEAN, NEW p \in Position
  PROVE  NewCall(q, rest, opening, p) \in Call
BY DEF NewCall, Call

\* Past its check a call has a query; the loop of the opening bundle sets it.
Asked(c) == c.at \in {"check", "count", "execute", "number", "append"} => c.query \in Query
CallsAsked == \A t \in Thread : thread[t] # None => Asked(thread[t])

\* A response whose calls are being made has one left to make.
CallsLeft == phase = "tools" => left >= 1

\* A run that is over has a result.
HasResult == phase = "done" => result \in Result

Typed == TypeOK /\ CallsAsked /\ CallsLeft /\ HasResult

LEMMA ForgetTyped ==
  ASSUME Forget
  PROVE  /\ phase' \in Phase /\ late' \in BOOLEAN /\ turns' \in Nat /\ left' \in Nat
         /\ call' \in Thread \cup {None} /\ thread' \in [Thread -> Call \cup {None}]
         /\ spent' \in Nat /\ trail' \in Seq(Entry) /\ result' \in Result \cup {None}
         /\ CallsAsked' /\ CallsLeft' /\ HasResult'
<1>1. trail' = <<>> /\ <<>> \in Seq(Entry)
  BY DEF Forget
<1>2. thread' = [t \in Thread |-> None]
  BY DEF Forget
<1>3. thread' \in [Thread -> Call \cup {None}] /\ CallsAsked'
  BY <1>2 DEF CallsAsked
<1>4. QED BY <1>1, <1>3 DEF Forget, Phase, CallsLeft, HasResult

LEMMA TypedInit ==
  ASSUME Init
  PROVE  Typed
<1>1. <<>> \in Seq(Entry) /\ <<>> \in Seq(StoredResult)
  OBVIOUS
<1>2. thread \in [Thread -> Call \cup {None}] /\ CallsAsked
  BY DEF Init, CallsAsked
<1>3. QED BY <1>1, <1>2 DEF Init, Typed, TypeOK, Phase, StoredResult, CallsLeft, HasResult

\* A gateway step changes its thread, and at most the budget, the trail and the
\* table besides.
LEMMA TypedGateway ==
  ASSUME Typed, NEW t \in Thread, GatewayStep(t)
  PROVE  Typed'
<1> USE DEF Typed
<1>1. thread[t] \in Call /\ Asked(thread[t])
  BY DEF GatewayStep, NextQuery, Return, Refuse, Admit, Charge, Execute, Number, Record,
         Persisted, Raise, Move, At, TypeOK, CallsAsked
<1>2. UNCHANGED <<agent, results, runs>>
  BY DEF GatewayStep, NextQuery, Return, Refuse, Admit, Charge, Execute, Number, Record,
         Persisted, Raise, store
<1>3. ASSUME NEW c \in Call, Asked(c), thread' = [thread EXCEPT ![t] = c],
             spent' \in Nat, trail' \in Seq(Entry), table' \subseteq TrailRow
      PROVE  Typed'
  <2>1. thread' \in [Thread -> Call \cup {None}] /\ CallsAsked'
    BY <1>3 DEF TypeOK, CallsAsked
  <2>2. QED BY <1>2, <1>3, <2>1 DEF TypeOK, agent, CallsLeft, HasResult
<1> DEFINE Moved(p) == [thread[t] EXCEPT !.at = p]
<1>4. CASE Return(t) \/ Refuse(t) \/ Admit(t) \/ Raise(t)
  <2>1. PICK p \in {"returned", "number", "count", "raised"} :
          /\ thread' = [thread EXCEPT ![t] = Moved(p)]
          /\ p \in {"number", "count"} => thread[t].at = "check"
    BY <1>4 DEF Return, Refuse, Admit, Raise, Move, At
  <2>2. Moved(p) \in Call
    BY <1>1, <2>1, CallTyped DEF Position
  <2>3. Asked(Moved(p))
    BY <1>1, <2>1 DEF Asked, Call
  <2>4. UNCHANGED <<spent, trail, table>>
    BY <1>4 DEF Return, Refuse, Admit, Raise, gateway, store
  <2>5. QED BY <1>3, <2>1, <2>2, <2>3, <2>4 DEF TypeOK
<1>5. CASE NextQuery(t)
  <2>1. PICK q \in thread[t].rest :
          thread' = [thread EXCEPT ![t] =
                      [thread[t] EXCEPT !.at = "check", !.query = q, !.rest = @ \ {q}]]
    BY <1>5 DEF NextQuery
  <2> DEFINE c == [thread[t] EXCEPT !.at = "check", !.query = q, !.rest = @ \ {q}]
  <2>2. q \in Query
    BY <1>1 DEF Call
  <2>3. c \in Call
    BY <1>1, <2>2, CallTyped DEF Position
  <2>4. Asked(c)
    BY <1>1, <2>2 DEF Asked, Call
  <2>5. UNCHANGED <<spent, trail, table>>
    BY <1>5 DEF NextQuery, gateway, store
  <2>6. QED BY <1>3, <2>1, <2>3, <2>4, <2>5 DEF TypeOK
<1>6. CASE Charge(t)
  <2>1. thread' = [thread EXCEPT ![t] = Moved("execute")] /\ thread[t].at = "count"
    BY <1>6 DEF Charge, Move, At
  <2>2. Moved("execute") \in Call
    BY <1>1, CallTyped DEF Position
  <2>3. Asked(Moved("execute"))
    BY <1>1, <2>1 DEF Asked, Call
  <2>4. spent' \in Nat /\ UNCHANGED <<trail, table>>
    BY <1>6 DEF Charge, TypeOK, store
  <2>5. QED BY <1>3, <2>1, <2>2, <2>3, <2>4 DEF TypeOK
<1>7. CASE Execute(t)
  <2> DEFINE c == [thread[t] EXCEPT !.at = "number", !.executed = TRUE]
  <2>1. thread' = [thread EXCEPT ![t] = c] /\ thread[t].at = "execute"
    BY <1>7 DEF Execute, At
  <2>2. c \in Call
    BY <1>1, CallTyped DEF Position
  <2>3. Asked(c)
    BY <1>1, <2>1 DEF Asked, Call
  <2>4. UNCHANGED <<spent, trail, table>>
    BY <1>7 DEF Execute, gateway, store
  <2>5. QED BY <1>3, <2>1, <2>2, <2>3, <2>4 DEF TypeOK
<1>8. CASE Number(t)
  <2> DEFINE c == [thread[t] EXCEPT !.at = "append", !.seq = Len(trail) + 1]
  <2>1. thread' = [thread EXCEPT ![t] = c] /\ thread[t].at = "number"
    BY <1>8 DEF Number, At
  <2>2. Len(trail) + 1 \in Nat
    BY DEF TypeOK
  <2>3. c \in Call
    BY <1>1, <2>2, CallTyped DEF Position
  <2>4. Asked(c)
    BY <1>1, <2>1 DEF Asked, Call
  <2>5. UNCHANGED <<spent, trail, table>>
    BY <1>8 DEF Number, gateway, store
  <2>6. QED BY <1>3, <2>1, <2>3, <2>4, <2>5 DEF TypeOK
<1>9. CASE Record(t)
  <2>1. thread' = [thread EXCEPT ![t] = Moved("live")] /\ thread[t].at = "append"
    BY <1>9 DEF Record, Move, At
  <2>2. Moved("live") \in Call
    BY <1>1, CallTyped DEF Position
  <2>3. Asked(Moved("live"))
    BY <1>1 DEF Asked, Call
  <2>4. Recorded(thread[t]) \in Entry
    BY <1>1, <2>1 DEF Recorded, Entry, Asked, Call
  <2>5. trail' \in Seq(Entry)
    BY <1>9, <2>4 DEF Record, TypeOK
  <2>6. UNCHANGED <<spent, table>>
    BY <1>9 DEF Record, store
  <2>7. QED BY <1>3, <2>1, <2>2, <2>3, <2>5, <2>6 DEF TypeOK
<1>10. CASE Persisted(t)
  <2> DEFINE c == [thread[t] EXCEPT !.at = "next", !.executed = FALSE]
  <2>1. thread' = [thread EXCEPT ![t] = c]
    BY <1>10 DEF Persisted, At
  <2>2. c \in Call
    BY <1>1, CallTyped DEF Position
  <2>3. Asked(c)
    BY <1>1 DEF Asked, Call
  <2>4. UNCHANGED <<spent, trail, table>>
    BY <1>10 DEF Persisted, LiveWrite, gateway
  <2>5. QED BY <1>3, <2>1, <2>2, <2>3, <2>4 DEF TypeOK
<1>11. QED
  BY <1>4, <1>5, <1>6, <1>7, <1>8, <1>9, <1>10 DEF GatewayStep

\* A step that starts or drops a call keeps the threads typed.
LEMMA TypedThread ==
  ASSUME Typed, NEW t \in Thread, NEW c,
         c = None \/ (c \in Call /\ Asked(c)),
         thread' = [thread EXCEPT ![t] = c]
  PROVE  thread' \in [Thread -> Call \cup {None}] /\ CallsAsked'
BY DEF Typed, TypeOK, CallsAsked

\* The agent's steps: each starts, drops or leaves alone the one call it is
\* joined to.
LEMMA TypedAgent ==
  ASSUME Typed,
         \/ \E t \in Thread : StartRun(t)
         \/ OpeningDone \/ ToolReturned \/ Unavailable \/ TimedOut \/ Model \/ DeadlinePasses
         \/ \E t \in Thread, q \in Query : CallTool(t, q)
  PROVE  Typed'
<1> USE DEF Typed
<1>1. ASSUME NEW t \in Thread, StartRun(t) PROVE Typed'
  <2> DEFINE c == NewCall(None, Opening, TRUE, "next")
  <2>1. c \in Call
    BY NewCallTyped, AgentAssumption DEF Position
  <2>2. Asked(c)
    BY DEF Asked, NewCall
  <2>3. thread' = [thread EXCEPT ![t] = c]
    BY <1>1 DEF StartRun
  <2> HIDE DEF c
  <2>4. thread' \in [Thread -> Call \cup {None}] /\ CallsAsked'
    BY <2>1, <2>2, <2>3, TypedThread
  <2>5. phase' = "opening" /\ call' = t /\ runs' = runs + 1
    BY <1>1 DEF StartRun
  <2>6. UNCHANGED <<late, turns, left, result, spent, trail, results, table>>
    BY <1>1 DEF StartRun, gateway, store
  <2>7. QED BY <2>4, <2>5, <2>6 DEF TypeOK, Phase, CallsLeft, HasResult
<1>2. ASSUME NEW t \in Thread, NEW q \in Query, CallTool(t, q) PROVE Typed'
  <2> DEFINE c == NewCall(q, {}, FALSE, "check")
  <2>1. c \in Call
    BY NewCallTyped DEF Position
  <2>2. Asked(c)
    BY DEF Asked, NewCall
  <2>3. thread' = [thread EXCEPT ![t] = c]
    BY <1>2 DEF CallTool
  <2> HIDE DEF c
  <2>4. thread' \in [Thread -> Call \cup {None}] /\ CallsAsked'
    BY <2>1, <2>2, <2>3, TypedThread
  <2>5. QED BY <1>2, <2>4 DEF CallTool, TypeOK, CallsLeft, HasResult, gateway, store
<1>3. CASE OpeningDone
  <2>1. thread' \in [Thread -> Call \cup {None}] /\ CallsAsked'
    BY <1>3, TypedThread DEF OpeningDone, Returned, TypeOK
  <2>2. QED BY <1>3, <2>1 DEF OpeningDone, AfterTurn, TypeOK, Phase, CallsLeft, HasResult, gateway, store
<1>4. CASE ToolReturned
  <2>1. thread' \in [Thread -> Call \cup {None}] /\ CallsAsked'
    BY <1>4, TypedThread DEF ToolReturned, Returned, TypeOK
  <2>2. left' \in Nat /\ phase' \in Phase /\ CallsLeft' /\ HasResult' /\ call' = None
    BY <1>4 DEF ToolReturned, NextCall, AfterTurn, TypeOK, Phase, CallsLeft, HasResult
  <2>3. QED BY <1>4, <2>1, <2>2 DEF ToolReturned, TypeOK, gateway, store
<1>5. ASSUME NEW r \in Result, End(r) PROVE Typed'
  BY <1>5 DEF End, TypeOK, Phase, CallsAsked, CallsLeft, HasResult, gateway, store
<1>6. CASE Unavailable \/ TimedOut
  <2>1. [outcome |-> "agent_unavailable", cites |-> References] \in Result
    BY AgentAssumption DEF References, Result
  <2>2. QED BY <1>5, <1>6, <2>1 DEF Unavailable, TimedOut, Degrade
<1>7. CASE DeadlinePasses
  BY <1>7 DEF DeadlinePasses, TypeOK, CallsAsked, CallsLeft, HasResult, gateway, store
<1>8. CASE Model
  <2>1. ASSUME NEW cites \in SUBSET Query, Accept(cites) PROVE Typed'
    <3>1. [outcome |-> "answered", cites |-> cites] \in Result
      BY DEF Result
    <3>2. QED BY <1>5, <2>1, <3>1 DEF Accept
  <2>2. ASSUME NEW n \in 1..MaxCalls, ModelCalls(n) PROVE Typed'
    BY <2>2, AgentAssumption DEF ModelCalls, TypeOK, Phase, CallsAsked, CallsLeft, HasResult, gateway, store
  <2>3. CASE ModelStops \/ Reject
    BY <2>3 DEF ModelStops, Reject, TypeOK, Phase, CallsAsked, CallsLeft, HasResult, gateway, store
  <2>4. QED BY <1>8, <2>1, <2>2, <2>3 DEF Model
<1>9. QED BY <1>1, <1>2, <1>3, <1>4, <1>6, <1>7, <1>8

\* The ends of a run: its result is stored, or its process dies.
LEMMA TypedEnds ==
  ASSUME Typed, Persist \/ Crash \/ PromptRefused
  PROVE  Typed'
<1> USE DEF Typed
<1>1. Forget
  BY DEF Persist, Crash, PromptRefused
<1>2. runs' = runs
  BY DEF Persist, Crash, PromptRefused
<1>3. CASE UNCHANGED store
  BY <1>1, <1>2, <1>3, ForgetTyped DEF TypeOK, store
<1>4. CASE Persist
  <2> DEFINE r == [outcome |-> result.outcome, cites |-> result.cites, trail |-> trail]
  <2>1. r \in StoredResult
    BY <1>4 DEF Persist, StoredResult, Result, TypeOK, HasResult
  <2>2. results' = Append(results, r)
    BY <1>4 DEF Persist
  <2> HIDE DEF r
  <2>3. results' \in Seq(StoredResult)
    BY <2>1, <2>2 DEF TypeOK, StoredResult
  <2>4. Rows(Version, trail) \subseteq TrailRow
    BY DEF Rows, Entries, Version, TrailRow, TypeOK
  <2>5. table' \subseteq TrailRow
    BY <1>4, <2>4 DEF Persist, Upsert, TypeOK
  <2>6. QED BY <1>1, <1>2, <2>3, <2>5, ForgetTyped DEF TypeOK, StoredResult
<1>5. QED BY <1>3, <1>4 DEF Crash, PromptRefused, store

LEMMA TypedStep ==
  ASSUME Typed, [Next]_vars
  PROVE  Typed'
<1>1. CASE UNCHANGED vars
  BY <1>1 DEF vars, agent, gateway, store, Typed, TypeOK, CallsAsked, CallsLeft, HasResult
<1>2. CASE Next
  BY <1>2, TypedGateway, TypedAgent, TypedEnds DEF Next, Worker
<1>3. QED BY <1>1, <1>2

\* Every reachable state is well typed.
THEOREM TypeCorrect == Spec => []TypeOK
BY TypedInit, TypedStep, PTL DEF Spec, Typed

\* A gateway step leaves a call on its thread, and the other threads alone.
LEMMA GatewayCall ==
  ASSUME Typed, NEW t \in Thread, GatewayStep(t)
  PROVE  \E c \in Call : thread' = [thread EXCEPT ![t] = c]
<1>1. thread[t] \in Call
  BY DEF GatewayStep, NextQuery, Return, Refuse, Admit, Charge, Execute, Number, Record,
         Persisted, Raise, Move, At, Typed, TypeOK
<1>2. ASSUME NEW from \in Position, NEW to \in Position, Move(t, from, to)
      PROVE  \E c \in Call : thread' = [thread EXCEPT ![t] = c]
  BY <1>1, <1>2, CallTyped DEF Move
<1>3. CASE Return(t) \/ Refuse(t) \/ Admit(t) \/ Charge(t) \/ Record(t) \/ Raise(t)
  BY <1>2, <1>3 DEF Return, Refuse, Admit, Charge, Record, Raise, Position
<1>4. CASE NextQuery(t)
  <2>1. PICK q \in thread[t].rest :
          thread' = [thread EXCEPT ![t] =
                      [thread[t] EXCEPT !.at = "check", !.query = q, !.rest = @ \ {q}]]
    BY <1>4 DEF NextQuery
  <2>2. q \in Query
    BY <1>1 DEF Call
  <2>3. QED BY <1>1, <2>1, <2>2, CallTyped DEF Position
<1>5. CASE Execute(t)
  <2>1. thread' = [thread EXCEPT ![t] = [thread[t] EXCEPT !.at = "number", !.executed = TRUE]]
    BY <1>5 DEF Execute
  <2>2. [thread[t] EXCEPT !.at = "number", !.executed = TRUE] \in Call
    BY <1>1, CallTyped DEF Position
  <2>3. QED BY <2>1, <2>2
<1>6. CASE Number(t)
  <2>1. Len(trail) + 1 \in Nat
    BY DEF Typed, TypeOK
  <2>2. [thread[t] EXCEPT !.at = "append", !.seq = Len(trail) + 1] \in Call
    BY <1>1, <2>1, CallTyped DEF Position
  <2>3. QED BY <1>6, <2>2 DEF Number
<1>7. CASE Persisted(t)
  <2>1. [thread[t] EXCEPT !.at = "next", !.executed = FALSE] \in Call
    BY <1>1, CallTyped DEF Position
  <2>2. QED BY <1>7, <2>1 DEF Persisted
<1>8. QED BY <1>3, <1>4, <1>5, <1>6, <1>7 DEF GatewayStep

-----------------------------------------------------------------------------
(* One caller: after a timeout the agent makes no further call, so a run's *)
(* gateway never has two threads in it.                                    *)

OneCall ==
  /\ \A t, u \in Thread : thread[t] # None /\ thread[u] # None => t = u
  /\ call = None /\ phase # "done" => \A t \in Thread : thread[t] = None
  /\ call # None => phase \in {"opening", "tools"} /\ thread[call] # None
  /\ phase = "opening" => call # None

LEMMA OneCallInit ==
  ASSUME Init
  PROVE  OneCall
BY DEF Init, OneCall

LEMMA OneCallStep ==
  ASSUME Typed, OneCall, [Next]_vars
  PROVE  OneCall'
<1> USE DEF Typed
<1>1. CASE UNCHANGED vars
  BY <1>1 DEF vars, agent, OneCall
<1>2. ASSUME NEW t \in Thread, GatewayStep(t) PROVE OneCall'
  <2>1. UNCHANGED <<phase, call>>
    BY <1>2 DEF GatewayStep, NextQuery, Return, Refuse, Admit, Charge, Execute, Number,
                Record, Persisted, Raise, agent
  <2>2. /\ thread[t] # None
        /\ \E c \in Call : thread' = [thread EXCEPT ![t] = c]
    <3>1. thread[t] # None
      BY <1>2 DEF GatewayStep, NextQuery, Return, Refuse, Admit, Charge, Execute, Number,
                  Record, Persisted, Raise, Move, At
    <3>2. QED BY <1>2, <3>1, GatewayCall
  <2>3. \A u \in Thread : thread'[u] # None <=> thread[u] # None
    BY <2>2, AgentAssumption DEF TypeOK
  <2>4. QED BY <2>1, <2>3 DEF OneCall, TypeOK
<1>3. ASSUME NEW t \in Thread, StartRun(t) PROVE OneCall'
  <2>1. NewCall(None, Opening, TRUE, "next") # None
    BY NewCallTyped, AgentAssumption DEF Position
  <2>2. \A u \in Thread : thread'[u] # None <=> u = t
    BY <1>3, <2>1 DEF StartRun, OneCall, TypeOK, Phase
  <2>3. phase' = "opening" /\ call' = t /\ t # None
    BY <1>3, AgentAssumption DEF StartRun
  <2>4. QED BY <2>2, <2>3 DEF OneCall
<1>4. ASSUME NEW t \in Thread, NEW q \in Query, CallTool(t, q) PROVE OneCall'
  <2>1. NewCall(q, {}, FALSE, "check") # None
    BY NewCallTyped, AgentAssumption DEF Position
  <2>2. t # None
    BY AgentAssumption
  <2>3. QED BY <1>4, <2>1, <2>2 DEF CallTool, OneCall, TypeOK
<1>5. CASE OpeningDone \/ ToolReturned
  BY <1>5 DEF OpeningDone, ToolReturned, NextCall, AfterTurn, Returned, OneCall, TypeOK
<1>6. CASE Unavailable \/ TimedOut \/ (\E cites \in SUBSET Query : Accept(cites))
  BY <1>6 DEF Unavailable, TimedOut, Accept, Degrade, End, OneCall
<1>7. CASE DeadlinePasses \/ ModelStops \/ Reject \/ (\E n \in 1..MaxCalls : ModelCalls(n))
  BY <1>7 DEF DeadlinePasses, ModelStops, Reject, ModelCalls, OneCall
<1>8. CASE Persist \/ Crash \/ PromptRefused
  BY <1>8 DEF Persist, Crash, PromptRefused, Forget, OneCall
<1>9. QED
  BY <1>1, <1>2, <1>3, <1>4, <1>5, <1>6, <1>7, <1>8 DEF Next, Worker, Model

-----------------------------------------------------------------------------
(* The budget: what has been charged covers what has been recorded and what *)
(* is under way. A charge is admitted by an earlier step, so it needs that  *)
(* nobody else is charged in between: one caller.                           *)

Counts(e) == e.executed /\ ~e.opening

LEMMA FurtherFinite ==
  ASSUME NEW s \in Seq(Entry)
  PROVE  IsFiniteSet(Further(s)) /\ Cardinality(Further(s)) \in Nat
<1>1. Further(s) \subseteq 1..Len(s)
  BY DEF Further
<1>2. IsFiniteSet(1..Len(s))
  BY FS_Interval
<1>3. QED BY <1>1, <1>2, FS_Subset, FS_CardinalityType

LEMMA FurtherAppend ==
  ASSUME NEW s \in Seq(Entry), NEW e \in Entry
  PROVE  Cardinality(Further(Append(s, e))) =
           IF Counts(e) THEN Cardinality(Further(s)) + 1 ELSE Cardinality(Further(s))
<1> DEFINE n == Len(s) + 1
<1>1. /\ n \notin Further(s)
      /\ Further(Append(s, e)) = IF Counts(e) THEN Further(s) \cup {n} ELSE Further(s)
  BY DEF Further, Counts
<1>2. Cardinality(Further(s) \cup {n}) = Cardinality(Further(s)) + 1
  BY <1>1, FurtherFinite, FS_AddElement
<1>3. QED BY <1>1, <1>2

\* A further call that has been charged and is not in the trail yet.
Charged(c) == ~c.opening /\ (c.at = "execute" \/ (c.at \in {"number", "append"} /\ c.executed))
Unrecorded == \E t \in Thread : thread[t] # None /\ Charged(thread[t])

BudgetInv ==
  /\ spent <= QueryBudget
  /\ Cardinality(Further(trail)) + (IF Unrecorded THEN 1 ELSE 0) <= spent
  /\ \A t \in Thread : thread[t] # None =>
       /\ thread[t].at = "count" /\ ~thread[t].opening => spent < QueryBudget
       /\ thread[t].at \in {"next", "check", "count", "execute"} => ~thread[t].executed

LEMMA BudgetFresh ==
  ASSUME spent = 0, trail = <<>>, thread = [t \in Thread |-> None]
  PROVE  BudgetInv
<1>1. Further(trail) = {}
  BY DEF Further
<1>2. Cardinality(Further(trail)) = 0
  BY <1>1, FS_EmptySet
<1>3. QED BY <1>2, AgentAssumption DEF BudgetInv, Unrecorded

\* A step that charges and records nothing.
LEMMA BudgetQuiet ==
  ASSUME Typed, BudgetInv, UNCHANGED gateway,
         \A t \in Thread : thread'[t] # None =>
           \/ thread'[t] = thread[t]
           \/ /\ ~Charged(thread'[t]) \/ (thread[t] # None /\ Charged(thread[t]))
              /\ thread'[t].at # "count" \/ thread'[t].opening \/ spent < QueryBudget
              /\ thread'[t].at \in {"next", "check", "count", "execute"} => ~thread'[t].executed
  PROVE  BudgetInv'
<1>1. Unrecorded' => Unrecorded
  BY DEF Unrecorded
<1>2. Cardinality(Further(trail)) \in Nat
  BY FurtherFinite DEF Typed, TypeOK
<1>3. Cardinality(Further(trail))' + (IF Unrecorded' THEN 1 ELSE 0) <= spent'
  BY <1>1, <1>2 DEF BudgetInv, gateway, Typed, TypeOK
<1>4. QED BY <1>3 DEF BudgetInv, gateway

LEMMA BudgetGateway ==
  ASSUME Typed, OneCall, BudgetInv, NEW t \in Thread, GatewayStep(t)
  PROVE  BudgetInv'
<1> USE DEF Typed
<1>1. thread[t] \in Call /\ thread[t] # None
  BY DEF GatewayStep, NextQuery, Return, Refuse, Admit, Charge, Execute, Number, Record,
         Persisted, Raise, Move, At, TypeOK
<1>2. \A u \in Thread : thread[u] # None => u = t
  BY <1>1 DEF OneCall
<1>3. Unrecorded <=> Charged(thread[t])
  BY <1>1, <1>2 DEF Unrecorded
<1>4. CASE NextQuery(t) \/ Return(t) \/ Refuse(t) \/ Admit(t) \/ Execute(t) \/ Number(t)
           \/ Persisted(t) \/ Raise(t)
  <2>1. UNCHANGED gateway /\ \A u \in Thread \ {t} : thread'[u] = thread[u]
    BY <1>4 DEF NextQuery, Return, Refuse, Admit, Execute, Number, Persisted, Raise, Move, TypeOK
  <2>2. /\ ~Charged(thread'[t]) \/ Charged(thread[t])
        /\ thread'[t].at # "count" \/ thread'[t].opening \/ spent < QueryBudget
        /\ thread'[t].at \in {"next", "check", "count", "execute"} => ~thread'[t].executed
    <3>1. thread[t].at \in {"next", "check", "count", "execute"} => ~thread[t].executed
      BY <1>1 DEF BudgetInv
    <3>2. CASE NextQuery(t)
      BY <1>1, <3>1, <3>2 DEF NextQuery, At, Charged, TypeOK, Call
    <3>3. CASE Return(t) \/ Raise(t)
      BY <1>1, <3>3 DEF Return, Raise, Move, At, Charged, TypeOK, Call
    <3>4. CASE Refuse(t)
      BY <1>1, <3>1, <3>4 DEF Refuse, Move, At, Charged, TypeOK, Call
    <3>5. CASE Admit(t)
      BY <1>1, <3>1, <3>5 DEF Admit, Admitted, Move, At, Charged, TypeOK, Call
    <3>6. CASE Execute(t)
      BY <1>1, <3>6 DEF Execute, At, Charged, TypeOK, Call
    <3>7. CASE Number(t)
      BY <1>1, <3>7 DEF Number, At, Charged, TypeOK, Call
    <3>8. CASE Persisted(t)
      BY <1>1, <3>8 DEF Persisted, At, Charged, TypeOK, Call
    <3>9. QED BY <1>4, <3>2, <3>3, <3>4, <3>5, <3>6, <3>7, <3>8
  <2>3. QED BY <1>1, <2>1, <2>2, BudgetQuiet
<1>5. CASE Charge(t)
  <2>1. /\ thread[t].at = "count" /\ ~thread[t].executed
        /\ thread' = [thread EXCEPT ![t].at = "execute"]
        /\ spent' = (IF thread[t].opening THEN spent ELSE spent + 1) /\ trail' = trail
    BY <1>1, <1>5 DEF Charge, Move, At, BudgetInv
  <2>2. thread'[t].at = "execute" /\ ~thread'[t].executed /\ thread'[t].opening = thread[t].opening
    BY <1>1, <2>1 DEF TypeOK, Call
  <2>3. \A u \in Thread : thread'[u] # None => u = t
    BY <1>2, <2>1 DEF TypeOK
  <2>4. ~Unrecorded
    BY <1>3, <2>1 DEF Charged
  <2>5. Unrecorded' => ~thread[t].opening
    BY <2>2, <2>3 DEF Unrecorded, Charged
  <2>6. spent' <= QueryBudget
    BY <1>1, <2>1, AgentAssumption DEF BudgetInv, TypeOK
  <2>7. Cardinality(Further(trail)) \in Nat
    BY FurtherFinite DEF TypeOK
  <2>8. Cardinality(Further(trail))' + (IF Unrecorded' THEN 1 ELSE 0) <= spent'
    BY <1>1, <2>1, <2>4, <2>5, <2>7 DEF BudgetInv, TypeOK, Call
  <2>9. QED BY <2>2, <2>3, <2>6, <2>8 DEF BudgetInv
<1>6. CASE Record(t)
  <2>1. /\ thread[t].at = "append" /\ spent' = spent
        /\ thread' = [thread EXCEPT ![t].at = "live"]
        /\ trail' = Append(trail, Recorded(thread[t]))
    BY <1>6 DEF Record, Move, At
  <2>2. thread'[t].at = "live"
    BY <1>1, <2>1 DEF TypeOK, Call
  <2>3. \A u \in Thread : thread'[u] # None => u = t
    BY <1>2, <2>1 DEF TypeOK
  <2>4. ~Unrecorded'
    BY <2>2, <2>3 DEF Unrecorded, Charged
  <2>5. Recorded(thread[t]) \in Entry /\ (Counts(Recorded(thread[t])) <=> Charged(thread[t]))
    BY <1>1, <2>1 DEF Recorded, Entry, Counts, Charged, Call, CallsAsked, Asked
  <2>6. Cardinality(Further(trail')) =
          IF Unrecorded THEN Cardinality(Further(trail)) + 1 ELSE Cardinality(Further(trail))
    BY <1>3, <2>1, <2>5, FurtherAppend DEF TypeOK
  <2>7. Cardinality(Further(trail)) \in Nat
    BY FurtherFinite DEF TypeOK
  <2>8. Cardinality(Further(trail')) <= spent
    BY <2>6, <2>7 DEF BudgetInv, TypeOK
  <2>9. Cardinality(Further(trail))' + (IF Unrecorded' THEN 1 ELSE 0) <= spent'
    BY <2>1, <2>4, <2>6, <2>7, <2>8
  <2>10. QED BY <2>1, <2>2, <2>3, <2>9 DEF BudgetInv
<1>7. QED BY <1>4, <1>5, <1>6 DEF GatewayStep

LEMMA BudgetStep ==
  ASSUME Typed, OneCall, BudgetInv, [Next]_vars
  PROVE  BudgetInv'
<1> USE DEF Typed
<1>1. CASE UNCHANGED vars
  BY <1>1, BudgetQuiet DEF vars
<1>2. ASSUME NEW t \in Thread, GatewayStep(t) PROVE BudgetInv'
  BY <1>2, BudgetGateway
<1>3. ASSUME NEW t \in Thread, StartRun(t) PROVE BudgetInv'
  BY <1>3, BudgetQuiet DEF StartRun, NewCall, Charged, TypeOK
<1>4. ASSUME NEW t \in Thread, NEW q \in Query, CallTool(t, q) PROVE BudgetInv'
  BY <1>4, BudgetQuiet DEF CallTool, NewCall, Charged, TypeOK
<1>5. CASE OpeningDone \/ ToolReturned
  BY <1>5, BudgetQuiet DEF OpeningDone, ToolReturned, TypeOK
<1>6. CASE Unavailable \/ TimedOut \/ DeadlinePasses \/ Model
  BY <1>6, BudgetQuiet DEF Unavailable, TimedOut, Degrade, End, DeadlinePasses, Model,
                           ModelCalls, ModelStops, Accept, Reject
<1>7. CASE Persist \/ Crash \/ PromptRefused
  <2>1. spent' = 0 /\ trail' = <<>> /\ thread' = [t \in Thread |-> None]
    BY <1>7 DEF Persist, Crash, PromptRefused, Forget
  <2>2. Further(trail') = {}
    BY <2>1 DEF Further
  <2>3. Cardinality(Further(trail')) = 0
    BY <2>2, FS_EmptySet
  <2>4. QED BY <2>1, <2>3, AgentAssumption DEF BudgetInv, Unrecorded
<1>8. QED BY <1>1, <1>2, <1>3, <1>4, <1>5, <1>6, <1>7 DEF Next, Worker

LEMMA Reachable == Spec => [](Typed /\ OneCall)
<1>1. Typed /\ OneCall /\ [Next]_vars => (Typed /\ OneCall)'
  BY TypedStep, OneCallStep
<1>2. QED BY <1>1, TypedInit, OneCallInit, PTL DEF Spec

\* No run executes more further queries than its budget, for any number of
\* turns, calls, timeouts and threads.
THEOREM BudgetIsKept == Spec => []BudgetKept
<1>1. Init => BudgetInv
  BY BudgetFresh DEF Init
<1>2. Typed /\ OneCall /\ BudgetInv /\ [Next]_vars => BudgetInv'
  BY BudgetStep
<1>3. Typed /\ BudgetInv => BudgetKept
  <2> SUFFICES ASSUME Typed, BudgetInv PROVE BudgetKept
    OBVIOUS
  <2>1. Cardinality(Further(trail)) \in Nat
    BY FurtherFinite DEF Typed, TypeOK
  <2>2. QED BY <2>1, AgentAssumption DEF BudgetInv, BudgetKept, Typed, TypeOK
<1>4. QED BY <1>1, <1>2, <1>3, Reachable, PTL DEF Spec

-----------------------------------------------------------------------------
(* The stored trail: a run's entries are numbered 1..n because its gateway *)
(* has one caller, and the table holds the trails of the results and       *)
(* nothing else, so storing the next one replaces no row.                  *)

LEMMA EntriesAppend ==
  ASSUME NEW s \in Seq(Entry), NEW e \in Entry
  PROVE  Entries(Append(s, e)) = Entries(s) \cup {e}
<1>1. /\ DOMAIN Append(s, e) = DOMAIN s \cup {Len(s) + 1}
      /\ Append(s, e)[Len(s) + 1] = e
      /\ \A i \in DOMAIN s : Append(s, e)[i] = s[i] /\ i # Len(s) + 1
  OBVIOUS
<1>2. QED BY <1>1 DEF Entries

TrailInv ==
  /\ \A i \in DOMAIN trail : trail[i].seq = i
  /\ \A t \in Thread : thread[t] # None /\ thread[t].at = "append" => thread[t].seq = Len(trail) + 1
  /\ \A r \in table : r.version \in DOMAIN results
  /\ StoredTrailIsRuns

\* A step that neither records nor stores, and readies no call for its append.
LEMMA TrailQuiet ==
  ASSUME TrailInv, UNCHANGED <<trail, results, table>>,
         \A t \in Thread : thread'[t] # None /\ thread'[t].at = "append" => thread'[t] = thread[t]
  PROVE  TrailInv'
BY DEF TrailInv, StoredTrailIsRuns, RowsOf, Rows

LEMMA TrailGateway ==
  ASSUME Typed, OneCall, TrailInv, NEW t \in Thread, GatewayStep(t)
  PROVE  TrailInv'
<1> USE DEF Typed
<1>1. thread[t] \in Call /\ thread[t] # None
  BY DEF GatewayStep, NextQuery, Return, Refuse, Admit, Charge, Execute, Number, Record,
         Persisted, Raise, Move, At, TypeOK
<1>2. CASE NextQuery(t) \/ Return(t) \/ Refuse(t) \/ Admit(t) \/ Charge(t) \/ Execute(t)
           \/ Persisted(t) \/ Raise(t)
  <2>1. UNCHANGED <<trail, results, table>> /\ \A u \in Thread \ {t} : thread'[u] = thread[u]
    BY <1>2 DEF NextQuery, Return, Refuse, Admit, Charge, Execute, Persisted, LiveWrite, Raise,
                Move, TypeOK, gateway, store
  <2>2. thread'[t].at # "append"
    <3>1. CASE NextQuery(t)
      BY <1>1, <3>1 DEF NextQuery, TypeOK, Call
    <3>2. CASE Execute(t) \/ Persisted(t)
      BY <1>1, <3>2 DEF Execute, Persisted, TypeOK, Call
    <3>3. CASE Return(t) \/ Refuse(t) \/ Admit(t) \/ Charge(t) \/ Raise(t)
      <4>1. PICK p \in Position : p # "append" /\ thread' = [thread EXCEPT ![t].at = p]
        BY <3>3 DEF Return, Refuse, Admit, Charge, Raise, Move, Position
      <4>2. QED BY <1>1, <4>1 DEF TypeOK, Call
    <3>4. QED BY <1>2, <3>1, <3>2, <3>3
  <2>3. QED BY <2>1, <2>2, TrailQuiet
<1>3. CASE Number(t)
  <2>1. /\ UNCHANGED <<trail, results, table>>
        /\ \A u \in Thread \ {t} : thread'[u] = thread[u]
        /\ thread'[t].seq = Len(trail) + 1
    BY <1>1, <1>3 DEF Number, TypeOK, gateway, store, Call
  <2>2. QED BY <2>1 DEF TrailInv, StoredTrailIsRuns, RowsOf, Rows
<1>4. CASE Record(t)
  <2>1. /\ thread[t].at = "append" /\ UNCHANGED <<results, table>>
        /\ thread' = [thread EXCEPT ![t].at = "live"]
        /\ trail' = Append(trail, Recorded(thread[t]))
    BY <1>4 DEF Record, Move, At, store
  <2>2. thread'[t].at = "live" /\ Recorded(thread[t]).seq = Len(trail) + 1
    BY <1>1, <2>1 DEF TrailInv, Recorded, TypeOK, Call
  <2>3. \A u \in Thread : thread'[u] # None => u = t
    BY <1>1, <2>1 DEF OneCall, TypeOK
  <2>4. Recorded(thread[t]) \in Entry
    BY <1>1, <2>1 DEF Recorded, Entry, Call, CallsAsked, Asked
  <2>5. \A i \in DOMAIN trail' : trail'[i].seq = i
    BY <2>1, <2>2, <2>4 DEF TrailInv, TypeOK
  <2>6. QED BY <2>1, <2>2, <2>3, <2>5 DEF TrailInv, StoredTrailIsRuns, RowsOf, Rows
<1>5. QED BY <1>2, <1>3, <1>4 DEF GatewayStep

LEMMA TrailPersist ==
  ASSUME Typed, TrailInv, Persist
  PROVE  TrailInv'
<1> USE DEF Typed
<1> PICK n \in Nat : n = Len(results) + 1
  BY DEF TypeOK
<1> DEFINE r == [outcome |-> result.outcome, cites |-> result.cites, trail |-> trail]
<1>1. results' = Append(results, r) /\ table' = Upsert(table, Rows(n, trail))
  BY DEF Persist, Version
<1>2. /\ DOMAIN results' = DOMAIN results \cup {n} /\ n \notin DOMAIN results
      /\ results'[n].trail = trail
      /\ \A v \in DOMAIN results : results'[v] = results[v]
  BY <1>1 DEF TypeOK
<1>3. \A row \in Rows(n, trail) : row.version = n
  BY DEF Rows
<1>4. \A row \in table : row.version # n
  BY <1>2 DEF TrailInv
<1>5. table' = table \cup Rows(n, trail)
  BY <1>1, <1>3, <1>4 DEF Upsert
<1>6. \A row \in table' : row.version \in DOMAIN results'
  BY <1>2, <1>3, <1>5 DEF TrailInv
<1>7. RowsOf(n)' = Rows(n, trail)
  BY <1>3, <1>4, <1>5 DEF RowsOf
<1>8. \A v \in DOMAIN results : RowsOf(v)' = RowsOf(v)
  BY <1>2, <1>3, <1>5 DEF RowsOf
<1>9. StoredTrailIsRuns'
  <2> SUFFICES ASSUME NEW v \in DOMAIN results'
               PROVE  /\ RowsOf(v)' = Rows(v, results'[v].trail)
                      /\ \A i \in DOMAIN results'[v].trail : results'[v].trail[i].seq = i
    BY DEF StoredTrailIsRuns, Rows, Entries
  <2>1. CASE v = n
    BY <1>2, <1>7, <2>1 DEF TrailInv
  <2>2. CASE v \in DOMAIN results
    BY <1>2, <1>8, <2>2 DEF TrailInv, StoredTrailIsRuns
  <2>3. QED BY <1>2, <2>1, <2>2
<1>10. trail' = <<>> /\ thread' = [t \in Thread |-> None]
  BY DEF Persist, Forget
<1>11. QED BY <1>6, <1>9, <1>10 DEF TrailInv

LEMMA TrailStep ==
  ASSUME Typed, OneCall, TrailInv, [Next]_vars
  PROVE  TrailInv'
<1> USE DEF Typed
<1>1. CASE UNCHANGED vars
  BY <1>1, TrailQuiet DEF vars, gateway, store
<1>2. ASSUME NEW t \in Thread, GatewayStep(t) PROVE TrailInv'
  BY <1>2, TrailGateway
<1>3. ASSUME NEW t \in Thread, StartRun(t) PROVE TrailInv'
  BY <1>3, TrailQuiet DEF StartRun, NewCall, TypeOK, gateway, store
<1>4. ASSUME NEW t \in Thread, NEW q \in Query, CallTool(t, q) PROVE TrailInv'
  BY <1>4, TrailQuiet DEF CallTool, NewCall, TypeOK, gateway, store
<1>5. CASE OpeningDone \/ ToolReturned
  BY <1>5, TrailQuiet DEF OpeningDone, ToolReturned, TypeOK, gateway, store
<1>6. CASE Unavailable \/ TimedOut \/ DeadlinePasses \/ Model
  BY <1>6, TrailQuiet DEF Unavailable, TimedOut, Degrade, End, DeadlinePasses, Model,
                          ModelCalls, ModelStops, Accept, Reject, gateway, store
<1>7. CASE Crash \/ PromptRefused
  <2>1. trail' = <<>> /\ thread' = [t \in Thread |-> None] /\ UNCHANGED <<results, table>>
    BY <1>7 DEF Crash, PromptRefused, Forget, store
  <2>2. QED BY <2>1 DEF TrailInv, StoredTrailIsRuns, RowsOf, Rows
<1>8. QED
  BY <1>1, <1>2, <1>3, <1>4, <1>5, <1>6, <1>7, TrailPersist DEF Next, Worker

LEMMA TrailReachable == Spec => []TrailInv
<1>1. Init => TrailInv
  BY DEF Init, TrailInv, StoredTrailIsRuns
<1>2. QED BY <1>1, Reachable, TrailStep, PTL DEF Spec

\* The trail stored with a result is whole, and that of the run that wrote it.
THEOREM StoredTrailCorrect == Spec => []StoredTrailIsRuns
BY TrailReachable, PTL DEF TrailInv

-----------------------------------------------------------------------------
(* Citations: a trail only grows while its run lasts. *)

Supported(cites, outcome, entries) ==
  \A q \in cites : \E e \in Entries(entries) :
    e.query = q /\ (outcome = "answered" => e.executed)

CiteInv ==
  /\ phase = "done" => Supported(result.cites, result.outcome, trail)
  /\ \A v \in DOMAIN results :
       Supported(results[v].cites, results[v].outcome, results[v].trail)

LEMMA CiteStep ==
  ASSUME Typed, CiteInv, [Next]_vars
  PROVE  CiteInv'
<1> USE DEF Typed
<1>1. CASE UNCHANGED <<phase, result, trail, results>>
  BY <1>1 DEF CiteInv, Supported
<1>2. CASE UNCHANGED <<trail, results>> /\ phase' # "done"
  BY <1>2 DEF CiteInv, Supported
<1>3. ASSUME NEW t \in Thread, Record(t) PROVE CiteInv'
  <2>1. thread[t] \in Call /\ thread[t].at = "append"
    BY <1>3 DEF Record, Move, At, TypeOK
  <2>2. Recorded(thread[t]) \in Entry
    BY <2>1, <1>3 DEF Recorded, Entry, Call, CallsAsked, Asked, Record, Move, At
  <2>3. Entries(trail) \subseteq Entries(trail')
    BY <1>3, <2>2, EntriesAppend DEF Record, TypeOK
  <2>4. UNCHANGED <<phase, result, results>>
    BY <1>3 DEF Record, agent, store
  <2>5. QED BY <2>3, <2>4 DEF CiteInv, Supported
<1>4. ASSUME NEW cites \in SUBSET Query, Accept(cites) PROVE CiteInv'
  BY <1>4 DEF Accept, End, CiteInv, Supported, VerifyCitation, gateway, store
<1>5. CASE Unavailable \/ TimedOut
  BY <1>5 DEF Unavailable, TimedOut, Degrade, End, References, CiteInv, Supported, gateway, store
<1>6. CASE Persist
  <2> DEFINE n == Len(results) + 1
             r == [outcome |-> result.outcome, cites |-> result.cites, trail |-> trail]
  <2>1. results' = Append(results, r) /\ phase' = "idle" /\ phase = "done"
    BY <1>6 DEF Persist, Forget
  <2>2. /\ DOMAIN results' = DOMAIN results \cup {n}
        /\ results'[n] = r /\ \A v \in DOMAIN results : results'[v] = results[v]
    BY <2>1 DEF TypeOK
  <2>3. Supported(r.cites, r.outcome, r.trail)
    BY <2>1 DEF CiteInv
  <2> HIDE DEF r
  <2>4. QED BY <2>1, <2>2, <2>3 DEF CiteInv, Supported
<1>7. CASE Crash \/ PromptRefused
  BY <1>7 DEF Crash, PromptRefused, Forget, CiteInv, Supported, store
<1>8. ASSUME NEW t \in Thread, GatewayStep(t), ~Record(t) PROVE CiteInv'
  BY <1>1, <1>8 DEF GatewayStep, NextQuery, Return, Refuse, Admit, Charge, Execute, Number,
                    Persisted, Raise, agent, gateway, store
<1>9. CASE \/ \E t \in Thread : StartRun(t)
           \/ \E t \in Thread, q \in Query : CallTool(t, q)
           \/ OpeningDone \/ ToolReturned \/ ModelStops \/ Reject \/ DeadlinePasses
           \/ \E n \in 1..MaxCalls : ModelCalls(n)
  BY <1>2, <1>9 DEF StartRun, CallTool, OpeningDone, ToolReturned, NextCall, AfterTurn,
                    ModelStops, Reject, DeadlinePasses, ModelCalls, gateway, store
<1>10. CASE UNCHANGED vars
  BY <1>1, <1>10 DEF vars, agent, gateway, store
<1>11. QED
  BY <1>3, <1>4, <1>5, <1>6, <1>7, <1>8, <1>9, <1>10 DEF Next, Worker, Model

\* Every citation of a stored result is in its stored trail, and an answer
\* cites only what was executed.
THEOREM CitationsAreStored == Spec => []CitationsHold
<1>1. Init => CiteInv
  BY DEF Init, CiteInv
<1>2. TrailInv /\ CiteInv => CitationsHold
  <2> SUFFICES ASSUME TrailInv, CiteInv, NEW v \in DOMAIN results, NEW q \in results[v].cites
               PROVE  \E r \in RowsOf(v) :
                        r.entry.query = q /\ (results[v].outcome = "answered" => r.entry.executed)
    BY DEF CitationsHold
  <2>1. PICK e \in Entries(results[v].trail) :
          e.query = q /\ (results[v].outcome = "answered" => e.executed)
    BY DEF CiteInv, Supported
  <2>2. [version |-> v, entry |-> e] \in RowsOf(v)
    BY DEF TrailInv, StoredTrailIsRuns, Rows
  <2>3. QED BY <2>1, <2>2
<1>3. QED BY <1>1, <1>2, CiteStep, Reachable, TrailReachable, PTL DEF Spec

-----------------------------------------------------------------------------
(* Refinement: what readers are promised. A call's append is one query     *)
(* gathered, storing is the publication, a death abandons the run.         *)

\* The abstract specification counts with the same cardinality.
LEMMA SameCardinality == \A S : Audited!Cardinality(S) = Cardinality(S)
BY DEF Audited!Cardinality, Cardinality

\* Numbered entries are as many as their numbers.
LEMMA NumberedEntries ==
  ASSUME NEW s \in Seq(Entry), \A i \in DOMAIN s : s[i].seq = i, NEW I \in SUBSET (DOMAIN s)
  PROVE  Cardinality({s[i] : i \in I}) = Cardinality(I)
<1> DEFINE T == {s[i] : i \in I}
           f == [i \in I |-> s[i]]
<1>1. IsFiniteSet(I)
  <2>1. IsFiniteSet(1..Len(s))
    BY FS_Interval
  <2>2. QED BY <2>1, FS_Subset
<1>2. f \in [I -> T] /\ (\A y \in T : \E i \in I : f[i] = y)
  OBVIOUS
<1>3. \A i, j \in I : f[i] = f[j] => i = j
  OBVIOUS
<1>4. f \in Bijection(I, T)
  BY <1>2, <1>3 DEF Bijection, Injection, Surjection, IsInjective
<1>5. QED BY <1>1, <1>4, FS_Bijection DEF ExistsBijection

\* So a run's evidence is numbered by its size, and costs its further queries.
LEMMA EvidenceCount ==
  ASSUME NEW s \in Seq(Entry), \A i \in DOMAIN s : s[i].seq = i
  PROVE  /\ Cardinality(Entries(s)) = Len(s)
         /\ Audited!Cost(Entries(s)) = Cardinality(Further(s))
<1>1. Cardinality(Entries(s)) = Cardinality(DOMAIN s)
  BY NumberedEntries DEF Entries
<1>2. Cardinality(DOMAIN s) = Len(s)
  <2>1. PICK n \in Nat : n = Len(s) /\ DOMAIN s = 1..n
    OBVIOUS
  <2>2. Cardinality(1..n) = n
    BY FS_Interval
  <2>3. QED BY <2>1, <2>2
<1>3. {e \in Entries(s) : e.executed /\ ~e.opening} = {s[i] : i \in Further(s)}
  BY DEF Entries, Further
<1>4. Cardinality({s[i] : i \in Further(s)}) = Cardinality(Further(s))
  <2>1. Further(s) \in SUBSET (DOMAIN s)
    BY DEF Further
  <2> HIDE DEF Further
  <2>2. QED BY <2>1, NumberedEntries
<1>5. Audited!Cost(Entries(s)) = Cardinality({s[i] : i \in Further(s)})
  BY <1>3, SameCardinality DEF Audited!Cost
<1>6. QED BY <1>1, <1>2, <1>4, <1>5

\* The evidence that is read beside a result depends on the two tables only.
LEMMA ReadableQuiet ==
  ASSUME UNCHANGED store
  PROVE  UNCHANGED Readable
BY DEF store, Readable, RowsOf

\* A result is read with the evidence of its run, whole.
Stored == [v \in DOMAIN results |->
  [outcome |-> results[v].outcome, cites |-> results[v].cites,
   evidence |-> Entries(results[v].trail)]]

LEMMA ReadableIsStored == TrailInv => Readable = Stored
<1> SUFFICES ASSUME TrailInv PROVE Readable = Stored
  OBVIOUS
<1>1. ASSUME NEW v \in DOMAIN results
      PROVE  {r.entry : r \in RowsOf(v)} = Entries(results[v].trail)
  <2> DEFINE E == Entries(results[v].trail)
  <2>1. RowsOf(v) = {[version |-> v, entry |-> e] : e \in E}
    BY DEF TrailInv, StoredTrailIsRuns, Rows
  <2> HIDE DEF E
  <2>2. \A e \in E : [version |-> v, entry |-> e] \in RowsOf(v)
    BY <2>1
  <2>3. \A r \in RowsOf(v) : r.entry \in E
    BY <2>1
  <2>4. \A e \in E : \E r \in RowsOf(v) : r.entry = e
    BY <2>2
  <2>5. {r.entry : r \in RowsOf(v)} = E
    BY <2>3, <2>4
  <2>6. QED BY <2>5 DEF E
<1>2. QED BY <1>1, Zenon DEF Readable, Stored

LEMMA RecordGathers ==
  ASSUME Typed, OneCall, TrailInv, Typed', BudgetInv', TrailInv', NEW t \in Thread, Record(t)
  PROVE  Audited!Next
<1> USE DEF Typed
<1> DEFINE c == thread[t]
<1>1. c \in Call /\ c # None /\ c.at = "append" /\ trail' = Append(trail, Recorded(c))
  BY DEF Record, Move, At, TypeOK
<1>2. UNCHANGED <<phase, store>> /\ phase # "idle"
  BY <1>1 DEF Record, agent, OneCall
<1>3. Recorded(c) \in Entry /\ c.query \in Query /\ c.opening \in BOOLEAN /\ c.executed \in BOOLEAN
  BY <1>1 DEF Recorded, Entry, Call, CallsAsked, Asked
<1>4. Entries(trail') = Entries(trail) \cup {Recorded(c)}
  BY <1>1, <1>3, EntriesAppend DEF TypeOK
<1>5. c.seq = Cardinality(Entries(trail)) + 1
  <2>1. c.seq = Len(trail) + 1
    BY <1>1 DEF TrailInv
  <2>2. QED BY <2>1, EvidenceCount DEF TrailInv, TypeOK
<1>6. Audited!Cost(Entries(trail) \cup {Recorded(c)}) <= QueryBudget
  <2>1. Audited!Cost(Entries(trail')) = Cardinality(Further(trail'))
    BY EvidenceCount DEF TrailInv, TypeOK
  <2>2. Cardinality(Further(trail')) \in Nat /\ spent' \in Nat
    BY FurtherFinite DEF TypeOK
  <2>3. Cardinality(Further(trail')) <= spent' /\ spent' <= QueryBudget
    BY <2>2 DEF BudgetInv
  <2>4. QED BY <1>4, <2>1, <2>2, <2>3, AgentAssumption
<1>7. UNCHANGED Readable
  BY <1>2, ReadableQuiet
<1>8. Recorded(c) = [seq |-> Cardinality(Entries(trail)) + 1, query |-> c.query,
                     opening |-> c.opening, executed |-> c.executed]
  BY <1>5 DEF Recorded
<1>9. Audited!Gather(c.query, c.opening, c.executed)
  <2> HIDE DEF c
  <2>1. (phase # "idle")' = (phase # "idle") /\ phase # "idle"
    BY <1>2
  <2>2. Entries(trail)' = Entries(trail')
    BY DEF Entries
  <2> DEFINE e == [seq |-> Cardinality(Entries(trail)) + 1, query |-> c.query,
                   opening |-> c.opening, executed |-> c.executed]
  <2>3. Audited!Cost(Entries(trail) \cup {e}) <= QueryBudget
    BY <1>6, <1>8
  <2>4. Entries(trail)' = Entries(trail) \cup {e}
    BY <1>4, <1>8, <2>2
  <2>5. UNCHANGED <<phase # "idle", Readable>>
    BY <1>7, <2>1
  <2> HIDE DEF e
  <2>6. QED BY <2>1, <2>3, <2>4, <2>5, SameCardinality DEF e, Audited!Gather
<1>10. QED
  <2> HIDE DEF c
  <2>1. QED BY <1>3, <1>9 DEF Audited!Next

LEMMA PersistPublishes ==
  ASSUME Typed, TrailInv, CiteInv, TrailInv', Persist
  PROVE  Audited!Next
<1> USE DEF Typed
<1> PICK n \in Nat : n = Len(results) + 1
  BY DEF TypeOK
<1> DEFINE r == [outcome |-> result.outcome, cites |-> result.cites, trail |-> trail]
           p == [outcome |-> result.outcome, cites |-> result.cites, evidence |-> Entries(trail)]
<1>1. phase = "done" /\ phase' = "idle" /\ trail' = <<>> /\ results' = Append(results, r)
  BY DEF Persist, Forget
<1>2. result \in Result
  BY <1>1 DEF HasResult
<1>3. \A q \in result.cites : \E e \in Entries(trail) :
        e.query = q /\ (result.outcome = "answered" => e.executed)
  BY <1>1 DEF CiteInv, Supported
<1>4. /\ DOMAIN results = 1..(n - 1) /\ DOMAIN results' = 1..n
      /\ results'[n] = r /\ \A v \in 1..(n - 1) : results'[v] = results[v]
  BY <1>1 DEF TypeOK
<1>7. r.trail = trail /\ r.outcome = result.outcome /\ r.cites = result.cites
  OBVIOUS
<1>8. Readable' = Append(Readable, p)
  <2> HIDE DEF r
  <2>1. Readable = [v \in 1..(n - 1) |-> [outcome |-> results[v].outcome, cites |-> results[v].cites,
                                          evidence |-> Entries(results[v].trail)]]
    BY <1>4, ReadableIsStored DEF Stored
  <2>2. Readable' = [v \in 1..n |-> [outcome |-> results'[v].outcome, cites |-> results'[v].cites,
                                     evidence |-> Entries(results'[v].trail)]]
    <3>1. (Readable = Stored)'
      BY ReadableIsStored, PTL
    <3>2. QED BY <1>4, <3>1 DEF Stored, Entries
  <2>3. Readable' = [v \in 1..n |-> IF v = n THEN p ELSE Readable[v]]
    BY <1>4, <1>7, <2>1, <2>2
  <2> DEFINE X == {Readable[v] : v \in 1..(n - 1)} \cup {p}
  <2>4. Readable \in [1..(n - 1) -> X]
    BY <2>1
  <2> HIDE DEF p, X
  <2>5. Readable \in Seq(X) /\ Len(Readable) = n - 1 /\ p \in X
    <3>1. p \in X
      BY DEF X
    <3>2. QED BY <2>4, <3>1
  <2> DEFINE A == Append(Readable, p)
  <2>6. /\ A \in Seq(X) /\ Len(A) = n /\ A[n] = p
        /\ \A v \in 1..(n - 1) : A[v] = Readable[v]
    BY <2>5
  <2>7. Readable' \in Seq(X) /\ Len(Readable') = n
    <3>1. \A v \in 1..n : (IF v = n THEN p ELSE Readable[v]) \in X
      BY <2>4, <2>5
    <3>2. Readable' \in [1..n -> X]
      BY <2>3, <3>1
    <3>3. QED BY <3>2
  <2>8. \A v \in 1..Len(A) : A[v] = Readable'[v]
    BY <2>3, <2>6
  <2> HIDE DEF A
  <2>9. A = Readable'
    BY <2>6, <2>7, <2>8, SeqEqual
  <2>10. QED BY <2>9 DEF A
<1>9. Entries(trail)' = {}
  BY <1>1 DEF Entries
<1>10. Audited!Publish(result.outcome, result.cites)
  BY <1>1, <1>3, <1>8, <1>9 DEF Audited!Publish
<1>11. QED BY <1>2, <1>10 DEF Audited!Next, Result

\* A dead run, or one whose prompt is refused, is abandoned.
LEMMA ForgetAbandons ==
  ASSUME Crash \/ PromptRefused
  PROVE  Audited!Next
<1>1. phase # "idle" /\ phase' = "idle" /\ trail' = <<>> /\ UNCHANGED store
  BY DEF Crash, PromptRefused, Forget
<1>2. Entries(trail)' = {} /\ UNCHANGED Readable
  BY <1>1, ReadableQuiet DEF Entries
<1>3. QED BY <1>1, <1>2 DEF Audited!Next, Audited!Abandon

\* The steps in between are invisible to readers.
LEMMA QuietStep ==
  ASSUME UNCHANGED <<trail, store>>, (phase = "idle") <=> (phase' = "idle")
  PROVE  UNCHANGED Audited!vars
<1>1. Entries(trail)' = Entries(trail)
  BY DEF Entries
<1>2. QED BY <1>1, ReadableQuiet DEF Audited!vars

\* The agent implements what readers are promised: each of its steps gathers a
\* query, publishes a result, begins or abandons a run, or is none of theirs.
THEOREM Implements == Spec => ResultsAreAudited
<1>1. Init => Audited!Init
  BY DEF Init, Audited!Init, Entries, Readable
<1> DEFINE Inv == Typed /\ OneCall /\ BudgetInv /\ TrailInv /\ CiteInv
<1>2. Inv /\ Inv' /\ [Next]_vars => [Audited!Next]_(Audited!vars)
  <2> SUFFICES ASSUME Inv, Inv', [Next]_vars PROVE [Audited!Next]_(Audited!vars)
    OBVIOUS
  <2>1. ASSUME NEW t \in Thread, GatewayStep(t) PROVE [Audited!Next]_(Audited!vars)
    <3>1. CASE Record(t)
      BY <3>1, RecordGathers
    <3>2. CASE ~Record(t)
      <4>1. UNCHANGED <<phase, trail, store>>
        BY <2>1, <3>2 DEF GatewayStep, NextQuery, Return, Refuse, Admit, Charge, Execute, Number,
                          Persisted, LiveWrite, Raise, agent, gateway, store
      <4>2. QED BY <4>1, QuietStep
    <3>3. QED BY <3>1, <3>2
  <2>2. ASSUME NEW t \in Thread, StartRun(t) PROVE [Audited!Next]_(Audited!vars)
    <3>1. phase = "idle" /\ phase' = "opening" /\ UNCHANGED <<trail, store>>
      BY <2>2 DEF StartRun, gateway
    <3>2. Entries(trail)' = Entries(trail) /\ UNCHANGED Readable
      BY <3>1, ReadableQuiet DEF Entries
    <3>3. QED BY <3>1, <3>2 DEF Audited!Next, Audited!Begin
  <2>3. CASE Persist
    BY <2>3, PersistPublishes
  <2>4. CASE Crash \/ PromptRefused
    BY <2>4, ForgetAbandons
  <2>5. CASE \/ OpeningDone \/ ToolReturned \/ Unavailable \/ TimedOut \/ Model \/ DeadlinePasses
             \/ \E t \in Thread, q \in Query : CallTool(t, q)
    <3>1. UNCHANGED <<trail, store>> /\ phase # "idle" /\ phase' # "idle"
      BY <2>5 DEF OpeningDone, ToolReturned, Unavailable, TimedOut, Model, DeadlinePasses, CallTool,
                  ModelCalls, ModelStops, Accept, Reject, Degrade, End, NextCall, AfterTurn,
                  Returned, OneCall, gateway
    <3>2. QED BY <3>1, QuietStep
  <2>6. CASE UNCHANGED vars
    BY <2>6, QuietStep DEF vars, agent, gateway
  <2>7. QED BY <2>1, <2>2, <2>3, <2>4, <2>5, <2>6 DEF Next, Worker
<1>3. Spec => []Inv
  <2>1. Init => BudgetInv /\ CiteInv
    BY BudgetFresh DEF Init, CiteInv
  <2>2. QED
    BY <2>1, Reachable, TrailReachable, BudgetStep, CiteStep, PTL DEF Spec
<1>4. QED
  <2> HIDE DEF Inv
  <2>1. QED BY <1>1, <1>2, <1>3, PTL DEF Spec, ResultsAreAudited, Audited!Spec
=============================================================================
