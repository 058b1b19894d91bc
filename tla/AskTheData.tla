----------------------------- MODULE AskTheData -----------------------------
(***************************************************************************)
(* One press of the ask box: a request thread of the surfaces server takes *)
(* the ask lock or is told a question is running (surfaces/server.py), the  *)
(* adapter runs the engine on a pool thread and waits for it behind a guard *)
(* (surfaces/ask.py), and the engine gathers evidence, drafts an answer,    *)
(* checks every figure and digit of it against the trail and drafts it once *)
(* more if that fails (investigation/ask.py).  The model is external: it    *)
(* may ask for anything and may answer anything.  The threads an expired    *)
(* evidence call leaves behind are in InvestigationAgent, whose loop this   *)
(* engine inherits.                                                         *)
(***************************************************************************)
EXTENDS Integers, FiniteSets

CONSTANTS
    Presser,       \* request threads of the server
    Query,         \* {tool, input} values a model may ask for
    Orientation,   \* the platform-wide metric_series every question opens with
    Number,        \* digits an answer may write
    MaxTurns,      \* DEFAULT_ASK_MAX_TURNS
    QueryBudget,   \* DEFAULT_ASK_QUERY_BUDGET
    MaxCalls,      \* bound: tool calls in one model response
    Nobody

ASSUME AskAssumption ==
    /\ Orientation \in Query
    /\ MaxTurns \in Nat /\ QueryBudget \in Nat /\ MaxCalls \in Nat \ {0}
    /\ Nobody \notin Presser

VARIABLES
    lock,     \* SurfacesApp._ask_lock
    press,    \* where each request is
    shown,    \* the payload the latest question was answered with
    engine,   \* the engine of the question under way
    trail     \* its EvidenceTrail

vars == <<lock, press, shown, engine, trail>>

-----------------------------------------------------------------------------
(* Drafts and what backs them                                              *)

Figure == [query : Query, number : Number]

\* AskAnswer, its prose reduced to the digits it writes and whether it forecasts
Draft == [outcome : {"diagnosed", "ambiguous", "insufficient_evidence"},
          prose : SUBSET Number, figures : SUBSET Figure,
          missing : BOOLEAN, forecasts : BOOLEAN]

\* A trail entry: a refused call was not executed, a failed one was
Entry == [query : Query, executed : BOOLEAN, outcome : {"success", "failure", "refused"},
          observed : BOOLEAN, opening : BOOLEAN]

\* EvidenceGateway.verify_citation
Executed(q) == \E e \in trail : e.query = q /\ e.executed

\* _measured_anything
MeasuredAnything ==
    \E e \in trail : e.executed /\ e.outcome = "success" /\ e.observed

Carried(d) == {f.number : f \in d.figures}

\* A mutant of Stands: the trail names a query whether or not it was executed
StandsOnAnyEntry(d) ==
    /\ \A f \in d.figures : \E e \in trail : e.query = f.query
    /\ d.prose \subseteq Carried(d)
    /\ d.outcome = "diagnosed" => d.figures # {} /\ ~d.forecasts
    /\ d.outcome = "insufficient_evidence" => d.missing
    /\ d.outcome # "diagnosed" /\ MeasuredAnything => d.figures # {}

\* AskAgent._validate_answer
Stands(d) ==
    /\ \A f \in d.figures : Executed(f.query)
    /\ d.prose \subseteq Carried(d)
    /\ d.outcome = "diagnosed" => d.figures # {} /\ ~d.forecasts
    /\ d.outcome = "insufficient_evidence" => d.missing
    /\ d.outcome # "diagnosed" /\ MeasuredAnything => d.figures # {}

\* _result: the payload.  The whole trail is listed with it, each call with its
\* outcome; citations is the part of it that was run.
Result(outcome, prose, figures) ==
    [outcome |-> outcome, prose |-> prose, figures |-> figures,
     citations |-> {e.query : e \in {x \in trail : x.executed}}]

Payload == [outcome : {"diagnosed", "ambiguous", "insufficient_evidence", "agent_unavailable"},
            prose : SUBSET Number, figures : SUBSET Figure, citations : SUBSET Query]

\* What a press is told when no engine answers it (ask.py's _unavailable)
NoEngine == [outcome |-> "agent_unavailable", prose |-> {}, figures |-> {},
             citations |-> {}]

\* The engine's own _unavailable, and the answer it gives after two drafts failed
Unavailable == Result("agent_unavailable", {}, {})
CannotStand == Result("insufficient_evidence", {}, {})
Answer(d)   == Result(d.outcome, d.prose, d.figures)

Off == [pc |-> "off", turns |-> 0, left |-> 0, spent |-> 0, calls |-> 0, result |-> NoEngine]

Init ==
    /\ lock = Nobody
    /\ press = [p \in Presser |-> "idle"]
    /\ shown = NoEngine
    /\ engine = Off
    /\ trail = {}

-----------------------------------------------------------------------------
(* The server and the adapter                                              *)

\* POST /api/ask with a question: the lock is free, so the adapter submits the
\* engine to its pool; with no key it answers at once instead.  While the lock is
\* held a press is told so (409) and changes nothing.
Ask(p) ==
    /\ press[p] = "idle" /\ lock = Nobody
    /\ \/ /\ press' = [press EXCEPT ![p] = "waiting"]
          /\ lock' = p
          /\ engine' = [Off EXCEPT !.pc = "opening"]
       \/ UNCHANGED <<lock, press, engine>>
    /\ shown' = NoEngine
    /\ UNCHANGED trail

\* future.result returned: the payload is shown and the pool, whose thread is
\* over, is left
Shown(p) ==
    /\ press[p] = "waiting" /\ lock = p /\ engine.pc = "done"
    /\ press' = [press EXCEPT ![p] = "idle"]
    /\ shown' = engine.result
    /\ lock' = Nobody
    /\ engine' = Off
    /\ trail' = {}

\* A mutant of GuardExpires: the press is answered and the lock released while
\* the engine runs on
AnswerAndLetGo(p) ==
    /\ press[p] = "waiting" /\ engine.pc # "done"
    /\ press' = [press EXCEPT ![p] = "idle"]
    /\ shown' = NoEngine
    /\ lock' = Nobody
    /\ UNCHANGED <<engine, trail>>

\* The guard expires.  The answer is decided, but it is returned from inside the
\* `with` block, whose exit joins the pool's thread.
GuardExpires(p) ==
    /\ press[p] = "waiting" /\ engine.pc # "done"
    /\ press' = [press EXCEPT ![p] = "joining"]
    /\ UNCHANGED <<lock, shown, engine, trail>>

\* The engine ends: the exit returns, the press is told it timed out, and what
\* the engine found is dropped
Joined(p) ==
    /\ press[p] = "joining" /\ engine.pc = "done"
    /\ press' = [press EXCEPT ![p] = "idle"]
    /\ shown' = NoEngine
    /\ lock' = Nobody
    /\ engine' = Off
    /\ trail' = {}

-----------------------------------------------------------------------------
(* The engine                                                              *)

Ends(result) == engine' = [engine EXCEPT !.pc = "done", !.result = result]

\* What a tool call may bring back and leave in the trail
Outcomes(q, opening) ==
    {e \in Entry : /\ e.query = q /\ e.opening = opening /\ e.executed
                   /\ e.outcome \in {"success", "failure"}
                   /\ e.observed => e.outcome = "success"}

\* The opening orientation, outside the budget.  The check of the prompt built on it
\* raises past the engine's handlers, and the adapter reports an engine error.
Orient ==
    /\ engine.pc = "opening"
    /\ \E e \in Outcomes(Orientation, TRUE) : trail' = trail \cup {e}
    /\ \/ engine' = [engine EXCEPT !.pc = IF MaxTurns = 0 THEN "final" ELSE "model"]
       \/ Ends(NoEngine)
    /\ UNCHANGED <<lock, press, shown>>

\* _gather: the model asks for tools, or has asked enough
Gather ==
    /\ engine.pc = "model"
    /\ \/ engine' = [engine EXCEPT !.pc = "final", !.calls = @ + 1]
       \/ \E n \in 1..MaxCalls :
            engine' = [engine EXCEPT !.pc = "tools", !.calls = @ + 1, !.left = n,
                                     !.turns = @ + 1]
    /\ UNCHANGED <<lock, press, shown, trail>>

\* The next call of the response is made, and the turn ends with the last one
NextCall(e) ==
    [e EXCEPT !.left = @ - 1,
              !.pc = IF e.left > 1 THEN "tools"
                     ELSE IF e.turns < MaxTurns THEN "model" ELSE "final"]

\* A mutant of Call: only a call that succeeded is counted
CallCountingSuccess ==
    /\ engine.pc = "tools" /\ engine.spent < QueryBudget
    /\ \E q \in Query : \E e \in Outcomes(q, FALSE) :
         /\ trail' = trail \cup {e}
         /\ engine' = NextCall([engine EXCEPT !.spent =
                                   @ + IF e.outcome = "success" THEN 1 ELSE 0])
    /\ UNCHANGED <<lock, press, shown>>

\* EvidenceGateway.call within the budget, which failed calls consume too
Call ==
    /\ engine.pc = "tools" /\ engine.spent < QueryBudget
    /\ \E q \in Query : \E e \in Outcomes(q, FALSE) : trail' = trail \cup {e}
    /\ engine' = NextCall([engine EXCEPT !.spent = @ + 1])
    /\ UNCHANGED <<lock, press, shown>>

\* EvidenceGateway.call refuses: the tool is not allowed or the budget is spent
Refuse ==
    /\ engine.pc = "tools"
    /\ \E q \in Query :
         trail' = trail \cup {[query |-> q, executed |-> FALSE, outcome |-> "refused",
                               observed |-> FALSE, opening |-> FALSE]}
    /\ engine' = NextCall(engine)
    /\ UNCHANGED <<lock, press, shown>>

\* The first final call, and the check of what it returned
Final ==
    /\ engine.pc = "final"
    /\ \E d \in Draft :
         engine' = IF Stands(d)
                   THEN [engine EXCEPT !.pc = "done", !.calls = @ + 1, !.result = Answer(d)]
                   ELSE [engine EXCEPT !.pc = "retry", !.calls = @ + 1]
    /\ UNCHANGED <<lock, press, shown, trail>>

\* The second and last draft, told what was wrong with the first
Retry ==
    /\ engine.pc = "retry"
    /\ \E d \in Draft :
         engine' = [engine EXCEPT !.pc = "done", !.calls = @ + 1,
                                  !.result = IF Stands(d) THEN Answer(d) ELSE CannotStand]
    /\ UNCHANGED <<lock, press, shown, trail>>

\* A mutant of Fail: the thread dies without a result or an error to hand over
FailSilently ==
    /\ engine.pc \in {"opening", "model", "tools", "final", "retry"}
    /\ engine' = Off
    /\ UNCHANGED <<lock, press, shown, trail>>

\* The deadline of a bounded call, or any error of the client or the tools: the
\* engine's own unavailable answer
Fail ==
    /\ engine.pc \in {"opening", "model", "tools", "final", "retry"}
    /\ Ends(Unavailable)
    /\ UNCHANGED <<lock, press, shown, trail>>

-----------------------------------------------------------------------------
(* Specification                                                           *)

EngineStep == Orient \/ Gather \/ Call \/ Refuse \/ Final \/ Retry \/ Fail
PressStep(p) == Shown(p) \/ GuardExpires(p) \/ Joined(p)

Next ==
    \/ EngineStep
    \/ \E p \in Presser : Ask(p) \/ PressStep(p)

Spec == Init /\ [][Next]_vars

\* A request thread is not abandoned
ServerSpec == Spec /\ \A p \in Presser : WF_vars(PressStep(p))

\* ... and the engine, every call of which is joined for the rest of its
\* wall-clock budget only, gets on
FairSpec == ServerSpec /\ WF_vars(EngineStep)

-----------------------------------------------------------------------------
(* Properties                                                              *)

\* Every variable has its type, and the engine keeps within its turns and budget
TypeOK ==
    /\ lock \in Presser \cup {Nobody}
    /\ press \in [Presser -> {"idle", "waiting", "joining"}]
    /\ shown \in Payload
    /\ engine \in [pc : {"off", "opening", "model", "tools", "final", "retry", "done"},
                   turns : 0..MaxTurns, left : 0..MaxCalls, spent : 0..QueryBudget,
                   calls : Nat, result : Payload]
    /\ trail \subseteq Entry

\* One question at a time: an engine runs only for the press that holds the lock
\* and still waits for it, so an expired guard can never leave one behind that a
\* second question stacks on (server.py's "the lock is taken without blocking").
OneQuestion ==
    /\ engine.pc # "off" => lock # Nobody /\ press[lock] # "idle"
    /\ \A p \in Presser : press[p] # "idle" => lock = p

\* Every figure of an answer the board is shown names a query of the citations
\* listed with it, one that was really run, and every digit of its prose is one
\* of its figures (AskAgent._validate_answer, and no path around it).
FiguresAreBacked ==
    /\ \A f \in shown.figures : f.query \in shown.citations
    /\ shown.prose \subseteq {f.number : f \in shown.figures}

\* A question is bounded in what it spends, whatever the model does: at most the
\* budgeted evidence queries, failures included, beside the orientation it opens
\* with, and at most the gathering turns and two drafts in model calls
\* (EvidenceGateway.call, AskAgent.ask).
QuestionIsBounded ==
    /\ Cardinality({e \in trail : e.executed /\ ~e.opening}) <= QueryBudget
    /\ engine.calls <= MaxTurns + 2

\* A question the engine gets on with is always answered and frees the box
AskIsAnswered == \A p \in Presser : (press[p] # "idle") ~> (press[p] = "idle")

\* What the guard is there for, and does not do: a press is answered even if the
\* engine never ends.
GuardBoundsThePress == \A p \in Presser : (press[p] = "waiting") ~> (press[p] = "idle")
=============================================================================
