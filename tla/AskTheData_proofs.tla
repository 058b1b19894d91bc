-------------------------- MODULE AskTheData_proofs --------------------------
(***************************************************************************)
(* Proofs about AskTheData: it is type correct, one question runs at a     *)
(* time and only for the press that holds the lock, what it may spend is   *)
(* bounded, and every figure that is shown was measured.  They hold for    *)
(* any number of presses, queries, turns and calls in a response, and      *)
(* whatever the model answers.                                             *)
(***************************************************************************)
EXTENDS AskTheData, FiniteSetTheorems, TLAPS

USE AskAssumption

(***************************************************************************)
(* Type correctness.  The turns and the queries stay in their ranges       *)
(* because the loop tests them before it goes on.                          *)
(***************************************************************************)

\* The engine's counters at each of its places.
Paced ==
    /\ engine.pc \in {"off", "opening"} =>
           engine.turns = 0 /\ engine.calls = 0 /\ engine.spent = 0
    /\ engine.pc \in {"model", "tools"} => engine.calls = engine.turns
    /\ engine.pc = "model" => engine.turns < MaxTurns
    /\ engine.pc = "tools" => engine.left > 0
    /\ engine.pc = "final" => engine.calls <= MaxTurns
    /\ engine.pc = "retry" => engine.calls <= MaxTurns + 1
    /\ engine.calls <= MaxTurns + 2

Typed == TypeOK /\ Paced

Place == {"off", "opening", "model", "tools", "final", "retry", "done"}
Engine == [pc : Place, turns : 0..MaxTurns, left : 0..MaxCalls, spent : 0..QueryBudget,
           calls : Nat, result : Payload]

LEMMA NoEngineType == NoEngine \in Payload /\ Off \in Engine
  BY DEF NoEngine, Payload, Off, Engine, Place

LEMMA InitTyped == Init => Typed
<1> SUFFICES ASSUME Init PROVE Typed
  OBVIOUS
<1>1. engine = Off /\ Off.turns = 0 /\ Off.calls = 0 /\ Off.spent = 0 /\ Off.pc = "off"
  BY DEF Init, Off
<1>2. TypeOK
  BY NoEngineType DEF Init, TypeOK, Engine, Place
<1>3. Paced
  BY <1>1 DEF Paced
<1> QED
  BY <1>2, <1>3 DEF Typed

\* The payloads the engine ends with are typed.
LEMMA ResultType ==
  ASSUME TypeOK, NEW d \in Draft
  PROVE  Unavailable \in Payload /\ CannotStand \in Payload /\ Answer(d) \in Payload
<1>1. {e.query : e \in {x \in trail : x.executed}} \in SUBSET Query
  BY DEF TypeOK, Entry
<1>2. /\ d.outcome \in {"diagnosed", "ambiguous", "insufficient_evidence"}
      /\ d.prose \in SUBSET Number /\ d.figures \in SUBSET Figure
  BY DEF Draft
<1> QED
  BY <1>1, <1>2 DEF Unavailable, CannotStand, Answer, Result, Payload

LEMMA UnavailableType == ASSUME TypeOK PROVE Unavailable \in Payload
<1>1. {e.query : e \in {x \in trail : x.executed}} \in SUBSET Query
  BY DEF TypeOK, Entry
<1> QED
  BY <1>1 DEF Unavailable, Result, Payload

\* What a step of the model writes keeps the engine typed.
LEMMA EngineUpdate ==
  ASSUME NEW e \in Engine, NEW pc \in Place, NEW n \in Nat
  PROVE  [e EXCEPT !.pc = pc, !.calls = n] \in Engine
  BY DEF Engine

LEMMA EngineEnds ==
  ASSUME NEW e \in Engine, NEW n \in Nat, NEW r \in Payload
  PROVE  [e EXCEPT !.pc = "done", !.calls = n, !.result = r] \in Engine
  BY DEF Engine, Place

LEMMA EngineTurns ==
  ASSUME NEW e \in Engine, NEW n \in Nat, NEW l \in 0..MaxCalls, NEW t \in 0..MaxTurns
  PROVE  [e EXCEPT !.pc = "tools", !.calls = n, !.left = l, !.turns = t] \in Engine
  BY DEF Engine, Place

\* On to the next call, the next turn or the final answer.
LEMMA NextCallTyped ==
  ASSUME NEW e \in Engine, e.left > 0, e.calls = e.turns
  PROVE  /\ NextCall(e) \in Engine
         /\ NextCall(e).calls = e.turns /\ NextCall(e).turns = e.turns
         /\ NextCall(e).spent = e.spent
         /\ NextCall(e).pc \in {"tools", "model", "final"}
         /\ NextCall(e).pc = "tools" => NextCall(e).left > 0
         /\ NextCall(e).pc = "model" => e.turns < MaxTurns
<1>1. e.left - 1 \in 0..MaxCalls /\ e.left \in 1..MaxCalls /\ e.turns \in 0..MaxTurns
  BY DEF Engine
<1>2. CASE e.left > 1
  <2>1. NextCall(e) = [e EXCEPT !.left = e.left - 1, !.pc = "tools"]
    BY <1>2 DEF NextCall
  <2>2. NextCall(e) \in Engine
    BY <1>1, <2>1 DEF Engine, Place
  <2>3. /\ NextCall(e).calls = e.turns /\ NextCall(e).turns = e.turns
        /\ NextCall(e).spent = e.spent /\ NextCall(e).pc = "tools"
        /\ NextCall(e).left = e.left - 1
    BY <2>1 DEF Engine
  <2> QED
    BY <1>1, <1>2, <2>2, <2>3
<1>3. CASE ~(e.left > 1) /\ e.turns < MaxTurns
  BY <1>1, <1>3 DEF NextCall, Engine, Place
<1>4. CASE ~(e.left > 1) /\ ~(e.turns < MaxTurns)
  BY <1>1, <1>4 DEF NextCall, Engine, Place
<1> QED
  BY <1>2, <1>3, <1>4

LEMMA NextTyped == Typed /\ [Next]_vars => Typed'
<1> SUFFICES ASSUME Typed, [Next]_vars PROVE Typed'
  OBVIOUS
<1> USE DEF Typed
<1>0. engine \in Engine
  BY DEF TypeOK, Engine, Place
<1>e. ASSUME engine' \in Engine, Paced', trail' \subseteq Entry,
             UNCHANGED <<lock, press, shown>>
      PROVE  Typed'
  BY <1>e DEF TypeOK, Engine, Place
<1>r. ASSUME NEW r \in Payload, Ends(r), engine.calls <= MaxTurns + 2
      PROVE  engine' \in Engine /\ Paced'
  BY <1>0, <1>r DEF Ends, Engine, Place, Paced
<1>n. engine.calls + 1 \in Nat
  BY <1>0 DEF Engine
<1>d. ASSUME NEW r \in Payload, engine.calls <= MaxTurns + 1,
             engine' = [engine EXCEPT !.pc = "done", !.calls = @ + 1, !.result = r]
      PROVE  engine' \in Engine /\ Paced'
  <2>1. engine' \in Engine
    BY <1>0, <1>d, <1>n, EngineEnds
  <2>2. engine'.pc = "done" /\ engine'.calls = engine.calls + 1
    BY <1>0, <1>d DEF Engine
  <2> QED
    BY <1>0, <1>d, <2>1, <2>2 DEF Paced, Engine
<1>t. ASSUME engine.calls <= MaxTurns,
             engine' = [engine EXCEPT !.pc = "retry", !.calls = @ + 1]
      PROVE  engine' \in Engine /\ Paced'
  <2>1. engine' \in Engine
    BY <1>0, <1>t, <1>n, EngineUpdate DEF Place
  <2>2. engine'.pc = "retry" /\ engine'.calls = engine.calls + 1
    BY <1>0, <1>t DEF Engine
  <2> QED
    BY <1>0, <1>t, <2>1, <2>2 DEF Paced, Engine
<1>1. CASE Orient
  <2>1. trail' \subseteq Entry
    BY <1>1 DEF Orient, Outcomes, TypeOK
  <2>2. engine' \in Engine /\ Paced'
    <3>1. CASE Ends(NoEngine)
      BY <1>r, <3>1, NoEngineType DEF Paced
    <3>2. CASE engine' = [engine EXCEPT !.pc = IF MaxTurns = 0 THEN "final" ELSE "model"]
      BY <1>0, <1>1, <3>2 DEF Orient, Engine, Place, Paced
    <3> QED
      BY <1>1, <3>1, <3>2 DEF Orient
  <2> QED
    BY <1>1, <1>e, <2>1, <2>2 DEF Orient
<1>2. CASE Gather
  <2>1. engine' \in Engine /\ Paced'
    <3>1. /\ engine.calls \in Nat /\ engine.turns \in 0..MaxTurns /\ engine.turns < MaxTurns
          /\ engine.calls = engine.turns
      BY <1>0, <1>2 DEF Gather, Engine, Paced
    <3>n. engine.calls + 1 \in Nat
      BY <3>1
    <3>2. CASE engine' = [engine EXCEPT !.pc = "final", !.calls = @ + 1]
      <4>1. engine' \in Engine
        BY <1>0, <3>1, <3>2, EngineUpdate, <3>n DEF Place
      <4>2. engine'.pc = "final" /\ engine'.calls = engine.calls + 1
        BY <1>0, <3>2 DEF Engine
      <4> QED
        BY <3>1, <4>1, <4>2 DEF Paced
    <3>3. ASSUME NEW n \in 1..MaxCalls,
                 engine' = [engine EXCEPT !.pc = "tools", !.calls = @ + 1, !.left = n,
                                          !.turns = @ + 1]
          PROVE  engine' \in Engine /\ Paced'
      <4>1. engine.turns + 1 \in 0..MaxTurns /\ n \in 0..MaxCalls /\ n > 0
        BY <3>1
      <4>2. /\ engine' \in Engine /\ engine'.pc = "tools" /\ engine'.left = n
            /\ engine'.calls = engine.calls + 1 /\ engine'.turns = engine.turns + 1
        <5>1. engine' \in Engine
          BY <1>0, <3>3, <4>1, EngineTurns, <3>n
        <5>2. /\ engine'.pc = "tools" /\ engine'.left = n
              /\ engine'.calls = engine.calls + 1 /\ engine'.turns = engine.turns + 1
          BY <1>0, <3>3 DEF Engine
        <5> QED
          BY <5>1, <5>2
      <4> QED
        BY <3>1, <4>1, <4>2 DEF Paced
    <3> QED
      BY <1>2, <3>2, <3>3 DEF Gather
  <2> QED
    BY <1>2, <1>e, <2>1 DEF Gather, TypeOK
<1>3. CASE Call
  <2> DEFINE f == [engine EXCEPT !.spent = @ + 1]
  <2>1. f \in Engine /\ f.left > 0 /\ f.calls = f.turns /\ f.turns = engine.turns
    BY <1>0, <1>3 DEF Call, Engine, Place, Paced
  <2>2. engine' = NextCall(f)
    BY <1>3 DEF Call
  <2> HIDE DEF f
  <2>3. engine' \in Engine /\ Paced'
    BY <2>1, <2>2, NextCallTyped DEF Engine, Paced
  <2>4. trail' \subseteq Entry
    BY <1>3 DEF Call, Outcomes, TypeOK
  <2> QED
    BY <1>3, <1>e, <2>3, <2>4 DEF Call
<1>4. CASE Refuse
  <2>1. engine.left > 0 /\ engine.calls = engine.turns /\ engine' = NextCall(engine)
    BY <1>4 DEF Refuse, Paced
  <2>2. engine' \in Engine /\ Paced'
    BY <1>0, <2>1, NextCallTyped DEF Engine, Paced
  <2>3. trail' \subseteq Entry
    <3>1. PICK q \in Query :
            trail' = trail \cup {[query |-> q, executed |-> FALSE, outcome |-> "refused",
                                  observed |-> FALSE, opening |-> FALSE]}
      BY <1>4 DEF Refuse
    <3>2. [query |-> q, executed |-> FALSE, outcome |-> "refused",
           observed |-> FALSE, opening |-> FALSE] \in Entry
      BY DEF Entry
    <3> QED
      BY <3>1, <3>2 DEF TypeOK
  <2> QED
    BY <1>4, <1>e, <2>2, <2>3 DEF Refuse
<1>5. CASE Final
  <2>0. PICK d \in Draft :
        engine' = IF Stands(d)
                  THEN [engine EXCEPT !.pc = "done", !.calls = @ + 1, !.result = Answer(d)]
                  ELSE [engine EXCEPT !.pc = "retry", !.calls = @ + 1]
    BY <1>5 DEF Final
  <2>1. Answer(d) \in Payload
    BY ResultType
  <2>2. engine' \in Engine /\ Paced'
    <3>1. engine.calls <= MaxTurns
      BY <1>5 DEF Final, Paced
    <3>2. CASE Stands(d)
      <4>1. engine' = [engine EXCEPT !.pc = "done", !.calls = @ + 1, !.result = Answer(d)]
        BY <2>0, <3>2
      <4>2. engine.calls <= MaxTurns + 1
        BY <1>0, <3>1 DEF Engine
      <4> QED
        BY <1>d, <2>1, <4>1, <4>2
    <3>3. CASE ~Stands(d)
      BY <1>t, <2>0, <3>1, <3>3
    <3> QED
      BY <3>2, <3>3
  <2> QED
    BY <1>5, <1>e, <2>2 DEF Final, TypeOK
<1>6. CASE Retry
  <2> PICK d \in Draft :
        engine' = [engine EXCEPT !.pc = "done", !.calls = @ + 1,
                                 !.result = IF Stands(d) THEN Answer(d) ELSE CannotStand]
    BY <1>6 DEF Retry
  <2>1. Answer(d) \in Payload /\ CannotStand \in Payload
    BY ResultType
  <2>2. engine' \in Engine /\ Paced'
    <3>1. engine.calls <= MaxTurns + 1
      BY <1>6 DEF Retry, Paced
    <3>2. \E r \in Payload :
            engine' = [engine EXCEPT !.pc = "done", !.calls = @ + 1, !.result = r]
      <4>1. (IF Stands(d) THEN Answer(d) ELSE CannotStand) \in Payload
        BY <2>1
      <4> QED
        BY <4>1
    <3> QED
      BY <1>d, <3>1, <3>2
  <2> QED
    BY <1>6, <1>e, <2>2 DEF Retry, TypeOK
<1>7. CASE Fail
  <2>1. engine' \in Engine /\ Paced'
    BY <1>7, <1>r, UnavailableType DEF Fail, Paced
  <2> QED
    BY <1>7, <1>e, <2>1 DEF Fail, TypeOK
<1>o. ASSUME engine' = Off PROVE engine' \in Engine /\ Paced'
  BY <1>o, NoEngineType DEF Off, Paced
<1>8. ASSUME NEW p \in Presser, Ask(p) PROVE Typed'
  <2>1. CASE UNCHANGED <<lock, press, engine>>
    BY <1>8, <2>1, NoEngineType DEF Ask, TypeOK, Paced
  <2>2. CASE engine' = [Off EXCEPT !.pc = "opening"]
             /\ press' = [press EXCEPT ![p] = "waiting"] /\ lock' = p
    <3>1. engine' \in Engine /\ Paced'
      BY <2>2, NoEngineType DEF Off, Engine, Place, Paced
    <3> QED
      BY <1>8, <2>2, <3>1, NoEngineType DEF Ask, TypeOK, Engine, Place
  <2> QED
    BY <1>8, <2>1, <2>2 DEF Ask
<1>9. ASSUME NEW p \in Presser, Shown(p) \/ Joined(p) PROVE Typed'
  <2>1. engine' \in Engine /\ Paced'
    BY <1>9, <1>o DEF Shown, Joined
  <2>2. shown' \in Payload
    BY <1>9, NoEngineType DEF Shown, Joined, TypeOK
  <2> QED
    BY <1>9, <2>1, <2>2 DEF Shown, Joined, TypeOK, Engine, Place
<1>10. ASSUME NEW p \in Presser, GuardExpires(p) PROVE Typed'
  BY <1>10 DEF GuardExpires, TypeOK, Paced
<1>11. CASE UNCHANGED vars
  BY <1>11 DEF vars, TypeOK, Paced
<1> QED
  BY <1>1, <1>2, <1>3, <1>4, <1>5, <1>6, <1>7, <1>8, <1>9, <1>10, <1>11
  DEF Next, EngineStep, PressStep

\* Every reachable state of a question is well typed, and the engine keeps
\* within its turns and its query budget.
THEOREM TypeCorrect == Spec => []TypeOK
<1>1. Typed => TypeOK
  BY DEF Typed
<1> QED
  BY <1>1, InitTyped, NextTyped, PTL DEF Spec

(***************************************************************************)
(* One question at a time.  The lock names the only press that waits, and  *)
(* the engine runs for it; the lock is let go together with the engine.    *)
(***************************************************************************)

LEMMA OneQuestionNext == Typed /\ OneQuestion /\ [Next]_vars => OneQuestion'
<1> SUFFICES ASSUME Typed, OneQuestion, [Next]_vars PROVE OneQuestion'
  OBVIOUS
<1>0. /\ lock \in Presser \cup {Nobody} /\ press \in [Presser -> {"idle", "waiting", "joining"}]
      /\ Nobody \notin Presser
  BY DEF Typed, TypeOK
<1>1. ASSUME engine.pc # "off", UNCHANGED <<lock, press>> PROVE OneQuestion'
  BY <1>1 DEF OneQuestion
<1>2. CASE EngineStep
  <2>1. engine.pc # "off"
    BY <1>2 DEF EngineStep, Orient, Gather, Call, Refuse, Final, Retry, Fail
  <2>2. UNCHANGED <<lock, press>>
    BY <1>2 DEF EngineStep, Orient, Gather, Call, Refuse, Final, Retry, Fail
  <2> QED
    BY <1>1, <2>1, <2>2
<1>3. ASSUME NEW p \in Presser, Ask(p) PROVE OneQuestion'
  <2>1. \A q \in Presser : press[q] = "idle"
    BY <1>0, <1>3 DEF Ask, OneQuestion
  <2>2. CASE UNCHANGED <<lock, press, engine>>
    BY <2>2 DEF OneQuestion
  <2>3. CASE press' = [press EXCEPT ![p] = "waiting"] /\ lock' = p
    BY <1>0, <2>1, <2>3 DEF OneQuestion
  <2> QED
    BY <1>3, <2>2, <2>3 DEF Ask
<1>4. ASSUME NEW p \in Presser, Shown(p) \/ Joined(p) PROVE OneQuestion'
  <2>1. \A q \in Presser \ {p} : press[q] = "idle"
    BY <1>0, <1>4 DEF Shown, Joined, OneQuestion
  <2>2. engine'.pc = "off" /\ press' = [press EXCEPT ![p] = "idle"]
    BY <1>4 DEF Shown, Joined, Off
  <2> QED
    BY <1>0, <2>1, <2>2 DEF OneQuestion
<1>5. ASSUME NEW p \in Presser, GuardExpires(p) PROVE OneQuestion'
  BY <1>0, <1>5 DEF GuardExpires, OneQuestion
<1>6. CASE UNCHANGED vars
  BY <1>6 DEF vars, OneQuestion
<1> QED
  BY <1>2, <1>3, <1>4, <1>5, <1>6 DEF Next, PressStep

\* An engine runs only for the press that holds the lock and still waits for it.
THEOREM OneQuestionAtATime == Spec => []OneQuestion
<1>1. Init => OneQuestion
  BY DEF Init, Off, OneQuestion
<1> QED
  BY <1>1, InitTyped, NextTyped, OneQuestionNext, PTL DEF Spec

(***************************************************************************)
(* What a question spends.  Every budgeted query it ran is counted in      *)
(* engine.spent, which the budget bounds; the trail of the question before *)
(* is gone when the next one starts.                                       *)
(***************************************************************************)

Budgeted == {e \in trail : e.executed /\ ~e.opening}

Accounted ==
    /\ IsFiniteSet(Budgeted) /\ Cardinality(Budgeted) <= engine.spent
    /\ engine.pc = "off" => trail = {}

LEMMA OneMore ==
  ASSUME NEW S, IsFiniteSet(S), NEW e
  PROVE  /\ IsFiniteSet(S \cup {e}) /\ Cardinality(S) \in Nat
         /\ Cardinality(S \cup {e}) \in Nat
         /\ Cardinality(S \cup {e}) <= Cardinality(S) + 1
<1>1. /\ IsFiniteSet(S \cup {e})
      /\ Cardinality(S \cup {e}) = IF e \in S THEN Cardinality(S) ELSE Cardinality(S) + 1
  BY FS_AddElement
<1>2. Cardinality(S) \in Nat /\ Cardinality(S \cup {e}) \in Nat
  BY <1>1, FS_CardinalityType
<1> QED
  BY <1>1, <1>2

LEMMA AccountedNext ==
  Typed /\ OneQuestion /\ Accounted /\ [Next]_vars => Accounted'
<1> SUFFICES ASSUME Typed, OneQuestion, Accounted, [Next]_vars PROVE Accounted'
  OBVIOUS
<1>0. engine \in Engine
  BY DEF Typed, TypeOK, Engine, Place
<1>e. IsFiniteSet({}) /\ Cardinality({}) = 0
  BY FS_EmptySet
<1>1. ASSUME Budgeted' = Budgeted, engine'.spent = engine.spent, engine'.pc # "off"
      PROVE  Accounted'
  BY <1>1 DEF Accounted
<1>2. ASSUME trail' = {}, engine'.spent = 0 PROVE Accounted'
  BY <1>2, <1>e DEF Accounted, Budgeted
<1>3. CASE Orient
  <2>1. PICK e \in Outcomes(Orientation, TRUE) : trail' = trail \cup {e}
    BY <1>3 DEF Orient
  <2>2. Budgeted' = Budgeted
    BY <2>1 DEF Outcomes, Budgeted
  <2>3. engine'.spent = engine.spent /\ engine'.pc # "off"
    BY <1>0, <1>3 DEF Orient, Ends, Engine
  <2> QED
    BY <1>1, <2>2, <2>3
<1>4. CASE Call
  <2>1. PICK q \in Query : \E x \in Outcomes(q, FALSE) : trail' = trail \cup {x}
    BY <1>4 DEF Call
  <2>2. PICK e \in Outcomes(q, FALSE) : trail' = trail \cup {e}
    BY <2>1
  <2>3. Budgeted' = Budgeted \cup {e}
    BY <2>2 DEF Outcomes, Budgeted
  <2>4. /\ IsFiniteSet(Budgeted') /\ Cardinality(Budgeted') <= Cardinality(Budgeted) + 1
        /\ Cardinality(Budgeted) \in Nat /\ Cardinality(Budgeted') \in Nat
    BY <2>3, OneMore DEF Accounted
  <2>5. engine'.spent = engine.spent + 1 /\ engine'.pc # "off" /\ engine.spent \in Nat
    BY <1>0, <1>4 DEF Call, NextCall, Engine
  <2>6. Cardinality(Budgeted') <= engine'.spent
    BY <2>4, <2>5 DEF Accounted
  <2> QED
    BY <2>4, <2>5, <2>6 DEF Accounted
<1>5. CASE Refuse
  <2>1. PICK q \in Query :
          trail' = trail \cup {[query |-> q, executed |-> FALSE, outcome |-> "refused",
                                observed |-> FALSE, opening |-> FALSE]}
    BY <1>5 DEF Refuse
  <2>2. Budgeted' = Budgeted
    BY <2>1 DEF Budgeted
  <2>3. engine'.spent = engine.spent /\ engine'.pc # "off"
    BY <1>0, <1>5 DEF Refuse, NextCall, Engine
  <2> QED
    BY <1>1, <2>2, <2>3
<1>6. CASE Gather
  BY <1>0, <1>1, <1>6 DEF Gather, Engine, Budgeted
<1>7. CASE Final
  <2>1. engine'.spent = engine.spent /\ engine'.pc # "off"
    BY <1>0, <1>7 DEF Final, Engine
  <2> QED
    BY <1>1, <1>7, <2>1 DEF Final, Budgeted
<1>8. CASE Retry
  <2>1. engine'.spent = engine.spent /\ engine'.pc # "off"
    BY <1>0, <1>8 DEF Retry, Engine
  <2> QED
    BY <1>1, <1>8, <2>1 DEF Retry, Budgeted
<1>9. CASE Fail
  <2>1. engine'.spent = engine.spent /\ engine'.pc # "off"
    BY <1>0, <1>9 DEF Fail, Ends, Engine
  <2> QED
    BY <1>1, <1>9, <2>1 DEF Fail, Budgeted
<1>10. ASSUME NEW p \in Presser, Ask(p) PROVE Accounted'
  <2>1. engine.pc = "off" /\ trail = {}
    BY <1>10 DEF Ask, OneQuestion, Accounted
  <2>2. CASE UNCHANGED engine
    BY <1>10, <2>2 DEF Ask, Accounted, Budgeted
  <2>3. CASE engine' = [Off EXCEPT !.pc = "opening"]
    BY <1>2, <1>10, <2>1, <2>3 DEF Ask, Off
  <2> QED
    BY <1>10, <2>2, <2>3 DEF Ask
<1>11. ASSUME NEW p \in Presser, Shown(p) \/ Joined(p) PROVE Accounted'
  BY <1>2, <1>11 DEF Shown, Joined, Off
<1>12. ASSUME NEW p \in Presser, GuardExpires(p) PROVE Accounted'
  BY <1>12 DEF GuardExpires, Accounted, Budgeted
<1>13. CASE UNCHANGED vars
  BY <1>13 DEF vars, Accounted, Budgeted
<1> QED
  BY <1>3, <1>4, <1>5, <1>6, <1>7, <1>8, <1>9, <1>10, <1>11, <1>12, <1>13
  DEF Next, EngineStep, PressStep

\* A question runs at most the budgeted evidence queries and makes at most the
\* gathering turns and two drafts in model calls, whatever the model does.
THEOREM SpendingIsBounded == Spec => []QuestionIsBounded
<1>1. Init => OneQuestion /\ Accounted
  <2>1. IsFiniteSet({}) /\ Cardinality({}) = 0
    BY FS_EmptySet
  <2> QED
    BY <2>1 DEF Init, Off, OneQuestion, Accounted, Budgeted
<1>2. Typed /\ Accounted => QuestionIsBounded
  <2> SUFFICES ASSUME Typed, Accounted PROVE QuestionIsBounded
    OBVIOUS
  <2>1. engine.spent \in 0..QueryBudget /\ engine.calls <= MaxTurns + 2
    BY DEF Typed, TypeOK, Paced
  <2>2. Cardinality(Budgeted) \in Nat /\ Cardinality(Budgeted) <= engine.spent
    BY FS_CardinalityType DEF Accounted
  <2> QED
    BY <2>1, <2>2 DEF QuestionIsBounded, Budgeted
<1> QED
  BY <1>1, <1>2, InitTyped, NextTyped, OneQuestionNext, AccountedNext, PTL DEF Spec

(***************************************************************************)
(* What is shown was measured.  A draft that stands cites executed queries *)
(* only, and the payload made of it lists every executed query.            *)
(***************************************************************************)

Backed(r) ==
    /\ \A f \in r.figures : f.query \in r.citations
    /\ r.prose \subseteq {f.number : f \in r.figures}

BackedInv == Backed(shown) /\ (engine.pc = "done" => Backed(engine.result))

LEMMA NothingIsBacked == Backed(NoEngine) /\ Backed(Unavailable) /\ Backed(CannotStand)
  BY DEF Backed, NoEngine, Unavailable, CannotStand, Result

LEMMA StandingIsBacked == ASSUME NEW d \in Draft, Stands(d) PROVE Backed(Answer(d))
<1>1. \A f \in d.figures : \E e \in trail : e.query = f.query /\ e.executed
  BY DEF Stands, Executed
<1>2. \A f \in d.figures : f.query \in {e.query : e \in {x \in trail : x.executed}}
  BY <1>1
<1>3. d.prose \subseteq {f.number : f \in d.figures}
  BY DEF Stands, Carried
<1> QED
  BY <1>2, <1>3 DEF Backed, Answer, Result

LEMMA BackedNext == Typed /\ BackedInv /\ [Next]_vars => BackedInv'
<1> SUFFICES ASSUME Typed, BackedInv, [Next]_vars PROVE BackedInv'
  OBVIOUS
<1>0. engine \in Engine
  BY DEF Typed, TypeOK, Engine, Place
<1>1. ASSUME UNCHANGED shown, engine'.pc # "done" PROVE BackedInv'
  BY <1>1 DEF BackedInv, Backed
<1>2. ASSUME UNCHANGED shown, NEW r, engine'.result = r, Backed(r) PROVE BackedInv'
  BY <1>2 DEF BackedInv, Backed
<1>3. CASE Orient
  <2>1. CASE Ends(NoEngine)
    <3>1. engine'.result = NoEngine
      BY <1>0, <2>1 DEF Ends, Engine
    <3> QED
      BY <1>2, <1>3, <3>1, NothingIsBacked DEF Orient
  <2>2. CASE engine' = [engine EXCEPT !.pc = IF MaxTurns = 0 THEN "final" ELSE "model"]
    BY <1>0, <1>1, <1>3, <2>2 DEF Orient, Engine
  <2> QED
    BY <1>3, <2>1, <2>2 DEF Orient
<1>4. CASE Gather
  BY <1>0, <1>1, <1>4 DEF Gather, Engine
<1>5. CASE Call
  <2>1. engine'.pc # "done"
    BY <1>0, <1>5 DEF Call, NextCall, Engine
  <2> QED
    BY <1>1, <1>5, <2>1 DEF Call
<1>6. CASE Refuse
  <2>1. engine'.pc # "done"
    BY <1>0, <1>6 DEF Refuse, NextCall, Engine
  <2> QED
    BY <1>1, <1>6, <2>1 DEF Refuse
<1>7. CASE Final
  <2>1. PICK d \in Draft :
          engine' = IF Stands(d)
                    THEN [engine EXCEPT !.pc = "done", !.calls = @ + 1, !.result = Answer(d)]
                    ELSE [engine EXCEPT !.pc = "retry", !.calls = @ + 1]
    BY <1>7 DEF Final
  <2>2. CASE Stands(d)
    <3>1. engine'.result = Answer(d)
      BY <1>0, <2>1, <2>2 DEF Engine
    <3> QED
      BY <1>2, <1>7, <2>2, <3>1, StandingIsBacked DEF Final
  <2>3. CASE ~Stands(d)
    <3>1. engine'.pc = "retry"
      BY <1>0, <2>1, <2>3 DEF Engine
    <3> QED
      BY <1>1, <1>7, <3>1 DEF Final
  <2> QED
    BY <2>2, <2>3
<1>8. CASE Retry
  <2>1. PICK d \in Draft :
          engine' = [engine EXCEPT !.pc = "done", !.calls = @ + 1,
                                   !.result = IF Stands(d) THEN Answer(d) ELSE CannotStand]
    BY <1>8 DEF Retry
  <2>2. engine'.result = IF Stands(d) THEN Answer(d) ELSE CannotStand
    BY <1>0, <2>1 DEF Engine
  <2>3. Backed(IF Stands(d) THEN Answer(d) ELSE CannotStand)
    BY NothingIsBacked, StandingIsBacked
  <2> QED
    BY <1>2, <1>8, <2>2, <2>3 DEF Retry
<1>9. CASE Fail
  <2>1. engine'.result = Unavailable
    BY <1>0, <1>9 DEF Fail, Ends, Engine
  <2> QED
    BY <1>2, <1>9, <2>1, NothingIsBacked DEF Fail
<1>o. ASSUME engine' = Off PROVE engine'.pc # "done"
  BY <1>o DEF Off
<1>10. ASSUME NEW p \in Presser, Ask(p) PROVE BackedInv'
  BY <1>10, NothingIsBacked DEF Ask, Off, BackedInv, Backed
<1>11. ASSUME NEW p \in Presser, Shown(p) PROVE BackedInv'
  BY <1>11, <1>o DEF Shown, BackedInv, Backed
<1>12. ASSUME NEW p \in Presser, Joined(p) PROVE BackedInv'
  <2>1. shown' = NoEngine /\ engine'.pc # "done"
    BY <1>12, <1>o DEF Joined
  <2> QED
    BY <2>1, NothingIsBacked DEF BackedInv, Backed
<1>13. ASSUME NEW p \in Presser, GuardExpires(p) PROVE BackedInv'
  BY <1>13 DEF GuardExpires, BackedInv, Backed
<1>14. CASE UNCHANGED vars
  BY <1>14 DEF vars, BackedInv, Backed
<1> QED
  BY <1>3, <1>4, <1>5, <1>6, <1>7, <1>8, <1>9, <1>10, <1>11, <1>12, <1>13, <1>14
  DEF Next, EngineStep, PressStep

\* Every figure the board is shown names a query of its citations that was really
\* run, and every digit of its prose is one of its figures.
THEOREM ShownWasMeasured == Spec => []FiguresAreBacked
<1>1. Init => BackedInv
  BY NothingIsBacked DEF Init, Off, BackedInv
<1>2. BackedInv => FiguresAreBacked
  BY DEF BackedInv, Backed, FiguresAreBacked
<1> QED
  BY <1>1, <1>2, InitTyped, NextTyped, BackedNext, PTL DEF Spec
=============================================================================
