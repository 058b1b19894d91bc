------------------------ MODULE JudgeControl_proofs ------------------------
(***************************************************************************)
(* Proofs about JudgeControl: it is type correct, a running worker obeys   *)
(* the newest command it was sent, the page shows the stage that runs,     *)
(* every payment is closed and counted once, the ground-truth record is    *)
(* closed, and a broken payment is not abandoned.  They hold for any       *)
(* merchants, providers, incidents, presses, commands, any length of a     *)
(* spike and any number of attempts.                                       *)
(***************************************************************************)
EXTENDS JudgeControl, WellFoundedInduction, TLAPS

USE ControlAssumption

(***************************************************************************)
(* Type correctness                                                        *)
(***************************************************************************)

LEMMA IncidentForType ==
  \A s \in Stages : CommandFor(s) \in Commands /\ IncidentFor(s) \in Runnable
<1>1. \A s \in Stages \ {"clear"} : IncidentFor(s) \in Incidents /\ WellFormed(IncidentFor(s))
  <2> TAKE s \in Stages \ {"clear"}
  <2>1. IncidentFor(s) \in Pressed
    BY DEF Pressed
  <2>2. IncidentFor(s) = IncidentOf("decline", TargetProvider, Any, ProbabilityFor(s), None)
    BY DEF IncidentFor
  <2>3. ProbabilityFor(s) \in 0..100
    BY DEF ProbabilityFor
  <2>4. IncidentFor(s) \in Incidents
    BY <2>1 DEF Incidents
  <2> QED
    BY <2>2, <2>3, <2>4 DEF WellFormed, IncidentOf, Effects
<1>2. IncidentFor("clear") = None
  BY DEF IncidentFor
<1> QED
  BY <1>1, <1>2 DEF CommandFor, Commands, Runnable

\* Every worker can obey what a press publishes, and runs what it stands for.
LEMMA PressesAreObeyed ==
  ASSUME NEW s \in Stages
  PROVE  /\ CommandFor(s).merchant = Target /\ CommandFor(s).incident = IncidentFor(s)
         /\ CommandFor(s).action = "stop" \/ WellFormed(CommandFor(s).incident)
<1>1. CASE s = "clear"
  BY <1>1 DEF CommandFor, IncidentFor, Stop
<1>2. CASE s # "clear"
  <2>1. IncidentFor(s) = IncidentOf("decline", TargetProvider, Any, ProbabilityFor(s), None)
    BY <1>2 DEF IncidentFor
  <2>2. ProbabilityFor(s) \in 0..100
    BY DEF ProbabilityFor
  <2>3. WellFormed(IncidentFor(s))
    BY <2>1, <2>2 DEF WellFormed, IncidentOf, Effects
  <2> QED
    BY <1>2, <2>3 DEF CommandFor, Start
<1> QED
  BY <1>1, <1>2

LEMMA ResolveType == \A r \in Requests : Resolve(r) \in Stages
  BY DEF Requests, Stages, Resolve

LEMMA DownType == /\ Down \in WorkerState /\ Down.pc = "down"
                  /\ Down.unclosed = 0 /\ Down.unobserved = 0 /\ Down.from = -1 /\ Down.pos = -1
  BY DEF Down, WorkerState, Runnable

LEMMA PaymentsType ==
  ASSUME NEW m \in Merchants, NEW i \in Runnable, NEW spiked \in BOOLEAN
  PROVE  <<m, i, spiked>> \in DOMAIN Payments
  BY DEF Payments

\* What a worker runs after one more command.
LEMMA ObeyType ==
  ASSUME NEW i \in Runnable, NEW c \in Commands PROVE Obey(i, c) \in Runnable
  BY DEF Obey, Runnable, Commands, Start, Stop

LEMMA ObeyExactly ==
  ASSUME NEW i \in Runnable, NEW c \in Commands
  PROVE  Obey(i, c) = IF c.merchant = merchant /\ (c.action = "stop" \/ WellFormed(c.incident))
                      THEN c.incident ELSE i
<1>1. c.action = "stop" => c.incident = None
  BY DEF Commands, Start, Stop
<1>2. c.action # "stop" \/ c.action = "stop"
  OBVIOUS
<1> QED
  BY <1>1, <1>2 DEF Obey

LEMMA BeginType ==
  ASSUME NEW w \in WorkerState, merchant \in Merchants, Begin(w)
  PROVE  /\ worker' \in WorkerState /\ worker'.pc = "sending"
         /\ worker'.from = w.from /\ worker'.pos = w.pos
         /\ worker'.initial = w.initial /\ worker'.incident = w.incident
         /\ worker'.scenario = w.scenario
         /\ worker'.unclosed = w.unclosed /\ worker'.unobserved = w.unobserved
<1>1. PICK c \in Payments[<<merchant, w.incident, FALSE>>], n \in {0, SpikeMultiplier} :
        worker' = [w EXCEPT !.pc = "sending", !.chain = c, !.extra = n]
  BY DEF Begin
<1>2. w.incident \in Runnable
  BY DEF WorkerState
<1>3. c \in UNION {Payments[k] : k \in DOMAIN Payments}
  BY <1>1, <1>2, PaymentsType
<1>4. n \in 0..SpikeMultiplier
  OBVIOUS
<1>5. worker' \in WorkerState
  BY <1>1, <1>3, <1>4 DEF WorkerState, Looping
<1> QED
  BY <1>1, <1>5 DEF WorkerState

LEMMA NextPaymentType ==
  ASSUME NEW w \in WorkerState, merchant \in Merchants, NextPayment(w)
  PROVE  /\ worker' \in WorkerState /\ worker'.pc \in {"top", "sending"}
         /\ worker'.from = w.from /\ worker'.pos = w.pos
         /\ worker'.initial = w.initial /\ worker'.incident = w.incident
         /\ worker'.scenario = w.scenario
         /\ worker'.unclosed = w.unclosed /\ worker'.unobserved = w.unobserved
<1>1. CASE worker' = [w EXCEPT !.pc = "top", !.counted = FALSE]
  BY <1>1 DEF WorkerState, Looping
<1>2. ASSUME w.extra > 0,
             NEW c \in Payments[<<merchant, w.incident, TRUE>>],
             worker' = [w EXCEPT !.pc = "sending", !.chain = c, !.counted = FALSE, !.extra = @ - 1]
      PROVE  /\ worker' \in WorkerState /\ worker'.pc \in {"top", "sending"}
             /\ worker'.from = w.from /\ worker'.pos = w.pos
             /\ worker'.initial = w.initial /\ worker'.incident = w.incident
             /\ worker'.scenario = w.scenario
             /\ worker'.unclosed = w.unclosed /\ worker'.unobserved = w.unobserved
  <2>1. w.incident \in Runnable /\ w.extra - 1 \in 0..SpikeMultiplier
    <3>1. w.incident \in Runnable /\ w.extra \in 0..SpikeMultiplier
      BY DEF WorkerState
    <3> QED
      BY <1>2, <3>1
  <2>2. c \in UNION {Payments[k] : k \in DOMAIN Payments}
    BY <1>2, <2>1, PaymentsType
  <2> QED
    BY <1>2, <2>1, <2>2 DEF WorkerState, Looping
<1> QED
  BY <1>1, <1>2 DEF NextPayment

\* A worker reads the topic from where it was assigned, and never past its end.
Positions ==
  /\ -1 <= worker.from /\ worker.from <= worker.pos /\ worker.pos <= Len(topic)
  /\ worker.from = -1 => worker.pos = -1

LEMMA InitTyped == Init => TypeOK
<1> SUFFICES ASSUME Init PROVE TypeOK
  OBVIOUS
<1>1. topic \in Seq(Commands) /\ inflight \subseteq Commands
  BY DEF Init
<1>2. stage \in Stages /\ settled \in BOOLEAN /\ merchant \in Merchants
  BY DEF Init, Stages
<1>3. press \in [Pressers -> [pc : {"idle", "publishing", "delivered"}, stage : Stages,
                              alone : BOOLEAN]]
  BY DEF Init, Idle, Stages
<1>4. worker \in WorkerState
  BY DownType DEF Init
<1>5. truth \in [state : {"none", "open", "closed"}, lost : {"no", "while recording", "killed"}]
  BY DEF Init, NoTruth
<1> QED
  BY <1>1, <1>2, <1>3, <1>4, <1>5 DEF TypeOK

LEMMA OverlapType ==
  ASSUME TypeOK, NEW ps
  PROVE  Overlap(ps) \in [Pressers -> [pc : {"idle", "publishing", "delivered"}, stage : Stages,
                                       alone : BOOLEAN]]
  BY DEF TypeOK, Overlap

LEMMA AppendType ==
  ASSUME NEW s \in Seq(Commands), NEW c \in Commands
  PROVE  Append(s, c) \in Seq(Commands)
  OBVIOUS

\* The server's steps keep every type.
LEMMA ServerTyped ==
  ASSUME TypeOK,
         \/ \E p \in Pressers : Press(p) \/ Publish(p) \/ PublishFails(p) \/ Remember(p)
         \/ ServerRestarts \/ InjectByHand \/ LateArrival
  PROVE  TypeOK'
<1>t. UNCHANGED <<merchant, worker, truth>> => 
        /\ merchant' \in Merchants /\ worker' \in WorkerState
        /\ truth' \in [state : {"none", "open", "closed"}, lost : {"no", "while recording", "killed"}]
  BY DEF TypeOK
<1> DEFINE Request == [pc : {"idle", "publishing", "delivered"}, stage : Stages, alone : BOOLEAN]
<1>i. Idle \in Request
  BY DEF Idle, Stages
<1>s. topic \in Seq(Commands) /\ inflight \subseteq Commands /\ settled \in BOOLEAN
  BY DEF TypeOK
<1>p. /\ press \in [Pressers -> Request]
      /\ \A p \in Pressers : CommandFor(press[p].stage) \in Commands
  <2>1. press \in [Pressers -> Request]
    BY DEF TypeOK
  <2>2. \A p \in Pressers : press[p].stage \in Stages
    BY <2>1
  <2> QED
    BY <2>1, <2>2, IncidentForType
<1>o. Overlap(Busy) \in [Pressers -> Request]
  BY OverlapType
<1>1. ASSUME NEW p \in Pressers, Press(p) PROVE TypeOK'
  <2>1. PICK r \in Requests :
          press' = [Overlap(Busy) EXCEPT ![p] =
                      [pc |-> "publishing", stage |-> Resolve(r), alone |-> Busy = {}]]
    BY <1>1 DEF Press
  <2>2. [pc |-> "publishing", stage |-> Resolve(r), alone |-> Busy = {}] \in Request
    BY ResolveType
  <2>3. press' \in [Pressers -> Request]
    BY <2>1, <2>2, OverlapType
  <2> QED
    BY <1>1, <1>t, <2>3 DEF Press, TypeOK
<1>2. ASSUME NEW p \in Pressers, Publish(p) PROVE TypeOK'
  <2>1. CommandFor(press[p].stage) \in Commands
    BY <1>p
  <2>2. topic' \in Seq(Commands)
    BY <1>2, <1>s, <2>1, AppendType DEF Publish
  <2>3. press' \in [Pressers -> Request]
    BY <1>2 DEF Publish, TypeOK
  <2> QED
    BY <1>2, <1>t, <2>2, <2>3 DEF Publish, TypeOK
<1>3. ASSUME NEW p \in Pressers, PublishFails(p) PROVE TypeOK'
  <2>1. CommandFor(press[p].stage) \in Commands
    BY <1>p
  <2>2. inflight' \subseteq Commands
    BY <1>3, <2>1 DEF PublishFails, TypeOK
  <2>3. press' \in [Pressers -> Request]
    BY <1>3, <1>i DEF PublishFails, TypeOK
  <2> QED
    BY <1>3, <1>t, <2>2, <2>3 DEF PublishFails, TypeOK
<1>4. ASSUME NEW p \in Pressers, Remember(p) PROVE TypeOK'
  <2>1. stage' \in Stages /\ settled' \in BOOLEAN
    BY <1>4 DEF Remember, TypeOK
  <2>2. press' \in [Pressers -> Request]
    BY <1>4, <1>i DEF Remember, TypeOK
  <2> QED
    BY <1>4, <1>t, <2>1, <2>2 DEF Remember, TypeOK
<1>5. CASE ServerRestarts
  <2>1. stage' \in Stages /\ press' \in [Pressers -> Request]
    BY <1>5, <1>i DEF ServerRestarts, Stages
  <2> QED
    BY <1>5, <1>t, <2>1 DEF ServerRestarts, TypeOK
<1>6. CASE InjectByHand
  <2>0. PICK m \in Merchants :
          \E c \in {Stop(m)} \cup {Start(m, i) : i \in ByHand} : topic' = Append(topic, c)
    BY <1>6 DEF InjectByHand
  <2>1. PICK c \in {Stop(m)} \cup {Start(m, i) : i \in ByHand} : topic' = Append(topic, c)
    BY <2>0
  <2>2. c \in Commands
    BY <2>1 DEF Commands, Incidents
  <2>3. topic' \in Seq(Commands)
    BY <1>s, <2>1, <2>2, AppendType
  <2> QED
    BY <1>6, <1>t, <2>3, OverlapType DEF InjectByHand, TypeOK
<1>7. CASE LateArrival
  <2>1. PICK c \in inflight :
          /\ inflight' = inflight \ {c}
          /\ \/ topic' = Append(topic, c) /\ settled' = FALSE /\ press' = Overlap(Busy)
             \/ UNCHANGED <<topic, settled, press>>
          /\ UNCHANGED <<stage, merchant, worker, truth>>
    BY <1>7 DEF LateArrival
  <2>2. topic' \in Seq(Commands) /\ inflight' \subseteq Commands
    BY <1>s, <2>1, AppendType
  <2>3. settled' \in BOOLEAN /\ press' \in [Pressers -> Request]
    BY <1>o, <1>p, <1>s, <2>1
  <2> QED
    BY <1>t, <2>1, <2>2, <2>3 DEF TypeOK
<1> QED
  BY <1>1, <1>2, <1>3, <1>4, <1>5, <1>6, <1>7

\* What TypeOK needs of a step of the worker.
LEMMA WorkerFrame ==
  ASSUME TypeOK, UNCHANGED <<control, merchant>>, worker' \in WorkerState,
         truth' \in [state : {"none", "open", "closed"}, lost : {"no", "while recording", "killed"}]
  PROVE  TypeOK'
  BY DEF TypeOK, control

LEMMA LoopTyped ==
  ASSUME TypeOK, Positions,
         Arm \/ Assign \/ Tick \/ TickHearing \/ SendAttempts \/ SendClosed \/ Observe
  PROVE  worker' \in WorkerState /\ Positions' /\ UNCHANGED <<control, merchant, truth>>
<1>0. worker \in WorkerState /\ merchant \in Merchants /\ topic \in Seq(Commands)
  BY DEF TypeOK
<1>w. /\ worker.incident \in Runnable /\ worker.pos \in Int /\ worker.from \in Int
      /\ worker.unclosed \in Int /\ worker.unobserved \in Int
  BY <1>0 DEF WorkerState
<1>l. Len(topic) \in Nat
  BY <1>0
<1>k. ASSUME UNCHANGED topic, worker'.from = worker.from, worker'.pos = worker.pos
      PROVE  Positions'
  BY <1>k DEF Positions
<1>1. CASE Arm
  <2>1. worker' = [worker EXCEPT !.pc = "top"] /\ UNCHANGED <<control, merchant, truth>>
    BY <1>1 DEF Arm
  <2>2. worker' \in WorkerState /\ worker'.from = worker.from /\ worker'.pos = worker.pos
    BY <1>0, <2>1 DEF WorkerState, Looping
  <2> QED
    BY <1>k, <2>1, <2>2 DEF control
<1>2. CASE Assign
  <2>1. /\ worker' = [worker EXCEPT !.from = Len(topic), !.pos = Len(topic)]
        /\ UNCHANGED <<control, merchant, truth>>
    BY <1>2 DEF Assign
  <2>2. Len(topic) \in Int
    BY <1>l
  <2>3. worker' \in WorkerState /\ worker'.from = Len(topic) /\ worker'.pos = Len(topic)
    BY <1>0, <2>1, <2>2 DEF WorkerState
  <2>4. Positions'
    BY <1>l, <2>1, <2>3 DEF Positions, control
  <2> QED
    BY <2>1, <2>3, <2>4
<1>3. CASE Tick
  <2>1. Begin(worker) /\ UNCHANGED <<control, merchant, truth>>
    BY <1>3 DEF Tick
  <2> QED
    BY <1>0, <1>k, <2>1, BeginType DEF control
<1>4. CASE TickHearing
  <2> DEFINE w == [worker EXCEPT !.pos = @ + 1, !.incident = Obey(@, topic[worker.pos + 1])]
  <2>1. /\ worker.from >= 0 /\ worker.pos < Len(topic) /\ Begin(w)
        /\ UNCHANGED <<control, merchant, truth>>
    BY <1>4 DEF TickHearing
  <2>2. worker.pos + 1 \in 1..Len(topic) /\ worker.pos + 1 \in Int
    BY <1>w, <1>l, <2>1 DEF Positions
  <2>3. topic[worker.pos + 1] \in Commands
    BY <1>0, <2>2
  <2>4. Obey(worker.incident, topic[worker.pos + 1]) \in Runnable
    BY <1>w, <2>3, ObeyType
  <2>5. w \in WorkerState /\ w.from = worker.from /\ w.pos = worker.pos + 1
    BY <1>0, <2>2, <2>4 DEF WorkerState
  <2>6. /\ worker' \in WorkerState
        /\ worker'.from = worker.from /\ worker'.pos = worker.pos + 1
    BY <1>0, <2>1, <2>5, BeginType
  <2>7. Positions'
    BY <1>w, <1>l, <2>1, <2>6 DEF Positions, control
  <2> QED
    BY <2>1, <2>6, <2>7
<1>5. CASE SendAttempts
  <2>1. /\ worker' = [worker EXCEPT !.pc = "closing", !.unclosed = @ + 1,
                                    !.chain = <<>>, !.counted = InCohort(worker.chain)]
        /\ UNCHANGED <<control, merchant, truth>>
    BY <1>5 DEF SendAttempts
  <2>2. InCohort(worker.chain) \in BOOLEAN /\ worker.unclosed + 1 \in Int
    BY <1>w DEF InCohort
  <2>3. worker' \in WorkerState /\ worker'.from = worker.from /\ worker'.pos = worker.pos
    BY <1>0, <2>1, <2>2 DEF WorkerState, Looping
  <2> QED
    BY <1>k, <2>1, <2>3 DEF control
<1>6. CASE SendClosed
  <2>1. PICK n \in {0, 1} : worker' = [worker EXCEPT !.pc = "observing", !.unclosed = @ - 1,
                                                     !.unobserved = @ + n]
    BY <1>6 DEF SendClosed
  <2>2. worker.unclosed - 1 \in Int /\ worker.unobserved + n \in Int
    BY <1>w
  <2>3. worker' \in WorkerState /\ worker'.from = worker.from /\ worker'.pos = worker.pos
    BY <1>0, <2>1, <2>2 DEF WorkerState, Looping
  <2> QED
    BY <1>6, <1>k, <2>3 DEF SendClosed, control
<1>7. CASE Observe
  <2>1. PICK n \in {0, 1} : NextPayment([worker EXCEPT !.unobserved = @ - n])
    BY <1>7 DEF Observe
  <2> DEFINE w == [worker EXCEPT !.unobserved = @ - n]
  <2>2. worker.unobserved - n \in Int
    BY <1>w
  <2>3. w \in WorkerState /\ w.from = worker.from /\ w.pos = worker.pos
    BY <1>0, <2>2 DEF WorkerState
  <2>4. worker' \in WorkerState /\ worker'.from = worker.from /\ worker'.pos = worker.pos
    BY <1>0, <2>1, <2>3, NextPaymentType
  <2> QED
    BY <1>7, <1>k, <2>4 DEF Observe, control
<1> QED
  BY <1>1, <1>2, <1>3, <1>4, <1>5, <1>6, <1>7

\* What a start and the steps of a shutdown leave of the worker and its record.
LEMMA ExitTyped ==
  ASSUME TypeOK, Positions,
         Boot \/ Unwind \/ Flush \/ Detach \/ Record \/ RecordFails \/ Killed
  PROVE  TypeOK' /\ Positions'
<1>0. /\ worker \in WorkerState /\ topic \in Seq(Commands)
      /\ truth \in [state : {"none", "open", "closed"}, lost : {"no", "while recording", "killed"}]
  BY DEF TypeOK
<1>w. worker.unclosed \in Int /\ worker.unobserved \in Int /\ worker.scenario \in Runnable
  BY <1>0 DEF WorkerState
<1>l. Len(topic) \in Nat
  <2>1. topic \in Seq(Commands)
    BY <1>0
  <2> QED
    BY <2>1
<1>k. ASSUME UNCHANGED topic, worker'.from = -1, worker'.pos = -1 PROVE Positions'
  BY <1>k, <1>l DEF Positions
<1>1. CASE Boot
  <2>1. PICK s \in Scenarios[merchant] \cup {None} :
          \E flags \in {i \in ByHand : WellFormed(i)} \cup {None} :
            LET initial == IF s # None THEN s ELSE flags IN
            /\ worker' = [Down EXCEPT !.pc = "starting", !.initial = initial,
                                      !.incident = initial, !.scenario = s]
            /\ truth' = IF s = None THEN NoTruth ELSE [state |-> "open", lost |-> "no"]
    BY <1>1 DEF Boot
  <2>2. PICK flags \in {i \in ByHand : WellFormed(i)} \cup {None} :
            LET initial == IF s # None THEN s ELSE flags IN
            /\ worker' = [Down EXCEPT !.pc = "starting", !.initial = initial,
                                      !.incident = initial, !.scenario = s]
            /\ truth' = IF s = None THEN NoTruth ELSE [state |-> "open", lost |-> "no"]
    BY <2>1
  <2>3. s \in Runnable /\ flags \in Runnable
    <3>1. merchant \in Merchants
      BY DEF TypeOK
    <3>2. s # None => s \in Incidents /\ WellFormed(s)
      BY <3>1, <2>1 DEF Incidents, ControlAssumption
    <3>3. flags # None => flags \in Incidents /\ WellFormed(flags)
      BY <2>2 DEF Incidents
    <3> QED
      BY <3>2, <3>3 DEF Runnable
  <2>4. worker' \in WorkerState /\ worker'.from = -1 /\ worker'.pos = -1
    BY <2>2, <2>3, DownType DEF WorkerState
  <2>5. truth' \in [state : {"none", "open", "closed"},
                    lost : {"no", "while recording", "killed"}]
    BY <2>2 DEF NoTruth
  <2> QED
    BY <1>1, <1>k, <2>4, <2>5, WorkerFrame DEF Boot, control
<1>2. CASE Unwind
  <2>1. PICK partly \in {0, 1} :
          worker' = [Down EXCEPT !.pc = "flushing", !.scenario = worker.scenario,
                                 !.unclosed = worker.unclosed + partly,
                                 !.unobserved = worker.unobserved]
    BY <1>2 DEF Unwind
  <2>2. worker.unclosed + partly \in Int
    BY <1>w
  <2>3. worker' \in WorkerState /\ worker'.from = -1 /\ worker'.pos = -1
    BY <1>w, <2>1, <2>2, DownType DEF WorkerState, Leaving
  <2> QED
    BY <1>0, <1>2, <1>k, <2>3, WorkerFrame DEF Unwind, control
<1>3. CASE Flush \/ Detach
  <2>1. /\ worker' \in WorkerState /\ UNCHANGED <<control, merchant, truth>>
        /\ worker'.from = worker.from /\ worker'.pos = worker.pos
    BY <1>0, <1>3 DEF Flush, Detach, WorkerState, Leaving
  <2>2. Positions'
    BY <2>1 DEF Positions, control
  <2> QED
    BY <1>0, <2>1, <2>2, WorkerFrame
<1>4. CASE Record \/ RecordFails \/ Killed
  <2>1. /\ worker' = Down /\ UNCHANGED <<control, merchant>>
        /\ truth' \in [state : {"none", "open", "closed"},
                        lost : {"no", "while recording", "killed"}]
    BY <1>0, <1>4 DEF Record, RecordFails, Killed
  <2> QED
    BY <1>k, <2>1, WorkerFrame, DownType DEF control
<1> QED
  BY <1>1, <1>2, <1>3, <1>4

\* The topic only grows, and the server does not touch the worker.
LEMMA ServerFrame ==
  ASSUME TypeOK,
         \/ \E p \in Pressers : Press(p) \/ Publish(p) \/ PublishFails(p) \/ Remember(p)
         \/ ServerRestarts \/ InjectByHand \/ LateArrival
  PROVE  /\ UNCHANGED <<merchant, worker, truth>>
         /\ topic' = topic \/ \E c \in Commands : topic' = Append(topic, c)
<1>1. ASSUME NEW p \in Pressers, Publish(p)
      PROVE  UNCHANGED <<merchant, worker, truth>>
             /\ \E c \in Commands : topic' = Append(topic, c)
  <2>1. press[p].stage \in Stages
    BY DEF TypeOK
  <2> QED
    BY <1>1, <2>1, IncidentForType DEF Publish
<1>2. ASSUME InjectByHand
      PROVE  UNCHANGED <<merchant, worker, truth>>
             /\ \E c \in Commands : topic' = Append(topic, c)
  <2>1. PICK m \in Merchants :
          \E c \in {Stop(m)} \cup {Start(m, i) : i \in ByHand} : topic' = Append(topic, c)
    BY <1>2 DEF InjectByHand
  <2>2. PICK c \in {Stop(m)} \cup {Start(m, i) : i \in ByHand} : topic' = Append(topic, c)
    BY <2>1
  <2>3. c \in Commands
    BY <2>2 DEF Commands, Incidents
  <2> QED
    BY <1>2, <2>2, <2>3 DEF InjectByHand
<1>3. ASSUME LateArrival
      PROVE  /\ UNCHANGED <<merchant, worker, truth>>
             /\ topic' = topic \/ \E c \in Commands : topic' = Append(topic, c)
  <2>1. PICK c \in inflight : topic' = Append(topic, c) \/ topic' = topic
    BY <1>3 DEF LateArrival
  <2>2. c \in Commands
    BY DEF TypeOK
  <2> QED
    BY <1>3, <2>1, <2>2 DEF LateArrival
<1>4. ASSUME NEW p \in Pressers, Press(p) \/ PublishFails(p) \/ Remember(p)
      PROVE  UNCHANGED <<topic, merchant, worker, truth>>
  BY <1>4 DEF Press, PublishFails, Remember
<1>5. ASSUME ServerRestarts PROVE UNCHANGED <<topic, merchant, worker, truth>>
  BY <1>5 DEF ServerRestarts
<1> QED
  BY <1>1, <1>2, <1>3, <1>4, <1>5

Typed == TypeOK /\ Positions

LEMMA NextTyped == Typed /\ [Next]_vars => Typed'
<1> SUFFICES ASSUME TypeOK, Positions, [Next]_vars PROVE TypeOK' /\ Positions'
  BY DEF Typed
<1>1. CASE \/ \E p \in Pressers : Press(p) \/ Publish(p) \/ PublishFails(p) \/ Remember(p)
           \/ ServerRestarts \/ InjectByHand \/ LateArrival
  <2>1. TypeOK'
    BY <1>1, ServerTyped
  <2>2. UNCHANGED worker /\ (topic' = topic \/ \E c \in Commands : topic' = Append(topic, c))
    BY <1>1, ServerFrame
  <2>3. topic \in Seq(Commands) /\ worker.pos \in Int
    BY DEF TypeOK, WorkerState
  <2>4. Len(topic) <= Len(topic') /\ Len(topic) \in Nat /\ Len(topic') \in Nat
    BY <2>2, <2>3
  <2>5. Positions'
    BY <2>2, <2>3, <2>4 DEF Positions
  <2> QED
    BY <2>1, <2>5
<1>2. CASE Arm \/ Assign \/ Tick \/ TickHearing \/ SendAttempts \/ SendClosed \/ Observe
  <2>1. worker' \in WorkerState /\ Positions' /\ UNCHANGED <<control, merchant, truth>>
    BY <1>2, LoopTyped
  <2>2. truth \in [state : {"none", "open", "closed"}, lost : {"no", "while recording", "killed"}]
    BY DEF TypeOK
  <2> QED
    BY <2>1, <2>2, WorkerFrame
<1>3. CASE Boot \/ Unwind \/ Flush \/ Detach \/ Record \/ RecordFails \/ Killed
  BY <1>3, ExitTyped
<1>4. CASE UNCHANGED vars
  BY <1>4 DEF vars, control, TypeOK, Positions
<1> QED
  BY <1>1, <1>2, <1>3, <1>4 DEF Next, WorkerStep

LEMMA AlwaysTyped == Spec => []Typed
<1>1. Init => Typed
  <2>1. ASSUME Init PROVE Positions
    BY <2>1, DownType DEF Init, Positions
  <2> QED
    BY <2>1, InitTyped DEF Typed
<1> QED
  BY <1>1, NextTyped, PTL DEF Spec

\* Every variable keeps its type: a worker only takes up well-formed incidents
\* and only sends chains build_chain can return.
THEOREM TypeCorrect == Spec => []TypeOK
<1>1. Typed => TypeOK
  BY DEF Typed
<1> QED
  BY <1>1, AlwaysTyped, PTL

(***************************************************************************)
(* Payments are closed and counted                                         *)
(***************************************************************************)

\* What a worker owes at each point of its loop; a shutdown keeps it.
Books ==
  /\ worker.unclosed \in {0, 1} /\ worker.unobserved \in {0, 1}
  /\ worker.pc = "closing" => worker.unclosed = 1
  /\ worker.pc \in {"down", "starting", "top", "sending", "observing"} => worker.unclosed = 0
  /\ worker.pc = "observing" => worker.unobserved = IF worker.counted THEN 1 ELSE 0
  /\ worker.pc \in {"down", "starting", "top", "sending", "closing"} => worker.unobserved = 0

LEMMA LoopBooks ==
  ASSUME TypeOK, Books,
         Arm \/ Assign \/ Tick \/ TickHearing \/ SendAttempts \/ SendClosed \/ Observe
  PROVE  Books'
<1>0. worker \in WorkerState /\ merchant \in Merchants /\ topic \in Seq(Commands)
  BY DEF TypeOK
<1>w. /\ worker.incident \in Runnable /\ worker.pos \in Int
      /\ worker.unclosed \in Int /\ worker.unobserved \in Int /\ worker.counted \in BOOLEAN
  BY <1>0 DEF WorkerState
<1>1. CASE Arm
  BY <1>0, <1>1 DEF Arm, WorkerState, Books
<1>2. CASE Assign
  BY <1>0, <1>2 DEF Assign, WorkerState, Books
<1>b. ASSUME worker.pc = "top", worker'.pc = "sending", worker'.unclosed = worker.unclosed,
             worker'.unobserved = worker.unobserved
      PROVE  Books'
  BY <1>b DEF Books
<1>3. CASE Tick
  BY <1>0, <1>b, <1>3, BeginType DEF Tick
<1>4. CASE TickHearing
  <2> DEFINE w == [worker EXCEPT !.pos = @ + 1, !.incident = Obey(@, topic[worker.pos + 1])]
  <2>1. worker.pc = "top" /\ \E c, n : worker' = [w EXCEPT !.pc = "sending", !.chain = c,
                                                            !.extra = n]
    BY <1>4 DEF TickHearing, Begin
  <2>2. /\ worker'.pc = "sending" /\ worker'.unclosed = worker.unclosed
        /\ worker'.unobserved = worker.unobserved
    BY <1>0, <2>1 DEF WorkerState
  <2> QED
    BY <1>b, <2>1, <2>2
<1>5. CASE SendAttempts
  <2>1. /\ worker.pc = "sending" /\ worker'.pc = "closing"
        /\ worker'.unclosed = worker.unclosed + 1 /\ worker'.unobserved = worker.unobserved
    BY <1>0, <1>5 DEF SendAttempts, WorkerState
  <2> QED
    BY <1>w, <2>1 DEF Books
<1>6. CASE SendClosed
  <2>1. /\ worker.pc = "closing" /\ worker'.pc = "observing"
        /\ worker'.unclosed = worker.unclosed - 1 /\ worker'.counted = worker.counted
        /\ worker'.unobserved = worker.unobserved + IF worker.counted THEN 1 ELSE 0
    BY <1>0, <1>6 DEF SendClosed, WorkerState
  <2> QED
    BY <1>w, <2>1 DEF Books
<1>7. CASE Observe
  <2> DEFINE n == IF worker.counted THEN 1 ELSE 0
             w == [worker EXCEPT !.unobserved = @ - n]
  <2>1. worker.pc = "observing" /\ NextPayment(w)
    BY <1>7 DEF Observe
  <2>2. worker.unobserved - n \in Int
    BY <1>w
  <2>3. w \in WorkerState /\ w.unclosed = worker.unclosed /\ w.unobserved = worker.unobserved - n
    BY <1>0, <2>2 DEF WorkerState
  <2>4. /\ worker'.pc \in {"top", "sending"} /\ worker'.unclosed = worker.unclosed
        /\ worker'.unobserved = worker.unobserved - n
    BY <1>0, <2>1, <2>3, NextPaymentType
  <2> QED
    BY <1>w, <2>1, <2>4 DEF Books
<1> QED
  BY <1>1, <1>2, <1>3, <1>4, <1>5, <1>6, <1>7

LEMMA ExitBooks ==
  ASSUME TypeOK, Books,
         Boot \/ Unwind \/ Flush \/ Detach \/ Record \/ RecordFails \/ Killed
  PROVE  Books'
<1>0. worker \in WorkerState
  BY DEF TypeOK
<1>w. worker.unclosed \in Int /\ worker.unobserved \in Int
  BY <1>0 DEF WorkerState
<1>1. CASE Boot
  <2>1. \E i, s : worker' = [Down EXCEPT !.pc = "starting", !.initial = i, !.incident = i,
                                        !.scenario = s]
    BY <1>1 DEF Boot
  <2>2. worker'.pc = "starting" /\ worker'.unclosed = 0 /\ worker'.unobserved = 0
    BY <2>1 DEF Down
  <2> QED
    BY <2>2 DEF Books
<1>2. CASE Unwind
  <2>1. PICK partly \in {0, 1} :
          /\ partly = 1 => worker.pc = "sending"
          /\ worker' = [Down EXCEPT !.pc = "flushing", !.scenario = worker.scenario,
                                    !.unclosed = worker.unclosed + partly,
                                    !.unobserved = worker.unobserved]
    <3>1. PICK n \in IF worker.pc = "sending" THEN {0, 1} ELSE {0} :
            worker' = [Down EXCEPT !.pc = "flushing", !.scenario = worker.scenario,
                                   !.unclosed = worker.unclosed + n,
                                   !.unobserved = worker.unobserved]
      BY <1>2 DEF Unwind
    <3>2. n \in {0, 1} /\ (n = 1 => worker.pc = "sending")
      OBVIOUS
    <3> QED
      BY <3>1, <3>2
  <2>2. /\ worker'.pc = "flushing" /\ worker'.unclosed = worker.unclosed + partly
        /\ worker'.unobserved = worker.unobserved
    BY <2>1 DEF Down
  <2> QED
    BY <1>w, <2>1, <2>2 DEF Books
<1>3. CASE Flush \/ Detach
  <2>1. /\ worker'.pc \in {"detaching", "recording"} /\ worker'.unclosed = worker.unclosed
        /\ worker'.unobserved = worker.unobserved
    BY <1>0, <1>3 DEF Flush, Detach, WorkerState
  <2> QED
    BY <2>1 DEF Books
<1>4. CASE Record \/ RecordFails \/ Killed
  <2>1. worker' = Down
    BY <1>4 DEF Record, RecordFails, Killed
  <2> QED
    BY <2>1, DownType DEF Books
<1> QED
  BY <1>1, <1>2, <1>3, <1>4

\* Every payment that went out is closed once and, when it is the scenario's,
\* counted once, and a stop cuts off at most the one under way.
THEOREM PaymentsAccountedFor == Spec => []PaymentsAreAccountedFor
<1>1. Init => Books
  BY DownType DEF Init, Books
<1>2. Typed /\ Books /\ [Next]_vars => Books'
  <2> SUFFICES ASSUME TypeOK, Books, [Next]_vars PROVE Books'
    BY DEF Typed
  <2>1. CASE \/ \E p \in Pressers : Press(p) \/ Publish(p) \/ PublishFails(p) \/ Remember(p)
             \/ ServerRestarts \/ InjectByHand \/ LateArrival
    <3>1. UNCHANGED worker
      BY <2>1, ServerFrame
    <3> QED
      BY <3>1 DEF Books
  <2>2. CASE Arm \/ Assign \/ Tick \/ TickHearing \/ SendAttempts \/ SendClosed \/ Observe
    BY <2>2, LoopBooks
  <2>3. CASE Boot \/ Unwind \/ Flush \/ Detach \/ Record \/ RecordFails \/ Killed
    BY <2>3, ExitBooks
  <2>4. CASE UNCHANGED vars
    BY <2>4 DEF vars, Books
  <2> QED
    BY <2>1, <2>2, <2>3, <2>4 DEF Next, WorkerStep
<1>3. Books => PaymentsAreAccountedFor
  BY DEF Books, PaymentsAreAccountedFor
<1> QED
  BY <1>1, <1>2, <1>3, AlwaysTyped, PTL DEF Spec

(***************************************************************************)
(* The ground-truth record is closed                                       *)
(***************************************************************************)

\* An open record has a running scenario to close it, or was lost for a reason.
Recorded ==
  truth.state = "open" => IF worker.pc = "down" THEN truth.lost # "no" ELSE worker.scenario # None

\* The loop carries its scenario.
LEMMA LoopKeepsScenario ==
  ASSUME TypeOK, Positions,
         Arm \/ Assign \/ Tick \/ TickHearing \/ SendAttempts \/ SendClosed \/ Observe
  PROVE  worker.pc # "down" /\ worker'.pc # "down" /\ worker'.scenario = worker.scenario
<1>0. worker \in WorkerState /\ merchant \in Merchants
  BY DEF TypeOK
<1>1. CASE Arm \/ Assign \/ SendAttempts \/ SendClosed
  BY <1>0, <1>1 DEF Arm, Assign, SendAttempts, SendClosed, WorkerState, Looping
<1>2. CASE Tick
  BY <1>0, <1>2, BeginType DEF Tick
<1>3. CASE TickHearing
  <2> DEFINE w == [worker EXCEPT !.pos = @ + 1, !.incident = Obey(@, topic[worker.pos + 1])]
  <2>1. worker.pc = "top" /\ \E c, n : worker' = [w EXCEPT !.pc = "sending", !.chain = c,
                                                            !.extra = n]
    BY <1>3 DEF TickHearing, Begin
  <2> QED
    BY <1>0, <2>1 DEF WorkerState
<1>4. CASE Observe
  <2>1. PICK n \in {0, 1} : NextPayment([worker EXCEPT !.unobserved = @ - n])
    BY <1>4 DEF Observe
  <2> DEFINE w == [worker EXCEPT !.unobserved = @ - n]
  <2>2. \/ worker' = [w EXCEPT !.pc = "top", !.counted = FALSE]
        \/ \E c : worker' = [w EXCEPT !.pc = "sending", !.chain = c, !.counted = FALSE,
                                      !.extra = @ - 1]
    BY <2>1 DEF NextPayment
  <2>3. worker'.pc \in {"top", "sending"} /\ worker'.scenario = worker.scenario
    BY <1>0, <2>2 DEF WorkerState
  <2> QED
    BY <1>4, <2>3 DEF Observe
<1> QED
  BY <1>1, <1>2, <1>3, <1>4

\* A process that is gone has closed the record it opened, unless it was killed or
\* the write of the observation itself failed.
THEOREM TruthClosed == Spec => []TruthIsClosed
<1>1. Init => Recorded
  BY DEF Init, Recorded, NoTruth
<1>2. Typed /\ Recorded /\ [Next]_vars => Recorded'
  <2> SUFFICES ASSUME TypeOK, Positions, Recorded, [Next]_vars PROVE Recorded'
    BY DEF Typed
  <2>0. /\ worker \in WorkerState
        /\ truth \in [state : {"none", "open", "closed"}, lost : {"no", "while recording", "killed"}]
    BY DEF TypeOK
  <2>1. CASE \/ \E p \in Pressers : Press(p) \/ Publish(p) \/ PublishFails(p) \/ Remember(p)
             \/ ServerRestarts \/ InjectByHand \/ LateArrival
    <3>1. UNCHANGED <<worker, truth>>
      BY <2>1, ServerFrame
    <3> QED
      BY <3>1 DEF Recorded
  <2>2. CASE Arm \/ Assign \/ Tick \/ TickHearing \/ SendAttempts \/ SendClosed \/ Observe
    <3>1. UNCHANGED truth
      BY <2>2, LoopTyped
    <3>2. worker.pc # "down" /\ worker'.pc # "down" /\ worker'.scenario = worker.scenario
      BY <2>2, LoopKeepsScenario
    <3> QED
      BY <3>1, <3>2 DEF Recorded
  <2>3. CASE Boot
    <3>1. PICK s \in Scenarios[merchant] \cup {None} :
            /\ \E i : worker' = [Down EXCEPT !.pc = "starting", !.initial = i, !.incident = i,
                                             !.scenario = s]
            /\ truth' = IF s = None THEN NoTruth ELSE [state |-> "open", lost |-> "no"]
      BY <2>3 DEF Boot
    <3>2. worker'.pc = "starting" /\ worker'.scenario = s
      BY <3>1 DEF Down
    <3> QED
      BY <3>1, <3>2 DEF Recorded, NoTruth
  <2>4. CASE Unwind
    <3>1. /\ worker.pc # "down" /\ worker'.pc = "flushing"
          /\ worker'.scenario = worker.scenario /\ UNCHANGED truth
      BY <2>4 DEF Unwind, Looping, Down
    <3> QED
      BY <3>1 DEF Recorded
  <2>5. CASE Flush \/ Detach
    <3>1. /\ worker.pc # "down" /\ worker'.pc # "down"
          /\ worker'.scenario = worker.scenario /\ UNCHANGED truth
      BY <2>0, <2>5 DEF Flush, Detach, WorkerState
    <3> QED
      BY <3>1 DEF Recorded
  <2>6. CASE Record
    <3>1. /\ worker.pc # "down" /\ worker'.pc = "down"
          /\ truth' = IF worker.scenario = None THEN truth ELSE [truth EXCEPT !.state = "closed"]
      BY <2>6 DEF Record, Down
    <3>2. truth'.state = "open" => worker.scenario = None /\ truth.state = "open"
      BY <2>0, <3>1
    <3> QED
      BY <3>1, <3>2 DEF Recorded
  <2>7. CASE RecordFails \/ Killed
    <3>1. worker'.pc = "down"
      <4>1. worker' = Down
        BY <2>7 DEF RecordFails, Killed
      <4> QED
        BY <4>1, DownType
    <3>2. CASE RecordFails
      <4>1. truth' = [truth EXCEPT !.lost = "while recording"]
        BY <3>2 DEF RecordFails
      <4>2. truth'.lost = "while recording"
        BY <2>0, <4>1
      <4> QED
        BY <3>1, <4>2 DEF Recorded
    <3>3. CASE Killed
      <4>1. truth' = IF truth.state = "open" THEN [truth EXCEPT !.lost = "killed"] ELSE truth
        BY <3>3 DEF Killed
      <4>2. truth'.state = "open" => truth'.lost = "killed"
        BY <2>0, <4>1
      <4> QED
        BY <3>1, <4>2 DEF Recorded
    <3> QED
      BY <2>7, <3>2, <3>3
  <2>8. CASE UNCHANGED vars
    BY <2>8 DEF vars, Recorded
  <2> QED
    BY <2>1, <2>2, <2>3, <2>4, <2>5, <2>6, <2>7, <2>8 DEF Next, WorkerStep
<1>3. Recorded => TruthIsClosed
  BY DEF Recorded, TruthIsClosed, Up
<1> QED
  BY <1>1, <1>2, <1>3, AlwaysTyped, PTL DEF Spec

(***************************************************************************)
(* The newest command rules                                                *)
(***************************************************************************)

\* What a worker runs, as a bound on what it has heard.
Obeyed ==
  worker.pc \in Looping \cup {"starting"} =>
    /\ worker.pc = "starting" => worker.from = -1
    /\ Heard = {} => worker.incident = worker.initial
    /\ Heard # {} => \E k \in Heard : /\ \A j \in Heard : j <= k
                                     /\ worker.incident = topic[k].incident

LEMMA HeardType ==
  ASSUME TypeOK, Positions
  PROVE  /\ Heard \subseteq 1..Len(topic)
         /\ worker.from = -1 => Heard = {}
<1>1. worker.from \in Int /\ worker.pos \in Int
  BY DEF TypeOK, WorkerState
<1>2. Len(topic) \in Nat
  <2>1. topic \in Seq(Commands)
    BY DEF TypeOK
  <2> QED
    BY <2>1
<1> QED
  BY <1>1, <1>2 DEF Heard, Positions

\* What was heard does not change while the worker reads nothing more.
LEMMA HeardStays ==
  ASSUME TypeOK, Positions, UNCHANGED merchant,
         worker'.from = worker.from, worker'.pos = worker.pos,
         topic' = topic \/ \E c \in Commands : topic' = Append(topic, c)
  PROVE  Heard' = Heard /\ \A k \in Heard : topic'[k] = topic[k]
<1>1. topic \in Seq(Commands)
  BY DEF TypeOK
<1>2. \A k \in 1..Len(topic) : topic'[k] = topic[k]
  BY <1>1
<1>3. \A k \in (worker.from + 1)..worker.pos : k \in 1..Len(topic)
  <2>1. worker.from \in Int /\ worker.pos \in Int /\ Len(topic) \in Nat
    <3>1. worker.from \in Int /\ worker.pos \in Int
      BY DEF TypeOK, WorkerState
    <3> QED
      BY <1>1, <3>1
  <2> QED
    BY <2>1 DEF Positions
<1>4. Heard' = Heard
  BY <1>2, <1>3 DEF Heard
<1> QED
  BY <1>2, <1>4, HeardType

\* A step that reads nothing and starts or changes no incident keeps it.
LEMMA ObeyedStays ==
  ASSUME TypeOK, Positions, Obeyed, UNCHANGED merchant,
         worker'.from = worker.from, worker'.pos = worker.pos,
         worker'.incident = worker.incident, worker'.initial = worker.initial,
         worker.pc \in Looping \cup {"starting"} \/ worker'.pc \notin Looping \cup {"starting"},
         worker'.pc = "starting" => worker.pc = "starting",
         topic' = topic \/ \E c \in Commands : topic' = Append(topic, c)
  PROVE  Obeyed'
<1>1. Heard' = Heard /\ \A k \in Heard : topic'[k] = topic[k]
  BY HeardStays
<1>2. CASE worker.pc \in Looping \cup {"starting"}
  <2>1. worker'.pc = "starting" => worker'.from = -1
    BY <1>2 DEF Obeyed
  <2>2. Heard' = {} => worker'.incident = worker'.initial
    BY <1>1, <1>2 DEF Obeyed
  <2>3. ASSUME Heard' # {}
        PROVE  \E k \in Heard' : (\A j \in Heard' : j <= k) /\ worker'.incident = topic'[k].incident
    <3>1. PICK k \in Heard : (\A j \in Heard : j <= k) /\ worker.incident = topic[k].incident
      BY <1>1, <1>2, <2>3 DEF Obeyed
    <3> QED
      BY <1>1, <3>1
  <2> QED
    BY <2>1, <2>2, <2>3 DEF Obeyed
<1>3. CASE worker'.pc \notin Looping \cup {"starting"}
  BY <1>3 DEF Obeyed
<1> QED
  BY <1>2, <1>3

\* One more message: the worker obeys it, or it is not heard.
LEMMA HearingObeys ==
  ASSUME TypeOK, Positions, Obeyed, TickHearing PROVE Obeyed'
<1> DEFINE n == worker.pos + 1
           c == topic[n]
           w == [worker EXCEPT !.pos = @ + 1, !.incident = Obey(@, topic[worker.pos + 1])]
<1>0. worker \in WorkerState /\ topic \in Seq(Commands)
  BY DEF TypeOK
<1>w. /\ worker.pos \in Int /\ worker.from \in Int /\ Len(topic) \in Nat
      /\ worker.incident \in Runnable
  <2>1. worker.pos \in Int /\ worker.from \in Int /\ worker.incident \in Runnable
    BY <1>0 DEF WorkerState
  <2> QED
    BY <1>0, <2>1
<1>1. /\ worker.pc = "top" /\ worker.from >= 0 /\ worker.pos < Len(topic)
      /\ UNCHANGED <<topic, merchant>>
      /\ \E ch, x : worker' = [w EXCEPT !.pc = "sending", !.chain = ch, !.extra = x]
  BY DEF TickHearing, Begin, control
<1>2. n \in 1..Len(topic) /\ worker.from <= worker.pos
  BY <1>w, <1>1 DEF Positions
<1>3. c \in Commands
  BY <1>0, <1>2
<1>4. /\ worker'.pc = "sending" /\ worker'.from = worker.from /\ worker'.pos = n
      /\ worker'.initial = worker.initial /\ worker'.incident = Obey(worker.incident, c)
  BY <1>0, <1>1 DEF WorkerState
<1> DEFINE obeys == c.merchant = merchant /\ (c.action = "stop" \/ WellFormed(c.incident))
<1>5. Heard' = IF obeys THEN Heard \cup {n} ELSE Heard
  <2>1. (worker'.from + 1)..worker'.pos = ((worker.from + 1)..worker.pos) \cup {n}
    BY <1>w, <1>2, <1>4
  <2> HIDE DEF n
  <2>2. Heard' = {k \in ((worker.from + 1)..worker.pos) \cup {n} :
                    topic[k].merchant = merchant
                    /\ (topic[k].action = "stop" \/ WellFormed(topic[k].incident))}
    BY <1>1, <2>1 DEF Heard
  <2>3. CASE obeys
    BY <2>2, <2>3 DEF Heard
  <2>4. CASE ~obeys
    BY <2>2, <2>4 DEF Heard
  <2> QED
    BY <2>3, <2>4
<1>6. CASE obeys
  <2>1. Obey(worker.incident, c) = c.incident
    BY <1>3, <1>6, <1>w, ObeyExactly
  <2>2. \A j \in Heard' : j <= n
    <3>1. \A j \in Heard : j <= worker.pos /\ j \in Int
      BY <1>w DEF Heard
    <3> QED
      BY <1>w, <1>5, <3>1
  <2>3. n \in Heard' /\ worker'.incident = topic'[n].incident
    BY <1>1, <1>4, <1>5, <1>6, <2>1
  <2> HIDE DEF n
  <2>4. Heard' # {} /\ \E k \in Heard' : (\A j \in Heard' : j <= k)
                                       /\ worker'.incident = topic'[k].incident
    BY <2>2, <2>3
  <2> QED
    BY <1>4, <2>4 DEF Obeyed
<1>7. CASE ~obeys
  <2>1. Obey(worker.incident, c) = worker.incident
    BY <1>3, <1>7, <1>w, ObeyExactly
  <2>2. Heard' = Heard /\ worker'.incident = worker.incident
    BY <1>4, <1>5, <1>7, <2>1
  <2>3. Heard = {} => worker.incident = worker.initial
    BY <1>1 DEF Obeyed, Looping
  <2>4. Heard # {} => \E k \in Heard : (\A j \in Heard : j <= k)
                                     /\ worker.incident = topic[k].incident
    BY <1>1 DEF Obeyed, Looping
  <2> QED
    BY <1>1, <1>4, <2>2, <2>3, <2>4 DEF Obeyed
<1> QED
  BY <1>6, <1>7

LEMMA LoopObeys ==
  ASSUME TypeOK, Positions, Obeyed,
         Arm \/ Assign \/ Tick \/ SendAttempts \/ SendClosed \/ Observe
  PROVE  Obeyed'
<1>0. worker \in WorkerState /\ merchant \in Merchants /\ topic \in Seq(Commands)
  BY DEF TypeOK
<1>1. CASE Arm
  <2>1. /\ worker.pc = "starting" /\ worker'.pc = "top" /\ worker'.from = worker.from
        /\ worker'.pos = worker.pos /\ worker'.incident = worker.incident
        /\ worker'.initial = worker.initial /\ UNCHANGED <<topic, merchant>>
    BY <1>0, <1>1 DEF Arm, WorkerState, control
  <2> QED
    BY <2>1, ObeyedStays
<1>2. CASE Assign
  <2>1. /\ worker.pc \in Looping /\ worker.from = -1 /\ worker'.pc = worker.pc
        /\ worker'.from = Len(topic) /\ worker'.pos = Len(topic)
        /\ worker'.incident = worker.incident /\ worker'.initial = worker.initial
        /\ UNCHANGED <<topic, merchant>>
    BY <1>0, <1>2 DEF Assign, WorkerState, control
  <2>2. Heard = {}
    BY <2>1, HeardType
  <2>3. Heard' = {}
    <3>1. Len(topic) \in Nat
      BY <1>0
    <3>2. (worker'.from + 1)..worker'.pos = {}
      BY <2>1, <3>1
    <3> QED
      BY <3>2 DEF Heard
  <2> QED
    BY <2>1, <2>2, <2>3 DEF Obeyed, Looping
<1>3. CASE Tick
  <2>1. /\ worker.pc = "top" /\ UNCHANGED <<topic, merchant>>
        /\ worker'.pc = "sending" /\ worker'.from = worker.from /\ worker'.pos = worker.pos
        /\ worker'.incident = worker.incident /\ worker'.initial = worker.initial
    BY <1>0, <1>3, BeginType DEF Tick, control
  <2> QED
    BY <2>1, ObeyedStays DEF Looping
<1>4. CASE SendAttempts \/ SendClosed
  <2>1. /\ worker.pc \in Looping /\ worker'.pc \in Looping /\ worker'.from = worker.from
        /\ worker'.pos = worker.pos /\ worker'.incident = worker.incident
        /\ worker'.initial = worker.initial /\ UNCHANGED <<topic, merchant>>
    BY <1>0, <1>4 DEF SendAttempts, SendClosed, WorkerState, Looping, control
  <2> QED
    BY <2>1, ObeyedStays DEF Looping
<1>5. CASE Observe
  <2>1. PICK n \in {0, 1} : NextPayment([worker EXCEPT !.unobserved = @ - n])
    BY <1>5 DEF Observe
  <2> DEFINE w == [worker EXCEPT !.unobserved = @ - n]
  <2>2. worker.unobserved - n \in Int
    BY <1>0 DEF WorkerState
  <2>3. /\ w \in WorkerState /\ w.from = worker.from /\ w.pos = worker.pos
        /\ w.incident = worker.incident /\ w.initial = worker.initial
    BY <1>0, <2>2 DEF WorkerState
  <2>4. /\ worker.pc = "observing" /\ UNCHANGED <<topic, merchant>>
        /\ worker'.pc \in {"top", "sending"} /\ worker'.from = worker.from
        /\ worker'.pos = worker.pos /\ worker'.incident = worker.incident
        /\ worker'.initial = worker.initial
    BY <1>0, <1>5, <2>1, <2>3, NextPaymentType DEF Observe, control
  <2> QED
    BY <2>4, ObeyedStays DEF Looping
<1> QED
  BY <1>1, <1>2, <1>3, <1>4, <1>5

LEMMA NextObeys == Typed /\ Obeyed /\ [Next]_vars => Obeyed'
<1> SUFFICES ASSUME TypeOK, Positions, Obeyed, [Next]_vars PROVE Obeyed'
  BY DEF Typed
<1>1. CASE \/ \E p \in Pressers : Press(p) \/ Publish(p) \/ PublishFails(p) \/ Remember(p)
           \/ ServerRestarts \/ InjectByHand \/ LateArrival
  <2>1. /\ UNCHANGED <<merchant, worker>>
        /\ topic' = topic \/ \E c \in Commands : topic' = Append(topic, c)
    BY <1>1, ServerFrame
  <2> QED
    BY <2>1, ObeyedStays
<1>2. CASE Arm \/ Assign \/ Tick \/ SendAttempts \/ SendClosed \/ Observe
  BY <1>2, LoopObeys
<1>3. CASE TickHearing
  BY <1>3, HearingObeys
<1>4. CASE Boot
  <2>1. \E i, s : worker' = [Down EXCEPT !.pc = "starting", !.initial = i, !.incident = i,
                                        !.scenario = s]
    BY <1>4 DEF Boot
  <2>2. /\ worker'.pc = "starting" /\ worker'.from = -1 /\ worker'.pos = -1
        /\ worker'.incident = worker'.initial
    BY <2>1 DEF Down
  <2>3. Heard' = {}
    BY <2>2 DEF Heard
  <2> QED
    BY <2>2, <2>3 DEF Obeyed
<1>5. CASE Unwind \/ Flush \/ Detach \/ Record \/ RecordFails \/ Killed
  <2>1. worker \in WorkerState
    BY DEF TypeOK
  <2>2. worker'.pc \in Leaving \cup {"down"}
    <3>1. CASE Unwind
      BY <3>1 DEF Unwind, Down, Leaving
    <3>2. CASE Flush \/ Detach
      BY <2>1, <3>2 DEF Flush, Detach, WorkerState, Leaving
    <3>3. CASE Record \/ RecordFails \/ Killed
      <4>1. worker' = Down
        BY <3>3 DEF Record, RecordFails, Killed
      <4> QED
        BY <4>1, DownType
    <3> QED
      BY <1>5, <3>1, <3>2, <3>3
  <2> QED
    BY <2>2 DEF Obeyed, Looping, Leaving
<1>6. CASE UNCHANGED vars
  <2>1. UNCHANGED <<merchant, worker, topic>>
    BY <1>6 DEF vars, control
  <2> QED
    BY <2>1, ObeyedStays
<1> QED
  BY <1>1, <1>2, <1>3, <1>4, <1>5, <1>6 DEF Next, WorkerStep

LEMMA AlwaysObeyed == Spec => []Obeyed
<1>1. Init => Obeyed
  BY DownType DEF Init, Obeyed, Looping
<1> QED
  BY <1>1, NextObeys, AlwaysTyped, PTL DEF Spec

\* A running worker runs exactly what the newest command it was sent and could
\* obey asked for, and its starting flags while there is none.
THEOREM NewestCommandIsObeyed == Spec => []NewestCommandRules
<1>1. Typed /\ Obeyed => NewestCommandRules
  <2> SUFFICES ASSUME TypeOK, Positions, Obeyed, worker.pc \in Looping, Heard # {}
               PROVE  worker.incident
                        = topic[CHOOSE k \in Heard : \A j \in Heard : j <= k].incident
    BY DEF Typed, NewestCommandRules, Obeyed
  <2> DEFINE newest == CHOOSE k \in Heard : \A j \in Heard : j <= k
  <2>1. PICK k \in Heard : (\A j \in Heard : j <= k) /\ worker.incident = topic[k].incident
    BY DEF Obeyed
  <2>2. newest \in Heard /\ \A j \in Heard : j <= newest
    BY <2>1
  <2>3. Heard \subseteq Int
    BY HeardType
  <2> HIDE DEF newest
  <2>4. newest <= k /\ k <= newest /\ newest \in Int /\ k \in Int
    BY <2>1, <2>2, <2>3
  <2>5. newest = k
    BY <2>4
  <2> QED
    BY <2>1, <2>5 DEF newest
<1> QED
  BY <1>1, AlwaysTyped, AlwaysObeyed, PTL

(***************************************************************************)
(* The page shows the stage that runs                                      *)
(***************************************************************************)

Delivered(s) == Len(topic) > 0 /\ topic[Len(topic)] = CommandFor(s)

\* Of two presses under way neither is alone; the newest command is the press
\* that is alone and delivered, or the one last remembered with none after it.
Shown ==
  /\ \A p, q \in Pressers :
       p # q /\ press[p].pc # "idle" /\ press[q].pc # "idle" => ~press[p].alone
  /\ \A p \in Pressers : press[p].pc = "delivered" /\ press[p].alone => Delivered(press[p].stage)
  /\ settled => Delivered(stage)

\* Once a command overlaps the presses under way, none of them is alone.
LEMMA OverlapEndsAlone ==
  ASSUME TypeOK, press' = Overlap(Busy), ~settled'
  PROVE  Shown'
<1>1. \A p \in Pressers : press'[p].pc # "idle" => ~press'[p].alone
  BY DEF TypeOK, Overlap, Busy
<1> QED
  BY <1>1 DEF Shown

LEMMA ServerShows ==
  ASSUME TypeOK, Shown,
         \/ \E p \in Pressers : Press(p) \/ Publish(p) \/ PublishFails(p) \/ Remember(p)
         \/ ServerRestarts \/ InjectByHand \/ LateArrival
  PROVE  Shown'
<1> DEFINE Request == [pc : {"idle", "publishing", "delivered"}, stage : Stages, alone : BOOLEAN]
<1>0. press \in [Pressers -> Request]
  BY DEF TypeOK
<1>1. ASSUME NEW p \in Pressers, Press(p) PROVE Shown'
  <2>1. PICK r \in Requests :
          press' = [Overlap(Busy) EXCEPT ![p] =
                      [pc |-> "publishing", stage |-> Resolve(r), alone |-> Busy = {}]]
    BY <1>1 DEF Press
  <2>2. UNCHANGED <<topic, settled, stage>>
    BY <1>1 DEF Press
  <2>3. press'[p].pc = "publishing" /\ (press'[p].alone => Busy = {})
    BY <1>0, <2>1, OverlapType
  <2>4. \A q \in Pressers \ {p} : press'[q].pc # "idle" => ~press'[q].alone /\ Busy # {}
    <3> TAKE q \in Pressers \ {p}
    <3>1. press'[q] = Overlap(Busy)[q] /\ press[q] \in Request
      BY <1>0, <2>1, OverlapType
    <3>2. press'[q] = IF q \in Busy THEN [press[q] EXCEPT !.alone = FALSE] ELSE press[q]
      BY <3>1 DEF Overlap
    <3>3. CASE q \in Busy
      BY <3>1, <3>2, <3>3
    <3>4. CASE q \notin Busy
      BY <3>2, <3>4 DEF Busy
    <3> QED
      BY <3>3, <3>4
  <2>5. \A q \in Pressers : press'[q].pc = "delivered" => ~press'[q].alone
    BY <2>3, <2>4
  <2>6. ASSUME NEW q1 \in Pressers, NEW q2 \in Pressers, q1 # q2,
               press'[q1].pc # "idle", press'[q2].pc # "idle"
        PROVE  ~press'[q1].alone
    <3>1. CASE q1 = p
      BY <2>3, <2>4, <2>6, <3>1
    <3>2. CASE q1 # p
      BY <2>4, <2>6, <3>2
    <3> QED
      BY <3>1, <3>2
  <2>7. settled' => Delivered(stage)'
    BY <2>2 DEF Shown, Delivered
  <2> QED
    BY <2>5, <2>6, <2>7 DEF Shown
<1>2. ASSUME NEW p \in Pressers, Publish(p) PROVE Shown'
  <2>1. /\ press[p].pc = "publishing" /\ ~settled'
        /\ topic' = Append(topic, CommandFor(press[p].stage))
        /\ press' = [press EXCEPT ![p].pc = "delivered"]
    BY <1>2 DEF Publish
  <2>2. /\ press'[p].stage = press[p].stage /\ press'[p].alone = press[p].alone
        /\ press'[p].pc = "delivered"
        /\ \A q \in Pressers \ {p} : press'[q] = press[q]
    BY <1>0, <2>1
  <2>3. Delivered(press[p].stage)'
    <3>1. topic \in Seq(Commands) /\ CommandFor(press[p].stage) \in Commands
      BY <1>0, IncidentForType DEF TypeOK
    <3>2. Len(topic') = Len(topic) + 1 /\ topic'[Len(topic')] = CommandFor(press[p].stage)
          /\ Len(topic) \in Nat
      BY <2>1, <3>1
    <3> QED
      BY <2>2, <3>2 DEF Delivered
  <2>4. \A q \in Pressers \ {p} : press'[q].pc = "delivered" => ~press'[q].alone
    BY <2>1, <2>2 DEF Shown
  <2>5. \A q1, q2 \in Pressers :
          q1 # q2 /\ press'[q1].pc # "idle" /\ press'[q2].pc # "idle" => ~press'[q1].alone
    BY <2>1, <2>2 DEF Shown
  <2> QED
    BY <2>1, <2>2, <2>3, <2>4, <2>5 DEF Shown, Delivered
<1>3. ASSUME NEW p \in Pressers, PublishFails(p) PROVE Shown'
  <2>1. press' = [press EXCEPT ![p] = Idle] /\ UNCHANGED <<topic, settled, stage>>
    BY <1>3 DEF PublishFails
  <2>2. press'[p].pc = "idle" /\ \A q \in Pressers \ {p} : press'[q] = press[q]
    BY <1>0, <2>1 DEF Idle
  <2> QED
    BY <2>1, <2>2 DEF Shown, Delivered
<1>4. ASSUME NEW p \in Pressers, Remember(p) PROVE Shown'
  <2>1. /\ press[p].pc = "delivered" /\ settled' = press[p].alone /\ stage' = press[p].stage
        /\ press' = [press EXCEPT ![p] = Idle] /\ UNCHANGED topic
    BY <1>4 DEF Remember
  <2>2. press'[p].pc = "idle" /\ \A q \in Pressers \ {p} : press'[q] = press[q]
    BY <1>0, <2>1 DEF Idle
  <2> QED
    BY <2>1, <2>2 DEF Shown, Delivered
<1>5. CASE ServerRestarts
  <2>1. press' = [p \in Pressers |-> Idle] /\ ~settled'
    BY <1>5 DEF ServerRestarts
  <2>2. \A p \in Pressers : press'[p].pc = "idle"
    BY <2>1 DEF Idle
  <2> QED
    BY <2>1, <2>2 DEF Shown
<1>6. CASE InjectByHand
  BY <1>6, OverlapEndsAlone DEF InjectByHand
<1>7. CASE LateArrival
  <2>1. \/ ~settled' /\ press' = Overlap(Busy)
        \/ UNCHANGED <<topic, settled, press, stage>>
    BY <1>7 DEF LateArrival
  <2>2. CASE UNCHANGED <<topic, settled, press, stage>>
    BY <2>2 DEF Shown, Delivered
  <2> QED
    BY <2>1, <2>2, OverlapEndsAlone
<1> QED
  BY <1>1, <1>2, <1>3, <1>4, <1>5, <1>6, <1>7

\* Once a press nothing overlapped is remembered, a worker that listens since
\* before it and has read the whole topic runs the stage the page shows.
THEOREM ShownStageRuns == Spec => []StageShownIsRunning
<1>1. Init => Shown
  BY DEF Init, Shown, Idle
<1>2. Typed /\ Shown /\ [Next]_vars => Shown'
  <2> SUFFICES ASSUME TypeOK, Positions, Shown, [Next]_vars PROVE Shown'
    BY DEF Typed
  <2>1. CASE \/ \E p \in Pressers : Press(p) \/ Publish(p) \/ PublishFails(p) \/ Remember(p)
             \/ ServerRestarts \/ InjectByHand \/ LateArrival
    BY <2>1, ServerShows
  <2>2. ASSUME UNCHANGED control PROVE Shown'
    BY <2>2 DEF control, Shown, Delivered
  <2>3. CASE Arm \/ Assign \/ Tick \/ TickHearing \/ SendAttempts \/ SendClosed \/ Observe
    BY <2>2, <2>3, LoopTyped
  <2>4. CASE Boot \/ Unwind \/ Flush \/ Detach \/ Record \/ RecordFails \/ Killed
    <3>1. UNCHANGED control
      BY <2>4 DEF Boot, Unwind, Flush, Detach, Record, RecordFails, Killed
    <3> QED
      BY <2>2, <3>1
  <2>5. CASE UNCHANGED vars
    BY <2>2, <2>5 DEF vars
  <2> QED
    BY <2>1, <2>3, <2>4, <2>5 DEF Next, WorkerStep
<1>3. Typed /\ Obeyed /\ Shown => StageShownIsRunning
  <2> SUFFICES ASSUME TypeOK, Positions, Obeyed, Shown, settled, merchant = Target,
                      worker.pc \in Looping, worker.from >= 0, worker.from < Len(topic),
                      worker.pos = Len(topic)
               PROVE  worker.incident = IncidentFor(stage)
    BY DEF Typed, StageShownIsRunning
  <2> DEFINE last == Len(topic)
  <2>1. topic[last] = CommandFor(stage) /\ stage \in Stages
    BY DEF Shown, Delivered, TypeOK
  <2>2. /\ topic[last].merchant = Target /\ topic[last].incident = IncidentFor(stage)
        /\ topic[last].action = "stop" \/ WellFormed(topic[last].incident)
    BY <2>1, PressesAreObeyed
  <2>3. last \in Nat /\ worker.from \in Int /\ worker.pos \in Int
    <3>1. topic \in Seq(Commands) /\ worker.from \in Int /\ worker.pos \in Int
      BY DEF TypeOK, WorkerState
    <3> QED
      BY <3>1
  <2>4. last \in Heard /\ \A k \in Heard : k <= last /\ k \in Int
    <3>1. last \in (worker.from + 1)..worker.pos
      BY <2>3
    <3> HIDE DEF last
    <3>2. last \in Heard
      BY <2>2, <3>1 DEF Heard
    <3>3. \A k \in Heard : k <= worker.pos /\ k \in Int
      BY <2>3 DEF Heard
    <3> QED
      BY <3>2, <3>3 DEF last
  <2>5. PICK k \in Heard : (\A j \in Heard : j <= k) /\ worker.incident = topic[k].incident
    BY <2>4 DEF Obeyed
  <2>6. k = last
    BY <2>3, <2>4, <2>5
  <2> QED
    BY <2>2, <2>5, <2>6
<1> QED
  BY <1>1, <1>2, <1>3, AlwaysTyped, AlwaysObeyed, PTL DEF Spec

(***************************************************************************)
(* A broken cohort does not give up                                        *)
(***************************************************************************)

Less == {p \in Nat \X Nat : p[1] < p[2]}

\* Induction over the naturals, without a predicate as a parameter: what is to be
\* shown is the membership of a set.
LEMMA Induct ==
  ASSUME NEW S, 0 \in S, \A n \in Nat : n \in S => n + 1 \in S
  PROVE  Nat \subseteq S
<1> SUFFICES ASSUME Nat \ S # {} PROVE FALSE
  OBVIOUS
<1>1. IsWellFoundedOn(Less, Nat)
  BY NatLessThanWellFounded, Zenon DEF OpToRel, Less
<1>2. \E m \in Nat \ S : \A k \in Nat \ S : ~ (<<k, m>> \in Less)
  BY <1>1, WFMin, Zenon
<1>3. PICK m \in Nat \ S : \A k \in Nat \ S : ~ (k < m)
  BY <1>2 DEF Less
<1>4. m # 0 /\ m - 1 \in Nat /\ m - 1 \in S
  BY <1>3
<1> QED
  BY <1>3, <1>4

\* A chain's attempts go to a provider of the profile, the forced one or the incident's.
LEMMA RoutesAre ==
  ASSUME NEW i, NEW providers, NEW bank, NEW forced, NEW previous
  PROVE  Routes(i, providers, previous, bank, forced)
         \subseteq providers \cup {forced} \cup IF i = None THEN {} ELSE {i.provider}
<1>1. Candidates(i, providers, previous) \subseteq providers
  BY DEF Candidates
<1> QED
  BY <1>1 DEF Routes

\* A chain has at most MaxAttempts attempts, and ends at an approval, at the last
\* of them or at one the incident does not touch.
LEMMA ChainsEnd ==
  ASSUME NEW i, NEW providers, NEW bank, NEW forced,
         NEW c \in Chains(i, providers, bank, forced)
  PROVE  /\ Len(c) \in 1..MaxAttempts
         /\ \/ c[Len(c)].status = "approved" \/ Len(c) = MaxAttempts
            \/ ~Affected(i, c[Len(c)])
<1> DEFINE
      named == {forced} \cup IF i = None THEN {} ELSE {i.provider}
      P == providers \cup named \cup {None}
      A == [provider : P, bank : {bank}, status : {"approved", "refused"}]
      Tried(p) == Attempts(i, providers, p, bank, forced)
      Then(a, k, rests) ==
        (IF a.status = "approved" \/ k = MaxAttempts \/ ~Affected(i, a) THEN {<<a>>} ELSE {})
        \cup (IF a.status = "refused" /\ k < MaxAttempts THEN {<<a>> \o rest : rest \in rests} ELSE {})
      Body(F, k, p) == UNION {Then(a, k, F[k + 1][a.provider]) : a \in Tried(p)}
      Rule(F, K) == F = [k \in K |-> [p \in P |-> Body(F, k, p)]]
      F == CHOOSE F : Rule(F, 1..MaxAttempts)
<1>1. c \in F[1][None]
  BY DEF Chains
<1>a. ASSUME NEW p, NEW a \in Tried(p) PROVE a \in A
  <2>0. PICK q \in Routes(i, providers, p, bank, forced) :
          a \in {[provider |-> q, bank |-> bank, status |-> s] :
                   s \in Statuses(i, [provider |-> q, bank |-> bank])}
    BY <1>a, Zenon DEF Attempts
  <2>1. \E s \in {"approved", "refused"} : a = [provider |-> q, bank |-> bank, status |-> s]
    BY <2>0 DEF Statuses
  <2>2. q \in P
    BY RoutesAre
  <2> QED BY <2>1, <2>2
<1> HIDE DEF named, P, A
<1> HIDE DEF Tried
<1>2. \E G : Rule(G, 1..MaxAttempts)
  <2> DEFINE Has == {n \in Nat : n <= MaxAttempts => \E G : Rule(G, (MaxAttempts - n + 1)..MaxAttempts)}
  <2>1. 0 \in Has
    <3> DEFINE G == [k \in {} |-> [p \in P |-> {}]]
    <3>1. (MaxAttempts - 0 + 1)..MaxAttempts = {}
      BY ChainAssumption
    <3>2. Rule(G, {})
      BY Zenon
    <3> QED BY <3>1, <3>2
  <2>2. ASSUME NEW n \in Nat, n \in Has PROVE n + 1 \in Has
    <3> DEFINE K == (MaxAttempts - n + 1)..MaxAttempts
               L == (MaxAttempts - (n + 1) + 1)..MaxAttempts
    <3> SUFFICES ASSUME n + 1 <= MaxAttempts PROVE \E G : Rule(G, L)
      <4> HIDE DEF Rule
      <4> QED OBVIOUS
    <3>1. PICK G : Rule(G, K)
      <4>1. n <= MaxAttempts
        BY ChainAssumption
      <4> HIDE DEF Rule
      <4> QED BY <4>1, <2>2
    <3> DEFINE m == MaxAttempts - n
               H == [k \in L |-> IF k = m THEN [p \in P |-> Body(G, m, p)] ELSE G[k]]
    <3>2. L = K \cup {m} /\ m \notin K /\ m \in L
      BY ChainAssumption
    <3> HIDE DEF K, L
    <3>3. ASSUME NEW k \in L, NEW p \in P PROVE Body(H, k, p) = Body(G, k, p)
      <4>1. ASSUME NEW a \in Tried(p) PROVE Then(a, k, H[k + 1][a.provider]) = Then(a, k, G[k + 1][a.provider])
        <5>1. CASE k < MaxAttempts
          <6>1. k + 1 \in L /\ k + 1 # m
            BY <5>1, <3>2, ChainAssumption DEF K, L
          <6> QED BY <6>1
        <5>2. CASE ~(k < MaxAttempts)
          BY <5>2
        <5> QED BY <5>1, <5>2
      <4> HIDE DEF Then, H
      <4> QED BY <4>1
    <3>4. ASSUME NEW k \in L PROVE H[k] = [p \in P |-> Body(H, k, p)]
      <4>1. H[k] = [p \in P |-> Body(G, k, p)]
        <5>1. CASE k = m
          BY <5>1, Zenon
        <5>2. CASE k # m
          <6>1. k \in K
            BY <5>2, <3>2
          <6>2. G[k] = [p \in P |-> Body(G, k, p)]
            BY <6>1, <3>1, Zenon
          <6> QED BY <5>2, <6>2, Zenon
        <5> QED BY <5>1, <5>2
      <4>2. [p \in P |-> Body(G, k, p)] = [p \in P |-> Body(H, k, p)]
        <5> HIDE DEF Body, H
        <5> QED BY <3>3
      <4> QED BY <4>1, <4>2, Zenon
    <3>5. Rule(H, L)
      <4> HIDE DEF Body
      <4> QED BY <3>4
    <3> HIDE DEF Rule, H
    <3> QED BY <3>5
  <2>3. MaxAttempts \in Has
    <3> HIDE DEF Has
    <3> QED BY <2>1, <2>2, Induct, ChainAssumption
  <2>4. MaxAttempts - MaxAttempts + 1 = 1
    BY ChainAssumption
  <2> HIDE DEF Rule
  <2> QED BY <2>3, <2>4, ChainAssumption
<1>3. Rule(F, 1..MaxAttempts)
  BY <1>2, Zenon
<1> HIDE DEF F
<1>4. ASSUME NEW k \in 1..MaxAttempts, NEW p \in P PROVE F[k][p] = Body(F, k, p)
  <2>1. F[k] = [q \in P |-> Body(F, k, q)]
    BY <1>3, Zenon
  <2> QED BY <2>1, Zenon
<1> HIDE DEF Rule
<1> DEFINE Ended(d, n) ==
      /\ d \in Seq(A) /\ Len(d) \in 1..(n + 1)
      /\ \/ d[Len(d)].status = "approved" \/ Len(d) = n + 1 \/ ~Affected(i, d[Len(d)])
    End == {n \in Nat : n < MaxAttempts =>
              \A p \in P : \A d \in F[MaxAttempts - n][p] : Ended(d, n)}
<1>5. ASSUME NEW n \in Nat, n < MaxAttempts, NEW p \in P, NEW d \in F[MaxAttempts - n][p],
             n = 0 \/ \A q \in P : \A e \in F[MaxAttempts - n + 1][q] : Ended(e, n - 1)
      PROVE  Ended(d, n)
  <2> DEFINE k == MaxAttempts - n
  <2>1. k \in 1..MaxAttempts
    BY <1>5, ChainAssumption
  <2>2. PICK a \in Tried(p) : d \in Then(a, k, F[k + 1][a.provider])
    <3> HIDE DEF Then
    <3> QED BY <2>1, <1>4, <1>5
  <2>3. a \in A /\ a.provider \in P
    BY <1>a DEF A
  <2>4. CASE d = <<a>> /\ (a.status = "approved" \/ k = MaxAttempts \/ ~Affected(i, a))
    BY <2>3, <2>4, <1>5, ChainAssumption
  <2>5. ASSUME a.status = "refused", k < MaxAttempts, NEW rest \in F[k + 1][a.provider], d = <<a>> \o rest
        PROVE  Ended(d, n)
    <3>1. Ended(rest, n - 1)
      BY <2>3, <2>5, <1>5, ChainAssumption
    <3>2. d \in Seq(A) /\ Len(d) = Len(rest) + 1 /\ d[Len(d)] = rest[Len(rest)]
      BY <2>3, <2>5, <3>1
    <3> QED BY <3>1, <3>2
  <2> QED BY <2>2, <2>4, <2>5
<1>6. Nat \subseteq End
  <2>1. 0 \in End
    BY <1>5
  <2>2. ASSUME NEW n \in Nat, n \in End PROVE n + 1 \in End
    <3> SUFFICES ASSUME n + 1 < MaxAttempts, NEW p \in P, NEW d \in F[MaxAttempts - (n + 1)][p]
                 PROVE Ended(d, n + 1)
      OBVIOUS
    <3>1. MaxAttempts - (n + 1) + 1 = MaxAttempts - n /\ n < MaxAttempts /\ n + 1 - 1 = n
      BY ChainAssumption
    <3>2. \A q \in P : \A e \in F[MaxAttempts - (n + 1) + 1][q] : Ended(e, n + 1 - 1)
      BY <3>1, <2>2
    <3> HIDE DEF Ended
    <3> QED BY <3>2, <1>5
  <2> HIDE DEF End
  <2> QED BY <2>1, <2>2, Induct
<1>7. Ended(c, MaxAttempts - 1)
  <2>1. MaxAttempts - 1 \in Nat /\ MaxAttempts - (MaxAttempts - 1) = 1 /\ None \in P
    BY ChainAssumption DEF P
  <2>2. \A p \in P : \A d \in F[1][p] : Ended(d, MaxAttempts - 1)
    <3> HIDE DEF Ended
    <3> QED BY <2>1, <1>6, ChainAssumption
  <2> HIDE DEF Ended
  <2> QED BY <2>1, <2>2, <1>1
<1> QED
  BY <1>7, ChainAssumption

LEMMA PaymentsEnd ==
  ASSUME NEW m \in Merchants, NEW i \in Runnable, NEW spiked \in BOOLEAN,
         NEW c \in Payments[<<m, i, spiked>>], Outcome(c) = "abandoned"
  PROVE  ~Affected(i, c[Len(c)])
<1>1. PICK b, provider : c \in Chains(i, Providers[m], b, provider)
  BY DEF Payments
<1>2. /\ Len(c) \in 1..MaxAttempts
      /\ c[Len(c)].status = "approved" \/ Len(c) = MaxAttempts \/ ~Affected(i, c[Len(c)])
  BY <1>1, ChainsEnd
<1>3. c[Len(c)].status # "approved" /\ ~(Len(c) >= MaxAttempts)
  BY DEF Outcome
<1> QED
  BY <1>2, <1>3, ChainAssumption

\* The chain under way was built under the incident that still runs.
ChainIsTheIncidents ==
  worker.chain # <<>> =>
    \E spiked \in BOOLEAN : worker.chain \in Payments[<<merchant, worker.incident, spiked>>]

LEMMA BeginBuilds ==
  ASSUME NEW w \in WorkerState, merchant' = merchant, Begin(w)
  PROVE  ChainIsTheIncidents'
<1>1. PICK c \in Payments[<<merchant, w.incident, FALSE>>] :
        \E n : worker' = [w EXCEPT !.pc = "sending", !.chain = c, !.extra = n]
  BY DEF Begin
<1>2. worker'.chain = c /\ worker'.incident = w.incident
  BY <1>1 DEF WorkerState
<1>3. Payments' = Payments
  BY DEF Payments
<1> QED
  BY <1>2, <1>3 DEF ChainIsTheIncidents

LEMMA NextBuilds ==
  Typed /\ ChainIsTheIncidents /\ [Next]_vars => ChainIsTheIncidents'
<1> SUFFICES ASSUME TypeOK, Positions, ChainIsTheIncidents, [Next]_vars
             PROVE  ChainIsTheIncidents'
  BY DEF Typed
<1>0. worker \in WorkerState /\ topic \in Seq(Commands)
  BY DEF TypeOK
<1>k. ASSUME UNCHANGED merchant, worker'.chain = worker.chain,
             worker'.incident = worker.incident
      PROVE  ChainIsTheIncidents'
  BY <1>k DEF ChainIsTheIncidents, Payments
<1>e. ASSUME worker'.chain = <<>> PROVE ChainIsTheIncidents'
  BY <1>e DEF ChainIsTheIncidents
<1>1. CASE \/ \E p \in Pressers : Press(p) \/ Publish(p) \/ PublishFails(p) \/ Remember(p)
           \/ ServerRestarts \/ InjectByHand \/ LateArrival
  BY <1>1, <1>k, ServerFrame
<1>2. CASE Arm \/ Assign
  BY <1>0, <1>2, <1>k DEF Arm, Assign, WorkerState, control
<1>3. CASE Tick
  BY <1>0, <1>3, BeginBuilds DEF Tick, control
<1>4. CASE TickHearing
  <2> DEFINE w == [worker EXCEPT !.pos = @ + 1, !.incident = Obey(@, topic[worker.pos + 1])]
  <2>1. worker.from >= 0 /\ worker.pos < Len(topic) /\ Begin(w) /\ UNCHANGED merchant
    BY <1>4 DEF TickHearing
  <2>2. worker.incident \in Runnable /\ worker.pos \in Int /\ worker.from \in Int
    BY <1>0 DEF WorkerState
  <2>3. worker.pos + 1 \in 1..Len(topic) /\ worker.pos + 1 \in Int
    BY <1>0, <2>1, <2>2 DEF Positions
  <2>4. Obey(worker.incident, topic[worker.pos + 1]) \in Runnable
    BY <1>0, <2>2, <2>3, ObeyType
  <2>5. w \in WorkerState
    BY <1>0, <2>3, <2>4 DEF WorkerState
  <2> QED
    BY <2>1, <2>5, BeginBuilds
<1>5. CASE SendAttempts
  BY <1>0, <1>5, <1>e DEF SendAttempts, WorkerState
<1>6. CASE SendClosed
  BY <1>0, <1>6, <1>k DEF SendClosed, WorkerState
<1>7. CASE Observe
  <2>1. PICK n \in {0, 1} : NextPayment([worker EXCEPT !.unobserved = @ - n])
    BY <1>7 DEF Observe
  <2>2. \/ worker'.chain = worker.chain /\ worker'.incident = worker.incident
        \/ /\ worker'.chain \in Payments[<<merchant, worker.incident, TRUE>>]
           /\ worker'.incident = worker.incident
    BY <1>0, <2>1 DEF NextPayment, WorkerState
  <2>3. UNCHANGED merchant /\ Payments' = Payments
    BY <1>7 DEF Observe, Payments
  <2> QED
    BY <1>k, <2>2, <2>3 DEF ChainIsTheIncidents
<1>8. CASE Boot \/ Unwind \/ Record \/ RecordFails \/ Killed
  <2>1. ASSUME Boot PROVE worker'.chain = Down.chain
    BY <2>1 DEF Boot, Down
  <2>2. ASSUME Unwind PROVE worker'.chain = Down.chain
    BY <2>2 DEF Unwind, Down
  <2>3. ASSUME Record \/ RecordFails \/ Killed PROVE worker'.chain = Down.chain
    BY <2>3 DEF Record, RecordFails, Killed
  <2> QED
    BY <1>8, <1>e, <2>1, <2>2, <2>3 DEF Down
<1>9. CASE Flush \/ Detach
  BY <1>0, <1>9, <1>k DEF Flush, Detach, WorkerState
<1>10. CASE UNCHANGED vars
  BY <1>10, <1>k DEF vars
<1> QED
  BY <1>1, <1>2, <1>3, <1>4, <1>5, <1>6, <1>7, <1>8, <1>9, <1>10 DEF Next, WorkerStep

\* A payment is abandoned only on an attempt the running incident does not touch,
\* however many attempts a chain may have and however its payments are routed.
THEOREM BrokenPaymentsEnd == Spec => []BrokenPaymentsAreNotAbandoned
<1>1. Init => ChainIsTheIncidents
  BY DEF Init, ChainIsTheIncidents, Down
<1>2. Typed /\ ChainIsTheIncidents => BrokenPaymentsAreNotAbandoned
  <2> SUFFICES ASSUME TypeOK, ChainIsTheIncidents, worker.chain # <<>>,
                      Outcome(worker.chain) = "abandoned"
               PROVE  ~Affected(worker.incident, worker.chain[Len(worker.chain)])
    BY DEF Typed, BrokenPaymentsAreNotAbandoned
  <2>1. worker.incident \in Runnable /\ merchant \in Merchants
    BY DEF TypeOK, WorkerState
  <2>2. PICK spiked \in BOOLEAN : worker.chain \in Payments[<<merchant, worker.incident, spiked>>]
    BY DEF ChainIsTheIncidents
  <2> QED
    BY <2>1, <2>2, PaymentsEnd
<1> QED
  BY <1>1, <1>2, NextBuilds, AlwaysTyped, PTL DEF Spec
=============================================================================
