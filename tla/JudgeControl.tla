---------------------------- MODULE JudgeControl ----------------------------
(***************************************************************************)
(* The judge's control and the worker it drives: presses served by the     *)
(* threads of the surfaces server (surfaces/server.py, surfaces/inject.py), *)
(* commands an operator publishes by hand (worker/inject.py), the control   *)
(* topic, one merchant's worker with its loop, its stop signals and its     *)
(* shutdown (worker/worker.py, worker/runtime.py, worker/helpers/control.py) *)
(* and the ground-truth record of the scenario it may be running            *)
(* (worker/ground_truth).  The broker is external: a publish is appended, is *)
(* refused, or is given up on while the message is still under way, and a   *)
(* new consumer starts at the end of the topic when it is assigned.         *)
(***************************************************************************)
EXTENDS PaymentChain

CONSTANTS
    Merchants,         \* the merchant profiles
    Providers,         \* [Merchants -> the providers a profile routes to]
    Banks,             \* [Merchants -> the issuing banks of its country]
    Scenarios,         \* [Merchants -> the incidents of its guaranteed scenarios]
    Target,            \* INJECTED_INCIDENT["merchant_id"]
    TargetProvider,    \* INJECTED_INCIDENT["provider"]
    ByHand,            \* the start commands operators publish, and --incident-* flags
    Pressers,          \* request threads of the surfaces server
    SpikeMultiplier,   \* SPIKE_MULTIPLIER
    MaxCommands        \* bound: commands ever offered to the topic

ASSUME ControlAssumption ==
    /\ Target \in Merchants /\ TargetProvider # Any
    /\ SpikeMultiplier \in Nat
    /\ MaxCommands \in Nat
    /\ \A m \in Merchants : \A i \in Scenarios[m] : WellFormed(i)

VARIABLES
    topic,     \* incidents.control, oldest first
    inflight,  \* commands whose publish was reported failed but may still arrive
    stage,     \* SurfacesApp.stage: the last stage the server knows it published
    press,     \* the request each thread is serving
    settled,   \* history: the newest command is a press nothing overlapped, remembered
    merchant,  \* the profile this worker runs
    worker,    \* the worker process
    truth      \* the C6 record of its scenario run

control == <<topic, inflight, stage, press, settled>>
vars == <<control, merchant, worker, truth>>

-----------------------------------------------------------------------------
(* Commands                                                                *)

Stages == {"developing", "collapse", "clear"}

\* What a request body asks for: an explicit stage, the legacy boolean, or nothing
Requests == Stages \cup {"active", "inactive", "no body"}

\* inject.resolve_stage over what SurfacesApp.handle reads from the body
Resolve(request) ==
    CASE request \in Stages                -> request
      [] request \in {"active", "no body"} -> "collapse"
      [] request = "inactive"              -> "clear"

\* probability_for, in percent
ProbabilityFor(s) == IF s = "developing" THEN 10 ELSE 95

\* start_command and stop_command
Start(m, i) == [merchant |-> m, action |-> "start", incident |-> i]
Stop(m)     == [merchant |-> m, action |-> "stop", incident |-> None]

\* The incident a stage stands for, and the command that publishes it
IncidentFor(s) ==
    IF s = "clear" THEN None
    ELSE IncidentOf("decline", TargetProvider, Any, ProbabilityFor(s), None)

\* Every incident a flag, a scenario or a command can name
Pressed   == {IncidentFor(s) : s \in Stages \ {"clear"}}
Incidents == (UNION {Scenarios[m] : m \in Merchants}) \cup ByHand \cup Pressed

\* Those a worker takes up, and none
Runnable == {i \in Incidents : WellFormed(i)} \cup {None}

Commands == {Stop(m) : m \in Merchants} \cup {Start(m, i) : m \in Merchants, i \in Incidents}

CommandFor(s) ==
    IF s = "clear" THEN Stop(Target) ELSE Start(Target, IncidentFor(s))

\* A mutant of Obey: a rejected start clears the incident that was running
ObeyOrClear(incident, c) ==
    IF c.merchant # merchant THEN incident
    ELSE IF c.action = "start" /\ WellFormed(c.incident) THEN c.incident ELSE None

\* IncidentControl.poll on one message: the incident a worker runs afterwards
Obey(incident, c) ==
    IF c.merchant # merchant THEN incident
    ELSE IF c.action = "stop" THEN None
    ELSE IF WellFormed(c.incident) THEN c.incident
    ELSE incident

Idle == [pc |-> "idle", stage |-> "clear", alone |-> FALSE]

Down == [pc |-> "down", from |-> -1, pos |-> -1, initial |-> None, incident |-> None,
         scenario |-> None, chain |-> <<>>, counted |-> FALSE, extra |-> 0,
         unclosed |-> 0, unobserved |-> 0]

NoTruth == [state |-> "none", lost |-> "no"]

Init ==
    /\ topic = <<>> /\ inflight = {} /\ settled = FALSE
    /\ stage = "clear"
    /\ press = [p \in Pressers |-> Idle]
    /\ merchant \in Merchants
    /\ worker = Down
    /\ truth = NoTruth

-----------------------------------------------------------------------------
(* The server                                                              *)

Busy == {p \in Pressers : press[p].pc # "idle"}

\* What the topic can come to hold, which MaxCommands bounds
Offered == Len(topic) + Cardinality(inflight)
           + Cardinality({p \in Pressers : press[p].pc = "publishing"})
Room == Offered < MaxCommands

\* A press that another command overlaps is no longer alone
Overlap(ps) == [p \in Pressers |-> IF p \in ps THEN [press[p] EXCEPT !.alone = FALSE]
                                   ELSE press[p]]

\* POST /api/trigger reaches SurfacesApp.trigger
Press(p) ==
    /\ press[p].pc = "idle" /\ Room
    /\ \E r \in Requests :
         press' = [Overlap(Busy) EXCEPT ![p] =
                      [pc |-> "publishing", stage |-> Resolve(r), alone |-> Busy = {}]]
    /\ UNCHANGED <<topic, inflight, stage, settled, merchant, worker, truth>>

\* fire_hidden_incident: publish returned
Publish(p) ==
    /\ press[p].pc = "publishing"
    /\ topic' = Append(topic, CommandFor(press[p].stage))
    /\ settled' = FALSE
    /\ press' = [press EXCEPT ![p].pc = "delivered"]
    /\ UNCHANGED <<inflight, stage, merchant, worker, truth>>

\* A mutant of PublishFails: the stage is remembered although nothing was delivered
RememberUndelivered(p) ==
    /\ press[p].pc = "publishing"
    /\ stage' = press[p].stage
    /\ press' = [press EXCEPT ![p] = Idle]
    /\ UNCHANGED <<topic, inflight, settled, merchant, worker, truth>>

\* fire_hidden_incident: publish raised, because the broker refused it or because
\* flush gave up after ten seconds with the message still under way.  The answer
\* is delivered: False and the stage is not touched.
PublishFails(p) ==
    /\ press[p].pc = "publishing"
    /\ \/ UNCHANGED inflight
       \/ inflight' = inflight \cup {CommandFor(press[p].stage)}
    /\ press' = [press EXCEPT ![p] = Idle]
    /\ UNCHANGED <<topic, stage, settled, merchant, worker, truth>>

\* SurfacesApp.trigger after delivery: the stage is remembered and answered
Remember(p) ==
    /\ press[p].pc = "delivered"
    /\ stage' = press[p].stage
    /\ settled' = press[p].alone
    /\ press' = [press EXCEPT ![p] = Idle]
    /\ UNCHANGED <<topic, inflight, merchant, worker, truth>>

\* The server restarts: SurfacesApp starts at clear and requests in flight die
ServerRestarts ==
    /\ stage' = "clear"
    /\ settled' = FALSE
    /\ press' = [p \in Pressers |-> Idle]
    /\ UNCHANGED <<topic, inflight, merchant, worker, truth>>

\* worker/inject.py publishes a start for any merchant, or a stop
InjectByHand ==
    /\ Room
    /\ \E m \in Merchants : \E c \in {Stop(m)} \cup {Start(m, i) : i \in ByHand} :
         topic' = Append(topic, c)
    /\ settled' = FALSE
    /\ press' = Overlap(Busy)
    /\ UNCHANGED <<inflight, stage, merchant, worker, truth>>

\* A publish that was given up on reaches the topic after all, or never does
LateArrival ==
    \E c \in inflight :
      /\ inflight' = inflight \ {c}
      /\ \/ /\ topic' = Append(topic, c)
            /\ settled' = FALSE
            /\ press' = Overlap(Busy)
         \/ UNCHANGED <<topic, settled, press>>
      /\ UNCHANGED <<stage, merchant, worker, truth>>

-----------------------------------------------------------------------------
(* The worker                                                              *)

Looping  == {"top", "sending", "closing", "observing"}
Leaving  == {"flushing", "detaching", "recording"}
Up       == worker.pc # "down"

\* A payment the scenario's observation counts: its first attempt is the one
\* the scenario targeted
InCohort(chain) == worker.scenario # None /\ Matches(worker.scenario, chain[1])

\* The chains build_chain returns under incident i: a payment of its own, or one
\* a spike forces into the incident's scope
Payments ==
    [tick \in Merchants \X Runnable \X BOOLEAN |->
        LET m == tick[1]  i == tick[2]
            force == tick[3] /\ i # None
            provider == IF force THEN i.provider ELSE Any
            banks == IF force /\ i.bank # Any THEN {i.bank} ELSE Banks[m]
        IN  UNION {Chains(i, Providers[m], b, provider) : b \in banks}]

\* A worker process
WorkerState ==
    [pc : Looping \cup Leaving \cup {"down", "starting"}, from : Int, pos : Int,
     initial : Runnable, incident : Runnable, scenario : Runnable,
     chain : {<<>>} \cup UNION {Payments[k] : k \in DOMAIN Payments},
     counted : BOOLEAN, extra : 0..SpikeMultiplier, unclosed : Int, unobserved : Int]

\* __main__: a --scenario run records its injection and starts from the
\* scenario's incident; any other run starts from its --incident-* flags.
Boot ==
    /\ ~Up
    /\ \E s \in Scenarios[merchant] \cup {None} :
       \E flags \in {i \in ByHand : WellFormed(i)} \cup {None} :
         LET initial == IF s # None THEN s ELSE flags IN
         /\ worker' = [Down EXCEPT !.pc = "starting", !.initial = initial,
                                   !.incident = initial, !.scenario = s]
         /\ truth' = IF s = None THEN NoTruth ELSE [state |-> "open", lost |-> "no"]
    /\ UNCHANGED <<control, merchant>>

\* run: the producer and the control consumer exist and the signals are armed
Arm ==
    /\ worker.pc = "starting"
    /\ worker' = [worker EXCEPT !.pc = "top"]
    /\ UNCHANGED <<control, merchant, truth>>

\* The broker assigns the fresh group its partition, at the end of the topic
Assign ==
    /\ worker.pc \in Looping /\ worker.from = -1
    /\ worker' = [worker EXCEPT !.from = Len(topic), !.pos = Len(topic)]
    /\ UNCHANGED <<control, merchant, truth>>

\* One tick begins: the builders take the incident and a chain is built under it
Begin(w) ==
    \E c \in Payments[<<merchant, w.incident, FALSE>>] :
      worker' = [w EXCEPT !.pc = "sending", !.chain = c,
                          !.extra = IF w.incident # None /\ w.incident.effect = "spike"
                                    THEN SpikeMultiplier ELSE 0]

\* A mutant of TickHearing: a command for another merchant is not consumed
TickSkippingOthers ==
    /\ worker.pc = "top"
    /\ worker.from >= 0 /\ worker.pos < Len(topic)
    /\ LET c == topic[worker.pos + 1] IN
         Begin([worker EXCEPT !.pos = @ + IF c.merchant = merchant THEN 1 ELSE 0,
                              !.incident = Obey(@, c)])
    /\ UNCHANGED <<control, merchant, truth>>

\* The poll of this tick takes one message
TickHearing ==
    /\ worker.pc = "top"
    /\ worker.from >= 0 /\ worker.pos < Len(topic)
    /\ Begin([worker EXCEPT !.pos = @ + 1,
                            !.incident = Obey(@, topic[worker.pos + 1])])
    /\ UNCHANGED <<control, merchant, truth>>

\* The poll of this tick comes back empty: nothing new, or nothing fetched yet
Tick ==
    /\ worker.pc = "top"
    /\ Begin(worker)
    /\ UNCHANGED <<control, merchant, truth>>

\* Every attempt of the chain is sent; what is left of it is whether it counts
SendAttempts ==
    /\ worker.pc = "sending"
    /\ worker' = [worker EXCEPT !.pc = "closing", !.unclosed = @ + 1,
                                !.chain = <<>>, !.counted = InCohort(worker.chain)]
    /\ UNCHANGED <<control, merchant, truth>>

\* A mutant of SendClosed: only the tick's own payment is closed, not a spike's
CloseOrdinary ==
    /\ worker.pc = "closing"
    /\ LET own == worker.incident = None \/ worker.incident.effect # "spike"
                  \/ worker.extra = SpikeMultiplier
       IN  worker' = [worker EXCEPT !.pc = "observing", !.unclosed = @ - IF own THEN 1 ELSE 0,
                                    !.unobserved = @ + IF worker.counted THEN 1 ELSE 0]
    /\ UNCHANGED <<control, merchant, truth>>

\* payments.closed is sent for the chain
SendClosed ==
    /\ worker.pc = "closing"
    /\ worker' = [worker EXCEPT !.pc = "observing", !.unclosed = @ - 1,
                                !.unobserved = @ + IF worker.counted THEN 1 ELSE 0]
    /\ UNCHANGED <<control, merchant, truth>>

\* The tick goes on with the next chain a spike forces into its scope, or ends
NextPayment(w) ==
    \/ /\ w.extra = 0
       /\ worker' = [w EXCEPT !.pc = "top", !.counted = FALSE]
    \/ /\ w.extra > 0
       /\ \E c \in Payments[<<merchant, w.incident, TRUE>>] :
            worker' = [w EXCEPT !.pc = "sending", !.chain = c, !.counted = FALSE,
                                !.extra = @ - 1]

\* ScenarioRun.observe, when there is a scenario
Observe ==
    /\ worker.pc = "observing"
    /\ NextPayment([worker EXCEPT !.unobserved =
                       @ - IF worker.counted THEN 1 ELSE 0])
    /\ UNCHANGED <<control, merchant, truth>>

-----------------------------------------------------------------------------
(* Stopping                                                                *)

\* The loop ends: a scenario's duration elapses at the top, a signal unwinds it
\* anywhere, or sending raises.  Some of the attempts of a chain being sent may
\* already be out.  What the shutdown does not read is forgotten.
Unwind ==
    /\ worker.pc \in Looping
    /\ \E partly \in (IF worker.pc = "sending" THEN {0, 1} ELSE {0}) :
         worker' = [Down EXCEPT !.pc = "flushing", !.scenario = worker.scenario,
                                !.unclosed = worker.unclosed + partly,
                                !.unobserved = worker.unobserved]
    /\ UNCHANGED <<control, merchant, truth>>

\* A mutant of Detach: an error closing the consumer skips what comes after it
DetachOrGiveUp ==
    /\ worker.pc = "detaching"
    /\ worker' \in {[worker EXCEPT !.pc = "recording"], Down}
    /\ UNCHANGED <<control, merchant, truth>>

\* The nested finally: each step is left for the next one, whether it returned
\* or was itself interrupted by a second signal or an error.
Flush ==
    /\ worker.pc = "flushing"
    /\ worker' = [worker EXCEPT !.pc = "detaching"]
    /\ UNCHANGED <<control, merchant, truth>>

Detach ==
    /\ worker.pc = "detaching"
    /\ worker' = [worker EXCEPT !.pc = "recording"]
    /\ UNCHANGED <<control, merchant, truth>>

\* ScenarioRun.close, then the handlers are restored and the process ends
Record ==
    /\ worker.pc = "recording"
    /\ worker' = Down
    /\ truth' = IF worker.scenario = None THEN truth ELSE [truth EXCEPT !.state = "closed"]
    /\ UNCHANGED <<control, merchant>>

\* record_observation is interrupted or raises: close() still drops its
\* connection and marks the run closed, so nothing tries again
RecordFails ==
    /\ worker.pc = "recording" /\ worker.scenario # None
    /\ worker' = Down
    /\ truth' = [truth EXCEPT !.lost = "while recording"]
    /\ UNCHANGED <<control, merchant>>

\* The process dies without its finally: SIGKILL at any point, or any signal or
\* error before the handlers are armed and the try is entered
Killed ==
    /\ Up
    /\ worker' = Down
    /\ truth' = IF truth.state = "open" THEN [truth EXCEPT !.lost = "killed"] ELSE truth
    /\ UNCHANGED <<control, merchant>>

-----------------------------------------------------------------------------
(* Specification                                                           *)

WorkerStep ==
    \/ Arm \/ Tick \/ TickHearing \/ SendAttempts \/ SendClosed \/ Observe
    \/ Flush \/ Detach \/ Record

Next ==
    \/ \E p \in Pressers : Press(p) \/ Publish(p) \/ PublishFails(p) \/ Remember(p)
    \/ ServerRestarts \/ InjectByHand \/ LateArrival
    \/ Boot \/ Assign \/ WorkerStep \/ Unwind \/ RecordFails \/ Killed

Spec == Init /\ [][Next]_vars

\* A started process keeps running its loop and its shutdown, the broker does
\* assign it, and its fetches do deliver.  Nobody owes a boot, a press, a stop
\* or a failure.
FairSpec ==
    /\ Spec
    /\ WF_vars(WorkerStep) /\ WF_vars(Assign) /\ SF_vars(TickHearing)

-----------------------------------------------------------------------------
(* Properties                                                              *)

\* Every variable has its type: a worker runs well-formed incidents and sends
\* chains build_chain can return
TypeOK ==
    /\ topic \in Seq(Commands) /\ inflight \subseteq Commands
    /\ stage \in Stages /\ settled \in BOOLEAN
    /\ press \in [Pressers -> [pc : {"idle", "publishing", "delivered"}, stage : Stages,
                               alone : BOOLEAN]]
    /\ merchant \in Merchants
    /\ worker \in WorkerState
    /\ truth \in [state : {"none", "open", "closed"}, lost : {"no", "while recording", "killed"}]

\* What the commands a worker has heard leave standing
Heard == {k \in (worker.from + 1)..worker.pos :
             topic[k].merchant = merchant
             /\ (topic[k].action = "stop" \/ WellFormed(topic[k].incident))}

\* A running worker runs exactly what the newest command addressed to it and
\* well formed asked for, among those published since it was assigned, and its
\* starting flags while there is none: no command is skipped, replayed, applied
\* out of turn or undone by a rejected one (IncidentControl.poll).
NewestCommandRules ==
    worker.pc \in Looping =>
        worker.incident =
             IF Heard = {} THEN worker.initial
             ELSE topic[CHOOSE k \in Heard : \A j \in Heard : j <= k].incident

\* The page and the traffic agree: once a press that nothing overlapped has been
\* remembered and the worker it targets, listening since before it, has read the
\* whole topic, the worker runs precisely the stage the control shows
\* (SurfacesApp.trigger: "remembering only what we published").
StageShownIsRunning ==
    (/\ settled
     /\ merchant = Target /\ worker.pc \in Looping
     /\ worker.from >= 0 /\ worker.from < Len(topic) /\ worker.pos = Len(topic))
    => worker.incident = IncidentFor(stage)

\* Every payment whose attempts were published is closed once and, if its cohort is
\* the scenario's, counted once, spikes included.  A worker that is not in the
\* middle of a payment owes nothing, and a stop cuts short at most the one under
\* way (worker.run, build_closed, ScenarioRun.observe).
PaymentsAreAccountedFor ==
    /\ worker.unclosed \in {0, 1} /\ worker.unobserved \in {0, 1}
    /\ worker.pc \in {"top", "sending", "observing"} => worker.unclosed = 0
    /\ worker.pc \in {"top", "sending", "closing"} => worker.unobserved = 0

\* A process that is gone has closed the C6 record it opened, whatever stopped it
\* and whatever failed on the way out, unless it was killed outright or the write
\* of the observation itself failed (worker.run's nested finally).
TruthIsClosed ==
    ~Up /\ truth.state = "open" => truth.lost # "no"

\* A worker that listens catches up with the topic, however it was interleaved
\* with the presses, unless it leaves its loop first (one message per tick).
CommandsAreHeard ==
    (worker.from >= 0 /\ worker.pos < Len(topic))
        ~> (worker.pos = Len(topic) \/ worker.pc \notin Looping)

\* A broken cohort does not give up: a payment is abandoned only when its last
\* attempt was one the running incident does not touch, so an incident never
\* hides its failures among the abandoned (build_chain, build_closed).
BrokenPaymentsAreNotAbandoned ==
    (worker.chain # <<>> /\ Outcome(worker.chain) = "abandoned")
    => ~Affected(worker.incident, worker.chain[Len(worker.chain)])
=============================================================================
