# Clearwave in TLA+

Clearwave watches a live payment stream, stores every payment attempt, detects
conversion drops, investigates them with a bounded model loop, and escalates
them to a dashboard, Slack and a phone; a judge can inject incidents into the
simulated merchants and ask questions about the data. This directory models two
kinds of thing: the parts whose correctness depends on the order of steps
(several processes share one SQLite database, and nothing but single
transactions, guards in `WHERE` clauses and primary keys keeps them apart), and
the rules that decide what is reported, adopted and listed, run on traffic that
changes under them.

All paths below are relative to `src/`.

## 1. Inventory

### Processes and what they share

| process | code | concurrency |
| --- | --- | --- |
| traffic workers, one per merchant | `worker/` | publish to Kafka, read control commands |
| detector daemon | `detector/daemon.py` | one thread: a consume loop, with a sweep on a timer between polls |
| investigation daemon | `investigation/daemon.py` | a poll loop and one investigation at a time (`max_concurrency=1`), on a thread with a timeout |
| surfaces servers | `surfaces/server.py` | one thread per HTTP request, the board polls every 2.5 s |
| CLIs | `detector/cli.py`, `investigation/runner.py` | one shot, on the same database |

Everything but the topics lives in one SQLite database in WAL mode. A fact that
shapes every model here: in Python's `sqlite3`, `with connection:` opens the
transaction at the first INSERT, UPDATE or DELETE. A SELECT in front of it runs
outside, and what it returned may be stale by the time of the write. And
`executescript` commits whatever is pending.

### Components

| component | state it keeps | operations | correct when |
| --- | --- | --- | --- |
| Ingestion consumer (`detector/consumer.py`, `store.write_batch`) | batch, pending offsets; attempt and dead-letter tables | poll, flush, commit, drain, stop | no acknowledged record is missing; an event counts once; no record stops the stream |
| Normalisation (`detector/schema.py`, `mappers.py`) | none | shape detection, mapping, pricing | a record is mapped or refused, never mis-mapped |
| Detection (`detector/detect.py`, `metrics.py`, `config.py`) | none, reads attempts | bucketing, floors, localisation, near misses, severity, recurrence | healthy traffic is never named; a watch repeats no incident; recurrence counts other episodes |
| Episode identity (`detector/cli.py`) | none, reads incidents | `adopt_watch_identity`, `cohorts_same_episode`, `incident_id_for`, recovery, expiry | an episode keeps its row and its onset; a board without a fault clears |
| Incident store (`detector/store.py`) | `incident`: state, severity, JSON record | save, expire watches, resolve recovered | watch to incident in one direction; closed is final |
| Investigation store and runner (`investigation/store.py`, `runner.py`) | `investigation_claim`, `investigation_result`, `investigation_bound`, in-flight trail | reclaim, claim, persist, book | one owner; an abandoned claim returns its row; evidence is paid for once; versions are contiguous |
| Investigation agent (`investigation/agent.py`, `gateway.py`, `trail.py`, `degrade.py`, `ledger.py`) | turns, query budget, trail, threads of abandoned calls | opening set, gather, final call, one retry, degrade | budget and deadline hold; what is stored is the run's own trail; citations can be looked up |
| Escalation (`surfaces/store.py`, `escalation.py`) | `escalation_channel_claim`, `escalation_event`, `pending_call` | gate, claim, fire, record, acknowledge | a channel fires at most once, for its band, for a diagnosis, never for a watch, and does fire |
| Judge control (`surfaces/inject.py`, `worker/inject.py`, `worker/helpers/control.py`, `worker/worker.py`) | remembered stage, control topic, each worker's active incident and its loop | press, publish, poll, tick, stop, restart | what the board shows is what the workers do; a stop leaves nothing owed |
| Payment chain (`worker/helpers/payment.py`) | attempts of one payment | attempt, retry, reroute | a broken cohort keeps failing; every payment closes once |
| Ground truth (`worker/ground_truth/`) | hidden truth records | inject, observe, close | the record is closed whatever stops the worker |
| Evaluator (`evaluator/`) | none, reads one diagnosis and one record | score | a diagnosis is scored against the record of its own scenario |
| Prefilter and ledger (`investigation/prefilter.py`, `ledger.py`) | signature, hypotheses | score, seed, rule out | thresholds separate a fault from ordinary traffic, and do not contradict each other |
| Ask (`investigation/ask.py`, `surfaces/ask.py`) | the lock, one question's budget and trail | ask, answer, refuse | one at a time; bounded; shows only what it ran |
| Board (`surfaces/present.py`, `static/app.js`) | none | partition and format | each stored row is in one section |
| Evidence tools (`detector/evidence.py`) | none | read-only queries | reads stay behind the watermark |

### How they interact

Workers publish to Kafka; the consumer turns records into attempt rows. On a
timer the same daemon sweeps: it measures, saves the incident it sees and the
near misses as watches, expires watches it no longer wants and resolves rows
whose traffic recovered. The investigation daemon polls the incident table,
claims a row (`detected` to `investigating`; a watch keeps its state), runs the
agent and stores a result. The surfaces read incident and result rows and, as a
side effect of reading, escalate. There are no messages between the last three:
they meet only in the tables. Presses of the judge go the other way: the
surfaces publish commands, each worker polls the topic once per tick and keeps
the incident the newest one left. A question to the ask box runs the agent's
gateway on a pool thread inside the request.

### What is hard here

Interleavings of SQLite transactions of processes that never wait for each
other; reads before a transaction used inside it; leases of runners that died;
a crash between two transactions of one handler, or between the store's commit
and the broker's; redelivery; a read whose side effect must happen once, though
every request attempts it; a baseline polluted by the fault it is meant to
reveal, and a localisation that drifts while the episode lasts; commands that
overlap, arrive late or are given up on; a worker stopped anywhere in its loop;
a guard that expires while the thread it guards runs on. `PROJECT.json` lists
these hazards by line and names the property that answers each.

## 2. Modules

| module | models | proofs |
| --- | --- | --- |
| `IncidentLifecycle` | the incident table between sweep and runners | `IncidentLifecycle_proofs` |
| `Ingestion` | the consumer, its broker and its tables | `Ingestion_proofs` |
| `ExactlyOnceCounting` | abstract: what ingestion promises its readers | |
| `InvestigationAgent` | one incident's runs: the agent, its call threads, the gateway and the stored trail | `InvestigationAgent_proofs` |
| `AuditedResults` | abstract: what the investigations of an incident promise those who read their results | |
| `Escalation` | `ensure_escalation` on concurrent requests, beside sweeps and the investigation daemon | `Escalation_proofs` |
| `Detection` | the rules of one sweep: measurement, floors, localisation, watches | |
| `IncidentSweep` | sweep after sweep over moving traffic: identity, recovery, expiry, priors (extends `Detection`) | `IncidentSweep_proofs` |
| `PaymentChain` | which attempt chains a worker can send for one payment under an incident | |
| `JudgeControl` | presses, commands, one worker's loop, stop and restart, its ground-truth record (extends `PaymentChain`) | `JudgeControl_proofs` |
| `MeasuredTraffic` | what the evidence tools measure of that traffic (extends `PaymentChain`) | |
| `Diagnosis` | opening, pre-filter, ledger, answer (extends `MeasuredTraffic`) | `Diagnosis_proofs` |
| `AskTheData` | one press of the ask box, the guard and the engine | `AskTheData_proofs` |
| `MC*` | the sets, tables and symmetry of the TLC runs | |

Operators marked "Mutant" in a comment are not part of a model: each is the
definition below it with a plausible bug, kept to show that a property can fail.
`PROJECT.json` pairs them with the property that catches them.

### IncidentLifecycle

The detector is one process (`sweep`); each runner is another (`pc[r]`).

| code | model |
| --- | --- |
| `run_sweep`: `build_incident`, then `build_watches` | `SweepIncident` or `SweepQuiet`, then `SweepWatch`es |
| `save_incident` | `SaveIncident`: a watch writes only a watch, an incident whatever is live, and the one state it moves is watching to detected |
| `expire_watches_except`, `resolve_recovered_incidents` | `ExpireWatches`, `ResolveRecovered` |
| `reclaim_expired_claims` | `ReclaimRead`, `ReclaimWrite` |
| `_pending_rows`, `_claim_pending` | `PendingRead`, `Choose`, `NothingPending` |
| `claim_incident` | `ClaimCheck` (its SELECTs), `TakeWatch` or `TakeDetected` (its write) |
| `next_result_version`, submit | `StartRun` |
| `persist_result` | `Persist`, `BookRun` (two transactions) |
| the clock passing `CLAIM_LEASE_SECONDS` | `LeaseExpires` |
| an exception that leaves `serve`, a kill, the restart policy | `RunnerCrash`, `Restart`, `DetectorCrash` |

Choices:

- `Abandoned` is a claim whose runner is gone, `Returnable` the filter of the
  reclaim on the row's state, and `Stranded` a claim that is abandoned where that
  filter no longer looks: the liveness properties except that state and no other.
- Which identifier a reading gets and what it measures are nondeterministic. A
  `Measurement` is as much of the record as `evidence_fingerprint` tells apart
  besides the state.
- `doc` is the `lifecycle_state` inside the record's JSON. Investigation writes
  only the column, so the two differ; the restore of an orphan reads the JSON.
- `expire_watches_except` and `resolve_recovered_incidents` read and write in
  one step: their UPDATEs are guarded, and only the detector takes a row out of
  `watching`. `claim_incident`'s two SELECTs are one step, its write another.
- `acknowledged` and `mitigated` are in the state sets because the code's
  tuples name them; no code writes them.
- `paid` is a history variable: the evidence of the last stored result.
- The agent is one step, `Persist`, that always has a result to store; what
  happens inside is `InvestigationAgent`.
- Not modelled: `run_once` for named
  incidents, several slots in one daemon. With several slots `_claim_pending`
  goes on to the next row; the daemon is started with one.

### InvestigationAgent

One incident, run after run. The agent's thread is `phase`; every tool call and
every model call gets a thread of its own (`_bounded`), which the agent joins
for what is left of its wall-clock budget and then leaves running.

| code | model |
| --- | --- |
| `investigate`: the opening set, then the prompt | `StartRun`, `OpeningDone`, `PromptRefused` |
| `_gather` | `ModelCalls`, `ModelStops`, `CallTool`, `ToolReturned` |
| `_final_call`, `_validate`, `_retry_final` | `Accept`, `Reject`, then `Accept` or `Unavailable` |
| `_finish_degraded` and what leads there | `Degrade` in `Unavailable` and `TimedOut` |
| the wall-clock budget of 300 s | `DeadlinePasses` |
| `EvidenceGateway.call` and `EvidenceTrail.record`, on the call's thread | `NextQuery`, `Refuse` or `Admit`, `Charge`, `Execute`, `Number`, `Record`, `Persisted`, `Return`; `Raise` |
| `persist_result`'s trail | `Persist` |
| a kill, and the rerun under the same version | `Crash` |

Choices:

- The threads of evidence calls are modelled statement by statement, since an
  abandoned one goes on charging the budget and writing the trail while the
  agent degrades and the runner stores. A model call has no effect but its
  answer, so an abandoned one needs no state.
- `Forget` drops the late threads of a run that is over: each run builds a
  gateway and a trail of its own, so what they still write nobody reads. Their
  live write could reach the table but raises (`LiveWrite`).
- "answered" is any outcome the model itself may return. The second attempt
  without `reasoning` is part of the model call. The runner's own fallback for
  the exceptions it names is left out: the agent returns on all of them, and the
  assertion on the prompt is not among them.
- `executed` is the trail's flag: attempted, whatever came of it.
- The ledger is seeded and put in the prompt; no run calls its transitions.
- `trail` in `results` is history: what the run had recorded when it was stored.

`AuditedResults` is the agent without threads, turns and deadlines: a run gathers
numbered queries within its budget and publishes, at once, a result that cites
nothing else, with all it gathered; a run that dies leaves nothing.
`ResultsAreAudited` is the refinement. What is published is read as a reader of
the database reads it (`Readable`, after `_result_from_row`): a result's row and,
from another table, the rows of its version. An append to the trail is the
gathering, whichever thread makes it; `Persist` is the publication. The invariants
look at one stored result at a time; the refinement adds that results are only
ever appended, one a run, and that a run starts from nothing. A gateway shared by
two runs breaks it and none of the invariants. It is also what
`IncidentLifecycle!Persist` takes for granted: one result a run, in one step.

### Ingestion

One partitioned log, one consumer. `Poll`, `PollNone` and `PollError` are the
three results of a poll; `WriteBatch` is `write_batch` and the store's commit,
one transaction; `CommitOffsets` is `KafkaSource.commit`. Records are classed
by what happens to them: `Good` normalise, `Refused` are dead-lettered,
`Unstorable` normalise to a row that violates NOT NULL, and on `Poison` the
normaliser raises something no handler names. The broker (`Produce`,
`Rebalance`, redelivery from the committed offset) is external and modelled
from how the consumer uses it. A rebalance gives the partitions back at their
committed offsets while the batch in memory still holds what was read beyond.
The one-shot command's bounds (idle polls, message count, deadline) only end
the same loop earlier; the daemon sets none. The sweep between polls writes
other tables and is in `IncidentLifecycle`.

`ExactlyOnceCounting` says what the metrics rely on: an event is counted at
most once and never before it is published. `CountsExactlyOnce` is the
refinement, with the published set read off the log and `rows` as the counter.

### Escalation

Each reader is a request thread inside `ensure_escalation`. The row it works on,
and the result that opens its gate, are written by two other processes.

| code | model |
| --- | --- |
| `list_incidents` or `load_incident`, then `read_result` | `ReadRow`, `ReadResult` (two reads: a claim may be taken or dropped in between) |
| `InFlightInvestigation`, falsy while a claim row exists, whatever is stored | `ReadsResult` |
| the early returns: a watch, no result, nothing unrecorded | `Check` |
| `_claim_channels` (INSERT OR IGNORE, one claim per channel) | `ClaimChannels` |
| `escalate`, channel by channel, with the phone's fallback | `Fire` |
| the outcomes, one transaction | `Record` |
| `save_incident`; expiry and recovery | `SaveIncident`, `SaveWatch`; `CloseRow` |
| the investigation daemon: poll, claim, `persist_result`, reclaim | `PollRow`, `ClaimRow`, `StoreResult`, `Reclaim` |
| a request or the daemon killed | `Crash`, `DaemonDies` |

Choices:

- The writers abstract `IncidentLifecycle`, which has their steps one by one and
  the evidence that is paid for; here a claim, a completion and a reclaim are one
  step each, and what matters is which states they read and restore.
- `lease` is the claim row, with the state it was claimed from. A claim without
  a live run behind it has expired some time later, so `Reclaim` has no clock.
- `Stranded` is a claim that no run holds and no reclaim looks at, `LostClaim` a
  channel whose request died before its record. They are the two ways in which
  the code loses or holds back a page, and each takes a death.
- A `Crash` of a request is a kill of the process or a database that stays
  locked past its timeout.
- History variables: `fired`, `reached`.

### Detection and IncidentSweep

`Detection` has the rules of one sweep as operators over a sequence of buckets:
`Trailing` buckets of baseline, then `Window` under test. `IncidentSweep` lets
buckets of one scenario or another pass and sweeps them.

| code | model |
| --- | --- |
| `payment_metrics`, `attempt_pressure` over a window | `Point`, `Measured` |
| `baseline_conversion`, `two_proportion_z`, `evaluate` | `BaselineConversion`, `TwoProportionZ`, `Evaluate` with its four floors |
| `trajectory_of`, `leading_indicators`, `watch_floors` | the same names |
| `localise`: contrasts, unique children, singletons, the sharper merchant | `BestSplit`, `UniqueChildren`, `Singletons`, `Sharper`, `Descent`, `Localise` |
| `build_incident`, `build_watches` and what they call | `BuildIncident`, `WatchCandidates`, `Deepen`, `SelectNearMiss`, `MostExtreme`, `BuildWatches` |
| `_episode_extent` | `EpisodeExtent` |
| `adopt_watch_identity`, `incident_id_for` | `Matches`, `Adopt`, `IncidentIdFor` |
| `save_incident` from one sweep | `Save` |
| `prior_matching_incident_count` | `Priors` |
| `expire_watches_except`, `_recovered_incident_ids`, `resolve_recovered_incidents` | `Unwanted`, `Recovered`, `Resolve` |
| `_sweep`: the readings, one save after another, expiry and recovery | `Measure` with `Report`, `Record`, `Close` |

Choices:

- Arithmetic is exact: counts are integers, rates are per mille, z-scores are
  tenths, rounded down. The thresholds are the ones of `config.py` in these
  units. What floating point makes of an exact tie is outside the model.
- A bucket is a scenario, which fixes each cell's counts. There is no sampling
  noise; a payment has one attempt (retries are `PaymentChain`'s).
- A sweep measures, saves its readings one at a time (the incident, then the
  watches in the order of their keys) and closes. No bucket passes meanwhile:
  the sweep runs in the consumer's own thread. `IncidentLifecycle` takes the
  same sweep apart beside the runners, with a free choice of readings; here
  there is no runner, so a row is watching, detected or resolved.
- `sweep` keeps what the last sweep has still to save and what it has saved,
  under which identifier and with which priors (`log`). `taken` is read off it.
- `HealthyIsBest` is not assumed by the module. It is the hypothesis of the two
  properties that speak of health: no scenario gives a cell more payments, or a
  better share of approvals, latency or timeouts, than any healthy cell has. It
  is needed, because the code compares a cohort with its own past: where healthy
  cells differ, a change of their mix moves a cohort nothing is wrong with. TLC
  evaluates it on the instance of `sweep`.
- The order of two rows of equal onset is that of a SHA-256 digest in the code.
  Here it is that of the keys.
- Left out: the severity ladder and its promotion by recurrence, merchant
  normals, financial impact, and the wording of C3.

### PaymentChain, JudgeControl

`PaymentChain` computes, for an incident, the set of attempt chains
`build_chain` can return (`Chains`, level by level, from the last attempt it
may make to the first), with routing (`Candidates`, `Routes`: an
outage avoids its provider, a confound pins one), outcome (`Statuses`) and the
closing event (`Outcome`). `JudgeControl` sends them.

| code | model |
| --- | --- |
| `POST /api/trigger`, `fire_hidden_incident`, `SurfacesApp.trigger` | `Press`, `Publish` or `PublishFails`, `Remember` |
| a flush that times out with the message under way | `inflight`, `LateArrival` |
| `worker/inject.py` | `InjectByHand` |
| the server started again | `ServerRestarts` |
| `__main__`, with a scenario or with incident flags | `Boot`, `Arm` |
| the control consumer's assignment at the end of the topic | `Assign` |
| one pass of `run`'s loop: poll, chain, closing event, observation | `TickHearing` or `Tick`, `SendAttempts`, `SendClosed`, `Observe` |
| spikes | `extra`, the forced chains of `NextPayment` |
| a signal, a duration, a broker error, and the nested `finally` | `Unwind`, `Flush`, `Detach`, `Record` or `RecordFails` |
| SIGKILL, or anything before the signals are armed | `Killed` |

Choices: one worker is modelled against any number of presses, since workers
share nothing but the topic. A tick takes at most one message, as `poll` does.
`settled` and a press's `alone` are history: they say that no other command
overlapped the last press. Amounts, names and telemetry are left out.

### MeasuredTraffic, Diagnosis

`MeasuredTraffic` weights each chain by the simulator's own probabilities and
aggregates the result as `metrics.py` and `evidence.py` do: `KindOf` is what
`mappers.py` makes of a refusal, `CohortMetrics`, `CohortCompare`,
`DeclineBreakdown`, `RetryStats`, `OperationalMetrics` and `ConfoundingCheck`
are the opening's tools. `Diagnosis` runs one investigation over it.

| code | model |
| --- | --- |
| `opening_bundle`, each tool of which may fail | `Open`, `Opening`, `NoFields` |
| `compute_signature`, `_PATTERNS`, `prefilter` | `Signature`, `Score`, `Listed` |
| `HypothesisLedger.from_prefilter`, `_deterministically_contradicts` | `Seeded`, `Contradicts` |
| `EvidenceGateway.call` | `Query` |
| `_validate`, `degrade_result` | `Accept` with `Validates`, `Degrade` |

Choices: the numbers are long-run averages, so that a property says what the
thresholds do on typical traffic. Telemetry's runtime health
(`heard`) is free. Queue depth is absent from every attempt, as in the code.
`PercentileIsSlow` is `_percentile` to the attempt: the nearest rank, rounded
half to even as Python's `round` does.

The ledger's predicate `Contradicts` is modelled and applied to what the run
observes, but no run of the product calls `HypothesisLedger.update`: the two
properties about it, `SlowProviderStaysAccused` and `WhatIsListedStands`, say
that the predicate agrees with the pre-filter, not that a run depends on it.

### AskTheData

| code | model |
| --- | --- |
| `POST /api/ask`, the ask lock, 409 | `Ask` |
| `_call_engine`: result in time, guard expired, pool joined | `Shown`, `GuardExpires`, `Joined` |
| `AskAgent.ask`: orientation, gathering turns, calls | `Orient`, `Gather`, `Call`, `Refuse` |
| `_final_call`, `_validate_answer`, the second draft | `Final`, `Stands`, `Retry` |
| `_result`, `_unavailable` | `Result`, `Unavailable`, `CannotStand` |
| any deadline or error | `Fail` |

Choices: a draft is its outcome, the digits of its prose, its figures and
whether it forecasts; the model may write any of them. The threads abandoned
calls leave behind are `InvestigationAgent`'s, whose loop this engine inherits.

## 3. Runs

| run | instance | shows |
| --- | --- | --- |
| `lifecycle` | 2 incidents, 1 runner, 2 sweeps, 1 crash, fair | (275,399 states) an `investigating` row is owned by a claim taken from detected; no row is `investigating` for ever; a claim whose runner died returns its row; a detected row gets one more result or closes, a crash or not; until a crash, evidence is paid for once |
| `lifecycle_two_runners` | 1 incident, 2 runners, 2 sweeps, 1 crash, runs may outlive leases | versions are 1..n, nothing overwritten; a closed episode is final |
| `agent` | 3 queries, 2 allowed, 2 threads, budget 1, 2 turns, 2 runs, fair | the budget holds; a stored trail is whole and of its own run; citations can be looked up, an answer's were executed; refinement of audited results; every run ends though no call has to return |
| `ingestion` | 2 partitions, 2 records each, batch 2, 2 faults, fair | nothing lost; a stop drains; refinement of exactly-once counting; everything is handled in the end unless poison is published |
| `escalation` | 1 incident, 2 requests, 2 detector writes, 2 runs, 1 death, fair (349,674 states) | at most once per channel; silence for watches; no page for a run in flight; only bands that were reached; a due channel is recorded unless its request died or its gate is stranded |
| `sweep` | 2 merchants, 2 providers, 2 countries on 5 cells, 5 scenarios, 6 + 4 buckets of 18, 3 changes, 1 bucket late (104,521 states) | only traffic that is ailing is named; watches stay off an incident's traffic; once the window is healthy the board is empty; a first fault has no priors; a live row's onset never moves |
| `control` | 2 merchants, 2 pressers, 2 commands, 2 attempts, spikes of 1, fair (298,247 states) | the newest command rules; the stage shown is the stage that runs; payments are closed and counted once; the C6 record is closed; broken payments are not abandoned; commands are heard |
| `ask` | 2 presses, 2 queries, 1 digit, 2 turns, budget 2, 2 calls a turn, fair (63,411 states) | one question at a time; figures are backed; spending is bounded; a question is answered |
| `diagnosis` | 3 providers, 2 banks, 9000 payments a bank, 7 incidents, 5 cohorts, 1 failing call, 1 query (187,530 states) | ordinary traffic is not blamed; a slow and declining provider is listed although a tool failed, and not ruled out by its own window; pre-filter and ledger agree |

The type invariants are theorems (section 4) and not checked again by the runs;
that of `IncidentSweep` also says that no row was last seen before its onset.

Three runs end in a counterexample, each to a sentence of the repository:

| run | property | what the code does |
| --- | --- | --- |
| `sweep_fault_returns` | `ReturnIsAnIncident` | a fault that eases for one sweep has its row resolved; back at the same onset and cohort it hashes to that row's identifier, which `save_incident` will not write again: a running fault has no live row |
| `ask_guard` | `GuardBoundsThePress` | the guard's answer is returned inside `with ThreadPoolExecutor`, whose exit joins the engine: press and lock wait as long as the engine runs |
| `diagnosis_confound` | `ConfoundIsReported` | one bank pinned to one provider; `confounding_check` cross-tabulates the whole merchant, where the provider still carries other banks, so nothing is reported inseparable and no hedge is asked for |

More disagreements show in the models, or were met while reading for them,
without a run of their own.

Incidents and investigations:

- A row polled as watching and upgraded before the claim is claimed as detected
  but completed to watching: the run is stamped with the state its poll read
  (`investigation/runner.py:218`, against `investigation/store.py:324`). The
  model has it; `DetectedIsInvestigated` allows for it, because the row comes
  back on offer.
- A dead runner's watch claim on a row since upgraded to detected matches no
  branch of the reclaim (`investigation/store.py:203`): the row is never on offer
  again, and while the claim is held its result reads as a run in flight, so the
  pages it is due are held back too (`investigation/store.py:434`,
  `surfaces/store.py:322`). `Stranded` names the state in both modules, and
  `AbandonedClaimReturns`, `DetectedIsInvestigated` and `DueChannelIsRecorded`
  except it.
- A crash between `persist_result`'s two transactions loses the cost bound and
  the evidence is paid for twice (`investigation/store.py:395`).
  `PaidOnceUntilCrash` says "until" for that reason.
- The live connection belongs to the runner's thread and is written on the
  call's: sqlite3 refuses, the gateway swallows it, and the in-flight trail
  stays empty (`investigation/runner.py:285`, `gateway.py:335`).
- With two runners `claim_incident`'s reads may both precede either write, so
  that a watch claim and, after an upgrade, a detected claim of one incident
  succeed together (`investigation/store.py:132` calls the claim row the mutex).
  That is why the two-runner run states versions and closure only.
- A degraded result cites queries that were refused for budget
  (`investigation/degrade.py:120`), where docs/adr/0006 wants citations of
  evidence that ran. `CitationsHold` asks for execution in answers only.
- `assert_prompt_safe` raises an AssertionError, which the runner does not name:
  the process dies instead of emitting an outcome (`PromptRefused`), and meets
  the same evidence again once the lease has expired.

Ingestion and escalation:

- An amount `float()` refuses raises out of `write_batch`; the daemon dies on
  that offset for ever (`detector/schema.py:131`). `EverythingHandled` excludes
  poison for that reason.
- A NaN amount becomes NULL and INSERT OR IGNORE drops the row silently.
  `NothingLost` is checked and proved without such rows.
- A replay after a crash between the two commits dead-letters a refused record
  twice (dead letters have no natural key; `detector/consumer.py:192` says every
  insert is idempotent).
- An expired, investigated watch is `resolved` and escalates to the dashboard
  (`surfaces/store.py:48`, against 188-190).
- A request that dies after its claim takes its channels with it: the claim
  outlives it, and a later read finds the channels taken. `DueChannelIsRecorded`
  excepts it as `LostClaim`.

Sweeps:

- A platform-wide incident has the empty cohort, which `cli.py` tests as false:
  its slices are watched again, and a watch may hash to the identifier the
  incident adopted (`detector/cli.py:258`). `WatchesSpareFormedTraffic` excludes
  the platform for that reason.
- Readings of one sweep claim open rows in the order of their keys. A watch that
  merely agrees with an open row (a country with a merchant's provider) takes its
  identifier before the watch of that very cohort is read, which then mints a
  second one: two live rows of one cohort, where `adopt_watch_identity` says that
  "an exact match is therefore always adopted" (`detector/cli.py:161`). TLC
  reaches such a state within 17 buckets of the `sweep` instance.
- An expired watch is `resolved` and counts as a prior incident, where
  `config.py` says a warning "must never lift a later band" and
  `detector/detect.py:486` that "a `watching` row never counts". A fault that
  changes twice (a near miss, a provider that receives nothing, an outage) may
  find its own warning expired and count it.
  `FirstFaultIsNoRecurrence` therefore speaks of a first fault that changes at
  most once before it goes.
- A fault that lasts long enough is absorbed into its own baseline; on 22
  buckets instead of 18 an incident may then resolve and be counted as a prior
  of what is still the same fault.
- An incident may even be a prior of itself, where
  `prior_matching_incident_count` counts "episodes, not rows"
  (`detector/detect.py:477`). A watch of another cohort that agrees with a
  detected row adopts its identifier, its save is refused because the row is no
  watch, and `last_seen` stays where it was; a gap later the row is quiet enough
  to count, under the very fault it records. TLC reaches it on 26 buckets of a
  judge's stages (`Demo`), once the healthy traffic has left the span a sweep
  reads. `FirstFaultIsNoRecurrence` therefore speaks of the time before that.
- A deepened near miss is projected onto merchant and provider
  (`detector/detect.py:1437`) without asking again whether that slice carries
  the incident's traffic: a seed kept apart from the incident by its country or
  bank may lose that very dimension. `WatchesSpareFormedTraffic` leaves out that
  projection.

Judge control and workers:

- The retry under an outage excludes the previous provider first, which can
  leave only the one that is out (`worker/helpers/payment.py:149`), where the
  outage's comment calls that reachable only without an alternative (line 233).
- A failed press answers "Nothing was injected", though a flush that timed out
  may deliver later (`surfaces/inject.py:192`, `LateArrival`).
- A restarted server shows clear while a worker runs an incident; a restarted
  worker has missed the commands before it. `StageShownIsRunning` speaks of a
  worker listening since before the press for that reason.
- A scenario's observation goes on counting its cohort after live control
  replaced the incident.
- A signal before `arm_signals`, or a second one while the record is written,
  leaves the C6 record open. `TruthIsClosed` names both.

Ask, diagnosis and evaluation:

- `_invoke` retries on any TypeError without the deadline; the orientation's
  deadline is shown as an engine error; the assertion on the prompt raises past
  handlers under a docstring that says never.
- A figure's value is never compared with the response it cites, and a failed
  call counts as executed for citations.
- After two rejected drafts the card is bare, where ask.py says a refusal is not
  an empty card.
- The ledger's issuer rule contradicts from an absent shift (it reads as zero,
  `ledger.py`), where its docstring "deliberately does not infer contradiction
  from an absent field"; any executed citation of any cohort and window will do.
- No source's vocabulary yields `issuer_decline`, so the issuer hypothesis has no
  share to rise; a provider's declines for timeouts are stored as declined, so
  the timeout rate by status does not move; a pure latency incident scores 18 of
  the 20 its hypothesis needs; `deployment_configuration_problem` can never pass
  the threshold; ordinary traffic's p99 makes `infrastructure_failure` a
  permanent candidate.
- `load_hidden_truth` returns the one closed record of an earlier run although
  the scenario's own is still open, where its docstring would "refuse if the
  match is missing, open, or ambiguous" (`evaluator/truth.py:81`); a degraded
  result passes the evaluator's uncertainty check; the validation does not ask
  for the missing evidence the evaluator wants.

### Bounds

Counters are bounded in guards only. `MaxSweeps = 2` allows watch, upgrade and
close, or detect, close and a returning reading, with any runner step between;
two incidents exercise `keep`, `taken` and the order of `todo`. `MaxCrashes = 1`:
a second crash of a runner finds what the first left, since a restart keeps
nothing in memory. In `Ingestion` two records per partition over two partitions
are the smallest log where a batch spans partitions, is flushed early, and
where an event is published twice to one or to two partitions;
two faults are the smallest number for a crash in a replay, or a rebalance
followed by a stop. In `Escalation` two detector writes let a row leave watching, or cross a band
in either direction, between a read and its claim; two runs are a watch
investigated and then, upgraded, claimed again; one death is the daemon's under
either run, or a request's; two readers overlap, and every channel and every claim
is an incident's own, so a second incident adds nothing to the first.
In `InvestigationAgent` two threads are enough for a call and an abandoned one;
the second thread has nothing to do in the model, because an agent that has
timed out makes no further call, and gives a mutant its second caller. A budget
of 1 with two turns has one call executed and the next refused; `qx` is a tool
that is not allowlisted; `MaxCalls` is 1 because requests say
`parallel_tool_calls=False`; two runs are a crash and its rerun under one
version, or two results.

In `IncidentSweep` the scenarios are healthy traffic, the two stages a judge
presses (a near miss and an outage), a provider that receives nothing and a
platform-wide collapse; three changes are a fault that develops, worsens and
ends, or returns. The lengths are scaled down and counted in
buckets: window 4 and baseline 6 for the code's 5 and 60, episode gap 6 for its
15 minutes, look-back 12 for its 6 hours. They keep window < gap < look-back, so
that a fault can outlast its window, a row leave the gap while it is still
counted, and, because the baseline is short, a fault enter its own baseline
within 18 buckets. `FirstFaultIsNoRecurrence`, which the bound
limits, was tried on longer streams as well: 19 buckets with three changes and 20
with two. The five cells give every rule of localisation a case: a
merchant on both providers, a provider with one merchant in a second country, a
dimension with one sibling. In `JudgeControl` two commands are a press and one
that overlaps or replaces it; two attempts are the smallest chain that is
retried or rerouted; a spike of one forces one payment more. In `AskTheData` two
calls of two turns against a budget of two reach a spent budget, a refusal and
an end inside a turn. In `Diagnosis` the incidents are the two scenarios, one
for each other effect or scope, and none; 9000 payments a bank leave no share
rounded to zero.

What a bound could hide: every safety property that a passing run checks, but
`FirstFaultIsNoRecurrence`, is proved (section 4) and holds for every bound; two
of `diagnosis` hold where the shares of the traffic are as their hypotheses say,
which that instance fulfils. What is left to the bounds is that one and liveness.

`CHECK_DEADLOCK FALSE` appears in the ingestion, agent, sweep and diagnosis
configurations: a quiet topic at its bound has nothing left to do, as a real one
has for a while, and neither has an incident whose runs are over, a stream at
its last bucket, or a diagnosis that is answered.

### Fairness

- Runners: weak fairness on each runner's step. `serve` loops on a poll
  interval, the agent has a timeout of 300 s and ends in a result on every path
  (`degrade`), and compose restarts a dead process. `LeaseExpires` is weakly
  fair because clocks advance. Sweeps have no fairness: traffic owes nobody an
  incident or a recovery.
- `LeaseCoversRun` is the lease of 330 s against the agent's timeout of 300 s.
  It is an assumption on whole runs, switched off in `lifecycle_two_runners`.
- Ingestion: weak fairness on the consumer's step, which includes being started
  again (`restart: unless-stopped`). Log and faults are bounded, so the step
  cannot be pre-empted for ever.
- Agent: weak fairness on what is the agent's own to do (`Worker`) and on
  `DeadlinePasses`. Nobody owes an answer: neither the model nor the thread of a
  call is fair, so `RunEnds` rests on the deadline alone.
- Escalation: weak fairness on a request's steps, and strong fairness on
  reading each row. The board polls and every poll visits every row, but a
  reader reads anew only between requests, so the action is enabled again and
  again and not continuously. Weak fairness on the daemon's claim, its result and
  its reclaim of each row, for the reasons given for the runners; whether it takes
  a row up at all (`PollRow`) is nobody's due here.
- Judge control: weak fairness on the worker's own steps and on its assignment,
  strong fairness on a poll that returns a message, because a poll may come back
  empty before a fetch has delivered but not for ever. Nobody owes a boot, a
  press, a stop or a failure.
- Ask: weak fairness on a request's thread in both ask runs; on the engine only
  in `ask`, because its calls are joined for the rest of a wall-clock budget.
  `ask_guard` drops it: what the guard is for is an engine that does not end.
- `sweep` and `diagnosis` state no liveness and assume no fairness.

## 4. Proofs

Every theorem is for all values of the constants; TLAPS checks each to the last
leaf.

| theorem | assumes | inductive invariant |
| --- | --- | --- |
| `IncidentLifecycle_proofs!TypeCorrect` | | `TypeOK`, with the numbering below |
| `VersionsCorrect` | | `Numbered` and `RunsWriteNextVersion`: a running job's version is at most one above the last stored one. It is needed because versions are allocated when a run starts |
| `ClosedStaysClosed` | | step by step: each write of the table is guarded by a live state |
| `InvestigatingClaimed` | `OneRunner`, `LeaseCoversRun` | `AloneInv`: a run holds its claim, and what a reclaim has read is still what it will write (`ReclaimFresh`), which fails with a second runner |
| `NeverPaidTwice` | `OneRunner` | `PaidInv`: the bound equals `paid` except while a runner is between its transactions, and that runner is the only one. It holds until the first crash, and a crash between the two transactions is what happens after (section 3) |
| `BoundCounts` | `OneRunner` | `CountInv`: the bound's count is the number of results, less one while a result is stored and not booked |
| `InvestigationAgent_proofs!TypeCorrect` | | `Typed`, and the agent waits only in the phases that call |
| `BudgetIsKept` | | `OneCall`: until the agent degrades, the only call under way is the one it waits for, and it starts none afterwards, so check and charge have one caller; `BudgetInv` counts the executed entries and the charge in flight |
| `StoredTrailCorrect` | | `TrailInv`: what is numbered and not yet appended is next in the trail, which needs `OneCall` too; nothing of the version under way is in the table |
| `CitationsAreStored` | | `CiteInv`: a pending result's citations are in the trail, which only grows until it is stored |
| `Implements` | | the agent's invariants above, together; initial states map to initial states, `Record` to `Gather`, `Persist` to `Publish`, a death to `Abandon`, every other step to `Begin` or a stutter. The trail numbers its entries, so they are as many as the last number (`EvidenceCount`) |
| `Ingestion_proofs!TypeCorrect` | | `TypeOK` |
| `NoLoss`, `StopIsClean` | `Unstorable = {}` | `Covered`: a record read past the committed offset is handled or in the batch; `Durable`: once the store has committed, all of the batch is handled; `OffsetsExist`. a row that INSERT OR IGNORE drops is lost, which is why unstorable records are excluded |
| `Refines` | | `RefInv`; initial states map to initial states, each step to `Publish`, `Count` or a stutter |
| `Escalation_proofs!TypeCorrect` | | `TypeOK` |
| `FiresOnce` | | `FireInv`: a channel somebody is about to fire has not been fired, two requests never hold the same one, and what was fired is claimed |
| `WatchesAreSilent`, `BandsAreReached` | | `BandInv`: what a reader has seen was true of the row at some time since it may escalate, and what the row has reached only grows, though a run may move it back to watching |
| `PagesHaveResults` | | `GateInv`: a reader that has passed the gate read a result that is stored, and results stay |
| `CallsRing` | | `CallInv`: the call rings from the firing on, before the outcome is recorded |
| `AskTheData_proofs!TypeCorrect` | | `TypeOK`, and the paces of a turn: calls are left only while tools run, turns are left while the model is asked |
| `OneQuestionAtATime` | | `OneQuestion` is inductive |
| `SpendingIsBounded` | | `Accounted`: the executed entries beside the orientation are at most what was spent, and the trail is empty while no engine runs; the bound on the calls is in the paces, one more than the turns for each final draft |
| `ShownWasMeasured` | | `BackedInv`: the engine's pending result is backed by the trail it lists, on the paths of both drafts and of every refusal |
| `JudgeControl_proofs!TypeCorrect` | | `TypeOK` and `Positions`: a worker reads from where it was assigned and never past the end |
| `NewestCommandIsObeyed` | | `Obeyed`: the incident is that of the greatest position heard, or the starting flags; a rejected or foreign command moves the position only |
| `ShownStageRuns` | | `Shown`: of two presses under way neither is alone, and the newest command is the press that is alone and delivered, or the one remembered with none after it. With `Obeyed`, since the last position is then the greatest one heard |
| `PaymentsAccountedFor` | | `Books`: what is owed at each point of the loop; a shutdown inherits it |
| `BrokenPaymentsEnd` | | `ChainIsTheIncidents`: the chain under way is one `build_chain` can return for the incident that still runs. By induction on the attempts left, no such chain ends early on an attempt its incident touches (`ChainsEnd`) |
| `TruthClosed` | | `Recorded`: an open record has a scenario in the process that can close it, or was lost for a named reason |
| `Diagnosis_proofs!TypeCorrect` | | `TypeOK`, and the trail is a finite function |
| `ListedStands` | | `Seeds`: the ledger is seeded from the very responses the trail still holds. Then by the scores: an application failure is listed only above the bounds its contradiction needs to be below. The rates are numbers (`RatesHold`), by sums over payments and chains |
| `OwnTrafficIsHeard` | | `Typed`. For a cohort inside a slow incident's scope every attempt of the window is slow, so its 95th percentile is, and the provider hypothesis is not contradicted |
| `OrdinaryIsSpared` | `Comparable` | `Seeds`: the ledger is what the pre-filter makes of the bundle the trail holds, and over ordinary traffic every bundle is calm, whichever tools failed: see below |
| `SlowIsHeard` | `SlowTrafficIsHeard` | `Typed`. The slow attempts of a cohort are at least those of its part the incident touches (`SlowGrows`), and more than a twentieth of it; rounding moves a rank by a half at most (`RoundedIsNear`), so the 95th percentile falls among them (`SlowTail`) |
| `TheCulpritIsListed` | `CulpritsStandOut`, `MaxFailures <= 1` | `Seeds` and `OneFails`: of the opening's queries at most one is unanswered, and asking more changes no entry. Timeouts up 20, slow 18, isolated 10: two of the three exceed 20, and the one term that is subtracted never applies, because no source spells `issuer_decline` |
| `IncidentSweep_proofs!TypeCorrect` | | `SweepInv`: the table, the sweep and the log are well formed; a row's onset is the one in its identifier (`Pinned`); what a sweep has still to save it measured now (`Underway`); its incident and its watches, saved or not, share no traffic (`Spared`) |
| `FormedTrafficIsSpared` | | `SweepInv`. A seed is kept off the incident by a dimension both fix differently; every descent and every deepening keeps it, the projection aside |
| `OnsetsHeld` | | `Pinned`, step by step: whichever row is adopted, the reading is saved with the onset of its identifier |
| `TheQuietBoardClears`, `OnlyAilingCohortsAreNamed` | `HealthyIsBest` | `CalmInv`: what a sweep has named or is to name ails in the window, and what is hot does. A baseline that faults pollute is no better than healthy traffic (`NoBetter` is kept by sums of cells and of buckets, and by the shrinkage), so a cohort that is healthy in the window falls below it on no measure: it qualifies for nothing and is hot for nothing |

`OneRunner` is how the system is deployed: one investigation container, one
slot. Assumptions about the constants (`ConstantAssumption`,
`AgentAssumption`, `IngestionAssumption`, `EscalationAssumption`,
`AskAssumption`, `ChainAssumption`, `ControlAssumption`, `TrafficAssumption`,
`DiagnosisAssumption`, `DetectionAssumption`, `SweepAssumption`) only separate
`None`, `Any` and the record classes, order the query sets, make guaranteed
scenarios well formed and type the tables and bounds; TLC evaluates them on every
run.

`TrafficAssumption` also says that every incident of the diagnosis is one
`Incident` accepts (`__post_init__`), and that `None` is no provider.

Hypotheses about data are stated in the theorems that need them and assumed
nowhere else:

- `HealthyIsBest`, of the two theorems on the quiet board (section 2).
- `Comparable`: the merchant has a second provider or a second bank. With one of
  each, `confounding` reports every window inseparable, and ordinary traffic is
  24 points towards `issuer_over_decline`, which is listed.
- `SlowTrafficIsHeard`: a slow incident's attempts are more than a twentieth of a
  reported cohort that its provider belongs to, with a margin of 29 attempts out
  of twenty times theirs. At a twentieth exactly, and for some small numbers just
  above it (2 of 31), the nearest rank is still a fast attempt and the ledger does
  contradict; 29 is the least margin that suffices for every number, since that
  rank is rounded down by half an attempt at most. It is a hypothesis and not a
  consequence: among a great many providers a slow one is drowned, the 95th
  percentile does not see it, and the ledger may clear it.
- `CulpritsStandOut`: a provider that declines for its timeouts shows each of the
  three signs when its tool answers. Drowned or with too few payments, it need not.

`MCDiagnosis` has TLC evaluate the last three on its instance
(`InstanceAssumption`), where the same properties are checked.

Why ordinary traffic is calm. A window's chains are a tree: an attempt of one of
the admissible providers, and after a refusal the tree of one attempt less. What
the payments that take a subtree are worth is bounded in terms of those that
enter it (`TreeFlow`, by induction on the attempts left), for two gauges: refused
attempts against attempts made, at most 12 in a hundred, and attempts made
against payments, at most 11 for 10. Integer division only loses payments on the
way, and the gauges are made so that a loss does no harm: each branch is bounded
by itself. Summed over the rows of a cohort they put its timeouts, its errors and
its retry factor below every threshold (`OrdinaryRates`), and a decline mix of
ordinary traffic does not shift against itself (`OrdinaryShifts`). Isolation
needs a converse: exchanging two providers, or two banks, maps chains to chains
that as many payments take (`TwinChains`), so a cohort converts exactly like a
sibling that pays at all, and is not 50 below it (`NoneStandsOut`). Last, the
chains that begin with an approval pair every provider with every bank, so the
dimensions are told apart wherever there is anything to tell
(`NotInseparable`). The scores of a calm opening then stay at 20 or below
(`CalmLists`): the slow tail alone is 18, which is why the threshold being
strict and this high matters.

Induction. The library's induction theorems take a predicate as a parameter,
which the provers cannot instantiate. The proofs about data use them in a form
without one: what is to be shown is the membership of a set, and the least
element outside it, which well-foundedness gives, is impossible (`Induct`). With
it come the finite sets (`SubsetInduct`) and the recursion of a function over
them, which is what the folds and sums of the community modules are defined by:
`Sums` in `Diagnosis_proofs` and its counterpart in `IncidentSweep_proofs` say
that such a function exists, so that a sum over one element more is one summand
more. For the same reason `PaymentChain` recurs on the attempt alone, and
`MeasuredTraffic` takes its sums from the community module.

Model-checked only:

- All liveness (`DetectedIsInvestigated`, `InvestigationEnds`,
  `AbandonedClaimReturns`, `EverythingHandled`, `DueChannelIsRecorded`, `RunEnds`,
  `CommandsAreHeard`, `AskIsAnswered`), which needs fairness and ENABLED, out of reach of the prover.
- `FirstFaultIsNoRecurrence`: that a row of the same fault is never a gap older
  than a measured onset rests on how far localisation moves on the traffic given.
- The three runs that end in a counterexample, as counterexamples must.
- That the instance's shares are as `SlowTrafficIsHeard` and `CulpritsStandOut` say.

## 5. Not modelled, and the plan

What is next, in this order, with the properties each is for:

1. `Escalation` as a refinement target of `IncidentLifecycle`: its environment
   actions as steps of the sweep and the runners, evidence included.
2. The severity ladder and its promotion by recurrence in `IncidentSweep`, with
   the bands `Escalation` chooses freely.
3. The normalisation rules (shape detection, timestamps, currencies) as pure
   operators against a reference definition.
4. `SlowTrafficIsHeard` and `CulpritsStandOut` from the constants: bounds from
   below on a provider's share, which need a least volume, because integer
   division loses payments at every branch.

Left out for good: floating point and sampling noise; prompts, wording and
formatting; the board's presentation, static files and routing, which keep no
state; the evidence tools no deterministic rule reads (`financial_impact`,
`drilldown`, `incident_history`, `metric_series`, `ingest_health`,
`external_status`); the evaluator, a pure function run by hand on one diagnosis
and one record, which passes what its conditions say; telemetry
samples; the scripts that drive a demonstration and the scripted vertical path,
which call the components above and add no state; the stub evidence provider,
vendored and test code.
