------------------------- MODULE IncidentLifecycle -------------------------
(***************************************************************************)
(* The incident table and the processes that move a row through it:        *)
(*                                                                         *)
(*   - the detector's sweep (detector/cli.py), which saves the reading it  *)
(*     measured, saves the near misses as watches, expires the watches it  *)
(*     no longer wants and resolves the rows whose traffic recovered;      *)
(*   - the investigation runners (investigation/runner.py), which reclaim  *)
(*     abandoned leases, claim a row, investigate it and persist a result. *)
(*                                                                         *)
(* Every action is one SQLite transaction, or one SELECT that Python's     *)
(* sqlite3 runs outside a transaction: `with connection:` opens the        *)
(* transaction at the first INSERT, UPDATE or DELETE, so what a handler    *)
(* read before that write may be stale when it writes.                     *)
(***************************************************************************)
EXTENDS Integers, FiniteSets

CONSTANTS
  Incident,       \* incident identifiers (hash of onset and cohort)
  Runner,         \* investigation processes sharing the store
  Measurement,    \* what a sweep measures, as far as evidence_fingerprint tells
  None,           \* no row, no claim, no job
  MaxSweeps,      \* bound: sweeps the detector makes
  MaxCrashes,     \* bound: crashes of runners and of the detector
  LeaseCoversRun  \* TRUE: no run outlives CLAIM_LEASE_SECONDS

VARIABLES
  incident,   \* the incident table: [state, doc, meas] or None
  claim,      \* investigation_claim: [from, lease] or None
  results,    \* versions present in investigation_result
  paid,       \* history: the evidence of the last result stored, or None
  bound,      \* investigation_bound: [fingerprint, calls] or None
  sweep,      \* the detector's position in a sweep and its keep_ids
  pc,         \* each runner's position in poll_once
  stale,      \* rows a runner's reclaim has read and not yet written
  todo,       \* pending rows a runner has read and not yet tried
  job,        \* the record a runner is claiming or investigating
  prev,       \* the state claim_incident has read
  version,    \* _result_versions of the running job
  sweeps, crashes

detVars == <<sweep, sweeps>>
locals  == <<stale, todo, job, prev, version>>
stored  == <<results, paid, bound>>
vars    == <<incident, claim, stored, detVars, pc, locals, crashes>>

-----------------------------------------------------------------------------
(* Vocabulary *)

ClaimableStates   == {"detected", "watching"}
RecoverableStates == {"detected", "investigating", "diagnosed", "acknowledged"}
LiveStates        == RecoverableStates \cup {"watching"}
State             == LiveStates \cup {"resolved", "mitigated"}

\* doc is the lifecycle_state inside the record's JSON: save_incident and the
\* closing writes set it with the column, investigation writes only the column.
Row     == [state : State, doc : State, meas : Measurement]
Claim   == [from : ClaimableStates, lease : {"live", "expired"}]
Reading == [id : Incident, state : ClaimableStates, meas : Measurement]
Lease   == [id : Incident, restore : ClaimableStates, from : {"investigating", "watching"}]
Evidence == [state : ClaimableStates, meas : Measurement]
Bound   == [fingerprint : Evidence, calls : Nat]

PC == {"idle", "reclaim", "pending", "choose", "check", "take", "claimed", "running", "booking", "down"}
Holding == {"check", "take", "claimed", "running", "booking"}   \* positions with a job

ASSUME ConstantAssumption ==
  /\ None \notin Row \cup Claim \cup Reading \cup Evidence \cup Bound
  /\ MaxSweeps \in Nat
  /\ MaxCrashes \in Nat
  /\ LeaseCoversRun \in BOOLEAN

Known(i)  == incident[i] # None
InState(i, S) == Known(i) /\ incident[i].state \in S
Closed(i) == Known(i) /\ ~InState(i, LiveStates)
Calls(i)  == IF bound[i] = None THEN 0 ELSE bound[i].calls

\* The evidence a run is paid for: the lifecycle state and the measurement.
\* (Mutant: a digest that leaves the state out.)
StatelessFingerprint(reading) == [state |-> "detected", meas |-> reading.meas]
Fingerprint(reading) == [state |-> reading.state, meas |-> reading.meas]
RestoreState(s) == IF s \in ClaimableStates THEN s ELSE "detected"
Investigates(r, i) == pc[r] \in {"claimed", "running"} /\ job[r].id = i

Init ==
  /\ incident = [i \in Incident |-> None]
  /\ claim    = [i \in Incident |-> None]
  /\ results  = [i \in Incident |-> {}]
  /\ paid     = [i \in Incident |-> None]
  /\ bound    = [i \in Incident |-> None]
  /\ sweep    = [at |-> "idle", keep |-> {}]
  /\ pc       = [r \in Runner |-> "idle"]
  /\ stale    = [r \in Runner |-> {}]
  /\ todo     = [r \in Runner |-> {}]
  /\ job      = [r \in Runner |-> None]
  /\ prev     = [r \in Runner |-> None]
  /\ version  = [r \in Runner |-> 0]
  /\ sweeps   = 0
  /\ crashes  = 0

-----------------------------------------------------------------------------
(* The detector's sweep: one process, several transactions *)

\* store.save_incident inserts the row, or re-measures a row it may still write:
\* a watch only writes a watch, an incident writes whatever is live, and the one
\* state it moves is watching -> detected.
Saved(state, m) == [state |-> state, doc |-> state, meas |-> m]
Writable(i, s)  == InState(i, IF s = "watching" THEN {"watching"} ELSE LiveStates)

SaveIncident(i, m, s) ==
  \/ /\ ~Known(i)
     /\ incident' = [incident EXCEPT ![i] = Saved(s, m)]
  \/ /\ Writable(i, s)
     /\ LET current == incident[i].state
        IN incident' = [incident EXCEPT
             ![i] = Saved(IF current = "watching" THEN s ELSE current, m)]
  \/ /\ Known(i) /\ ~Writable(i, s)
     /\ UNCHANGED incident

\* A sweep begins: build_incident found an outage, or found none.
SweepIncident(i, m) ==
  /\ sweep.at = "idle" /\ sweeps < MaxSweeps
  /\ SaveIncident(i, m, "detected")
  /\ sweep' = [at |-> "watches", keep |-> {i}]
  /\ sweeps' = sweeps + 1
  /\ UNCHANGED <<claim, stored, pc, locals, crashes>>

SweepQuiet ==
  /\ sweep.at = "idle" /\ sweeps < MaxSweeps
  /\ sweep' = [at |-> "watches", keep |-> {}]
  /\ sweeps' = sweeps + 1
  /\ UNCHANGED <<incident, claim, stored, pc, locals, crashes>>

\* One watch of build_watches; `taken` keeps two readings off one identifier.
SweepWatch(i, m) ==
  /\ sweep.at = "watches" /\ i \notin sweep.keep
  /\ SaveIncident(i, m, "watching")
  /\ sweep' = [sweep EXCEPT !.keep = @ \cup {i}]
  /\ UNCHANGED <<claim, stored, sweeps, pc, locals, crashes>>

\* Closing writes set the column and the JSON together.
Close(ids) ==
  incident' = [i \in Incident |->
    IF i \in ids THEN [incident[i] EXCEPT !.state = "resolved", !.doc = "resolved"]
                 ELSE incident[i]]

\* store.expire_watches_except. Nothing but the detector takes a row out of
\* watching, so its SELECT and its guarded UPDATE are one step.
ExpireWatches ==
  /\ sweep.at = "watches"
  /\ Close({i \in Incident \ sweep.keep : InState(i, {"watching"})})
  /\ sweep' = [sweep EXCEPT !.at = "recover"]
  /\ UNCHANGED <<claim, stored, sweeps, pc, locals, crashes>>

\* _recovered_incident_ids, then store.resolve_recovered_incidents: which open
\* rows measure as recovered is the traffic's choice.
ResolveRecovered(ids) ==
  /\ sweep.at = "recover"
  /\ \A i \in ids : i \notin sweep.keep /\ InState(i, RecoverableStates)
  /\ Close(ids)
  /\ sweep' = [at |-> "idle", keep |-> {}]
  /\ UNCHANGED <<claim, stored, sweeps, pc, locals, crashes>>

DetectorCrash ==
  /\ sweep.at # "idle" /\ crashes < MaxCrashes
  /\ sweep' = [at |-> "idle", keep |-> {}]
  /\ crashes' = crashes + 1
  /\ UNCHANGED <<incident, claim, stored, sweeps, pc, locals>>

Detector ==
  \/ SweepQuiet
  \/ \E i \in Incident, m \in Measurement : SweepIncident(i, m) \/ SweepWatch(i, m)
  \/ ExpireWatches
  \/ \E ids \in SUBSET Incident : ResolveRecovered(ids)

-----------------------------------------------------------------------------
(* A runner: poll_once with one slot *)

Goto(r, from, to) == pc[r] = from /\ pc' = [pc EXCEPT ![r] = to]

\* An expired lease of a row the reclaim may touch, and a row with no lease.
\* (Mutants: only the leases that change no row are looked for; only those of
\* rows that show as investigating.)
Returnable(i) ==
  InState(i, {"investigating"}) \/ (InState(i, {"watching"}) /\ claim[i].from = "watching")
ExpiredWatchLease(i) ==
  claim[i] # None /\ claim[i].lease = "expired" /\ claim[i].from = "watching"
ExpiredShownLease(i) ==
  claim[i] # None /\ claim[i].lease = "expired" /\ InState(i, {"investigating"})
ExpiredLease(i) == claim[i] # None /\ claim[i].lease = "expired" /\ Returnable(i)
Orphaned(i) == InState(i, {"investigating"}) /\ claim[i] = None

\* reclaim_expired_claims reads the expired leases and the orphans ...
ReclaimRead(r) ==
  /\ Goto(r, "idle", "reclaim")
  /\ stale' = [stale EXCEPT ![r] =
       {[id |-> i, restore |-> claim[i].from, from |-> incident[i].state] :
          i \in {j \in Incident : ExpiredLease(j)}}
       \cup
       {[id |-> i, restore |-> RestoreState(incident[i].doc), from |-> "investigating"] :
          i \in {j \in Incident : Orphaned(j)}}]
  /\ UNCHANGED <<incident, claim, stored, detVars, todo, job, prev, version, crashes>>

\* The guard of the restoring UPDATE. (Mutant: no guard.)
RestorableUnguarded(i) == Known(i)
Restorable(i) == InState(i, {"investigating"})

\* ... and then writes them: a watch lease is dropped without looking again, a
\* row is restored only if it is still investigating.
ReclaimWrite(r) ==
  /\ Goto(r, "reclaim", "pending")
  /\ LET dropped  == {l.id : l \in {k \in stale[r] : k.from = "watching" /\ k.restore = "watching"}}
         restored == {l \in stale[r] : l.id \notin dropped /\ Restorable(l.id)}
         ids      == {l.id : l \in restored}
     IN /\ incident' = [i \in Incident |->
             IF i \in ids
             THEN [incident[i] EXCEPT !.state = (CHOOSE l \in restored : l.id = i).restore]
             ELSE incident[i]]
        /\ claim' = [i \in Incident |-> IF i \in dropped \cup ids THEN None ELSE claim[i]]
  /\ stale' = [stale EXCEPT ![r] = {}]
  /\ UNCHANGED <<stored, detVars, todo, job, prev, version, crashes>>

\* _pending_rows: claimable rows without a claim.
PendingRead(r) ==
  /\ Goto(r, "pending", "choose")
  /\ todo' = [todo EXCEPT ![r] =
       {[id |-> i, state |-> incident[i].state, meas |-> incident[i].meas] :
          i \in {j \in Incident : InState(j, ClaimableStates) /\ claim[j] = None}}]
  /\ UNCHANGED <<incident, claim, stored, detVars, stale, job, prev, version, crashes>>

\* The bound holds this evidence. (Mutant: watches are not checked against it.)
DetectedPaid(t) ==
  t.state = "detected" /\ bound[t.id] # None /\ bound[t.id].fingerprint = Fingerprint(t)
AlreadyPaid(t) == bound[t.id] # None /\ bound[t.id].fingerprint = Fingerprint(t)

\* The next row, detected before watching; equal evidence is not paid for twice.
Choose(r) ==
  /\ pc[r] = "choose"
  /\ \E t \in todo[r] :
       /\ t.state = "detected" \/ \A u \in todo[r] : u.state = "watching"
       /\ todo' = [todo EXCEPT ![r] = @ \ {t}]
       /\ IF AlreadyPaid(t)
          THEN UNCHANGED <<pc, job>>
          ELSE /\ pc' = [pc EXCEPT ![r] = "check"]
               /\ job' = [job EXCEPT ![r] = t]
  /\ UNCHANGED <<incident, claim, stored, detVars, stale, prev, version, crashes>>

NothingPending(r) ==
  /\ Goto(r, "choose", "idle")
  /\ todo[r] = {}
  /\ UNCHANGED <<incident, claim, stored, detVars, locals, crashes>>

\* claim_incident's two SELECTs.
ClaimCheck(r) ==
  LET i == job[r].id IN
  /\ pc[r] = "check"
  /\ IF InState(i, ClaimableStates) /\ claim[i] = None
     THEN /\ pc' = [pc EXCEPT ![r] = "take"]
          /\ prev' = [prev EXCEPT ![r] = incident[i].state]
          /\ UNCHANGED job
     ELSE /\ pc' = [pc EXCEPT ![r] = "choose"]
          /\ job' = [job EXCEPT ![r] = None]
          /\ UNCHANGED prev
  /\ UNCHANGED <<incident, claim, stored, detVars, stale, todo, version, crashes>>

\* What a process holds is lost with it.
Reset(r) ==
  /\ stale'   = [stale EXCEPT ![r] = {}]
  /\ todo'    = [todo EXCEPT ![r] = {}]
  /\ job'     = [job EXCEPT ![r] = None]
  /\ prev'    = [prev EXCEPT ![r] = None]
  /\ version' = [version EXCEPT ![r] = 0]

\* claim_incident's write, for a watch: the row stays watching. A second INSERT
\* of the same key raises and takes the process down.
TakeWatch(r) ==
  LET i == job[r].id IN
  /\ pc[r] = "take" /\ prev[r] = "watching"
  /\ IF claim[i] = None
     THEN /\ pc' = [pc EXCEPT ![r] = "claimed"]
          /\ claim' = [claim EXCEPT ![i] = [from |-> "watching", lease |-> "live"]]
          /\ prev' = [prev EXCEPT ![r] = None]
          /\ UNCHANGED <<stale, todo, job, version>>
     ELSE pc' = [pc EXCEPT ![r] = "down"] /\ Reset(r) /\ UNCHANGED claim
  /\ UNCHANGED <<incident, stored, detVars, crashes>>

\* The same, for a detected row: a guarded UPDATE, then INSERT OR REPLACE.
TakeDetected(r) ==
  LET i == job[r].id IN
  /\ pc[r] = "take" /\ prev[r] = "detected"
  /\ prev' = [prev EXCEPT ![r] = None]
  /\ IF InState(i, {"detected"})
     THEN /\ pc' = [pc EXCEPT ![r] = "claimed"]
          /\ incident' = [incident EXCEPT ![i].state = "investigating"]
          /\ claim' = [claim EXCEPT ![i] = [from |-> "detected", lease |-> "live"]]
          /\ UNCHANGED job
     ELSE /\ pc' = [pc EXCEPT ![r] = "choose"]
          /\ job' = [job EXCEPT ![r] = None]
          /\ UNCHANGED <<incident, claim>>
  /\ UNCHANGED <<stored, detVars, stale, todo, version, crashes>>

\* next_result_version is MAX(result_version) + 1, read after the claim; then
\* the job is submitted. The rest of todo is dropped: with one slot the next
\* poll reads the table again.
Highest(versions) == CHOOSE v \in versions \cup {0} : \A w \in versions : w <= v
LastVersion(i) == Highest(results[i])
MaxVersion(i)  == LastVersion(i)   \* mutant: MAX without the + 1
NextVersion(i) == LastVersion(i) + 1

StartRun(r) ==
  /\ Goto(r, "claimed", "running")
  /\ version' = [version EXCEPT ![r] = NextVersion(job[r].id)]
  /\ todo' = [todo EXCEPT ![r] = {}]
  /\ UNCHANGED <<incident, claim, stored, detVars, stale, job, prev, crashes>>

\* The states a completing run takes the row from, by the state it resumes.
\* (Mutant: only the state the row was claimed in.)
ResumesClaimed(s) == {s}
ResumesFrom(s) ==
  {"investigating"} \cup IF s = "watching" THEN {"watching"} ELSE {"detected"}

\* persist_result, its first transaction. A version that is already stored
\* violates the primary key: nothing is written and the process goes down. The
\* state to resume is the one the runner read before it claimed.
Persist(r) ==
  LET i == job[r].id
      resumed == IF job[r].state = "watching" THEN "watching" ELSE "diagnosed"
  IN
  /\ pc[r] = "running"
  /\ IF version[r] \in results[i]
     THEN /\ pc' = [pc EXCEPT ![r] = "down"]
          /\ Reset(r)
          /\ UNCHANGED <<incident, claim, results, paid>>
     ELSE /\ pc' = [pc EXCEPT ![r] = "booking"]
          /\ results' = [results EXCEPT ![i] = @ \cup {version[r]}]
          /\ paid' = [paid EXCEPT ![i] = Fingerprint(job[r])]
          /\ incident' = IF InState(i, ResumesFrom(job[r].state))
                         THEN [incident EXCEPT ![i].state = resumed]
                         ELSE incident
          /\ claim' = [claim EXCEPT ![i] = None]
          /\ UNCHANGED locals
  /\ UNCHANGED <<bound, detVars, crashes>>

Booked(i, reading) == [fingerprint |-> Fingerprint(reading), calls |-> Calls(i) + 1]

\* Its second: ensure_bound_table's executescript commits what is pending, so
\* the cost bound is booked on its own, after the row is back on offer.
BookRun(r) ==
  LET i == job[r].id IN
  /\ Goto(r, "booking", "idle")
  /\ bound' = [bound EXCEPT ![i] = Booked(i, job[r])]
  /\ Reset(r)
  /\ UNCHANGED <<incident, claim, results, paid, detVars, crashes>>

\* A process dies anywhere in its poll (an unhandled exception, a kill); the
\* container's restart policy brings it back with nothing in memory.
RunnerCrash(r) ==
  /\ pc[r] # "down" /\ crashes < MaxCrashes
  /\ pc' = [pc EXCEPT ![r] = "down"]
  /\ Reset(r)
  /\ crashes' = crashes + 1
  /\ UNCHANGED <<incident, claim, stored, detVars>>

Restart(r) ==
  /\ Goto(r, "down", "idle")
  /\ UNCHANGED <<incident, claim, stored, detVars, locals, crashes>>

RunnerStep(r) ==
  \/ ReclaimRead(r) \/ ReclaimWrite(r) \/ PendingRead(r) \/ Choose(r) \/ NothingPending(r)
  \/ ClaimCheck(r) \/ TakeWatch(r) \/ TakeDetected(r) \/ StartRun(r) \/ Persist(r)
  \/ BookRun(r) \/ Restart(r)

\* The lease is longer than the agent's timeout; LeaseCoversRun says that bound
\* holds for whole runs.
Outlived(i) == LeaseCoversRun => \A r \in Runner : ~Investigates(r, i)

\* The clock passes claimed_at + CLAIM_LEASE_SECONDS.
LeaseExpires(i) ==
  /\ claim[i] # None /\ claim[i].lease = "live"
  /\ Outlived(i)
  /\ claim' = [claim EXCEPT ![i].lease = "expired"]
  /\ UNCHANGED <<incident, stored, detVars, pc, locals, crashes>>

Next ==
  \/ Detector \/ DetectorCrash
  \/ \E r \in Runner : RunnerStep(r) \/ RunnerCrash(r)
  \/ \E i \in Incident : LeaseExpires(i)

Spec == Init /\ [][Next]_vars

\* The runner loops every poll interval and is restarted when it dies, an agent
\* run ends at its timeout, and clocks advance. Traffic owes nobody a sweep.
Fairness ==
  /\ \A r \in Runner : WF_vars(RunnerStep(r))
  /\ \A i \in Incident : WF_vars(LeaseExpires(i))

FairSpec == Spec /\ Fairness

-----------------------------------------------------------------------------
(* Properties *)

\* Every variable holds what its table or local can hold, and a runner has a
\* job exactly where its poll needs one.
TypeOK ==
  /\ incident \in [Incident -> Row \cup {None}]
  /\ claim    \in [Incident -> Claim \cup {None}]
  /\ results  \in [Incident -> SUBSET (Nat \ {0})]
  /\ paid     \in [Incident -> Evidence \cup {None}]
  /\ bound    \in [Incident -> Bound \cup {None}]
  /\ sweep    \in [at : {"idle", "watches", "recover"}, keep : SUBSET Incident]
  /\ pc       \in [Runner -> PC]
  /\ stale    \in [Runner -> SUBSET Lease]
  /\ todo     \in [Runner -> SUBSET Reading]
  /\ job      \in [Runner -> Reading \cup {None}]
  /\ \A r \in Runner : pc[r] \in Holding <=> job[r] # None
  /\ prev     \in [Runner -> ClaimableStates \cup {None}]
  /\ version  \in [Runner -> Nat]
  /\ sweeps \in Nat /\ crashes \in Nat

\* A closed episode stays as it was closed, whatever a late investigation, an
\* expired lease or a returning reading writes ("A closed episode is never
\* rewritten and never adopted", detector/store.py:137).
ClosedNeverReopens ==
  [][\A i \in Incident : Closed(i) => incident'[i] = incident[i]]_vars

\* The stored versions of an incident are 1..n with no gap, and as many as were
\* ever written: no result is overwritten and no number skipped, however runs
\* crash, overlap or restart, so the last version is always the latest run's.
VersionsContiguous ==
  \A i \in Incident : results[i] = 1..LastVersion(i)

\* Until a crash loses a booking, and once nobody is between the two transactions
\* of persist_result, the bound's count is the number of results ("how many
\* model investigations the store has spent", DECISIONS.md:158).
CallsCountResults ==
  crashes = 0 =>
    \A i \in Incident :
      (\A r \in Runner : pc[r] = "booking" => job[r].id # i) => Calls(i) = LastVersion(i)

\* A row on the board as investigating is owned: some claim holds it, and it
\* was taken from detected, so a crashed owner is found by its lease.
InvestigatingIsClaimed ==
  \A i \in Incident :
    InState(i, {"investigating"}) => claim[i] # None /\ claim[i].from = "detected"

\* The cost bound ("One investigation per record per evidence fingerprint",
\* docs/adr/0025:45): a run never starts on the evidence of the last result
\* stored, in whatever order sweeps, reclaims and completions happened.
EvidencePaidOnce ==
  \A r \in Runner :
    pc[r] \in {"claimed", "running"} => paid[job[r].id] # Fingerprint(job[r])

\* The same, until a process dies between the two transactions.
PaidOnceUntilCrash == crashes = 0 => EvidencePaidOnce

Abandoned(i) == claim[i] # None /\ \A r \in Runner : ~Investigates(r, i)

\* An abandoned claim on a row the reclaim's filter passes over: a watch's lease
\* left on a row since upgraded, or any lease on a closed one.
Stranded(i) == Abandoned(i) /\ ~Returnable(i)

\* A claim whose runner died comes back ("a crash before persist can be
\* reclaimed", investigation/store.py), a watch's too, which no board shows: the
\* row is on offer again, unless the sweep moved it out of the filter first.
AbandonedClaimReturns ==
  \A i \in Incident : Abandoned(i) ~> claim[i] = None \/ Stranded(i)

\* A detected row gets a run of its own: whatever was paid for before and
\* wherever a runner died, one more result is stored, unless the episode closes
\* or the row carries a stranded watch lease. No fingerprint, claim or order of
\* sweeps may leave the handoff signal standing for ever.
DetectedIsInvestigated ==
  \A i \in Incident, n \in 0..(MaxSweeps + MaxCrashes) :
    InState(i, {"detected"}) /\ LastVersion(i) = n
      ~> Closed(i) \/ LastVersion(i) > n \/ Stranded(i)

\* The board never shows an investigation for ever: whenever the runner dies and
\* wherever its claim was left, a row leaves investigating by a result, by a
\* restored lease or by the episode's end.
InvestigationEnds ==
  \A i \in Incident :
    InState(i, {"investigating"}) ~> ~InState(i, {"investigating"})

=============================================================================
