--------------------------- MODULE IncidentSweep ---------------------------
(***************************************************************************)
(* detector/cli.py's sweep over moving traffic: the readings Detection     *)
(* takes of the last buckets, the identifier each reading adopts or mints, *)
(* and what the sweep does to the incident table: save, expire the watches *)
(* it no longer wants, resolve the rows whose traffic has recovered.       *)
(*                                                                         *)
(* A sweep measures, saves one reading after another, and closes; no       *)
(* traffic is stored meanwhile, since the consumer waits in its hook.      *)
(* IncidentLifecycle runs the investigation beside it. The lateness        *)
(* watermark trails the traffic: scenes holds the buckets behind it.       *)
(***************************************************************************)
EXTENDS Detection

CONSTANTS
  EpisodeGap,   \* RECURRENCE_EPISODE_GAP_SECONDS, in buckets
  Lookback,     \* RECURRENCE_LOOKBACK_SECONDS, in buckets
  MaxBuckets,   \* bound: buckets the traffic runs for
  MaxChanges,   \* bound: changes of scenario
  MaxUnswept    \* bound: buckets a sweep may be late by

VARIABLES
  scenes,   \* the scenario of each bucket a sweep reads, oldest first
  now,      \* the watermark: the bucket after the last one
  changes,  \* changes of scenario so far
  incidents,\* the incident table: [id -> [cohort, onset, seen, state]]
  sweep     \* the last sweep: what it has still to save, and what it has saved

vars == <<scenes, now, changes, incidents, sweep>>

Span == Trailing + Window

ASSUME SweepAssumption ==
  /\ "healthy" \in Scenario
  /\ {EpisodeGap, Lookback, MaxBuckets, MaxChanges, MaxUnswept} \subseteq Nat
  /\ Span <= MaxBuckets

-----------------------------------------------------------------------------
LiveStates == {"watching", "detected"}   \* the states detection itself writes

\* A cohort's identifier is the hash of its onset and its cohort_key.
IncidentIdFor(reading) == <<reading.onset, reading.cohort>>

Live(table) == {i \in DOMAIN table : table[i].state \in LiveStates}

\* adopt_watch_identity: an exact match however old, else a row of the same
\* episode measured within the gap; the earliest onset first. Two rows of one
\* onset are ordered by their digest: an arbitrary order, here that of the key.
Matches(table, taken, reading) ==
  LET free     == Live(table) \ taken
      exact    == {i \in free : table[i].cohort = reading.cohort}
      agreeing == {i \in free : /\ table[i].seen >= reading.seen - EpisodeGap
                                /\ CohortsSameEpisode(table[i].cohort, reading.cohort)}
  IN IF exact # {} THEN exact ELSE agreeing

Earliest(table, S) ==
  CHOOSE i \in S : \A j \in S :
    \/ table[i].onset < table[j].onset
    \/ table[i].onset = table[j].onset /\ CohortKey[i[2]] <= CohortKey[j[2]]

\* (Mutant: the row's identifier is adopted, its onset is not.)
AdoptUnpinned(table, taken, reading) ==
  LET matches == Matches(table, taken, reading)
  IN [id |-> IF matches = {} THEN IncidentIdFor(reading) ELSE Earliest(table, matches),
      reading |-> reading]

\* The reading under the identifier it is saved as, its onset pinned to the row's.
Adopt(table, taken, reading) ==
  LET matches == Matches(table, taken, reading)
      row     == Earliest(table, matches)
  IN IF matches = {} THEN [id |-> IncidentIdFor(reading), reading |-> reading]
     ELSE [id |-> row, reading |-> [reading EXCEPT !.onset = table[row].onset]]

\* store.save_incident: insert, or re-measure a row this state may still write.
Save(table, id, reading, state) ==
  LET fresh    == id \notin DOMAIN table
      writable == table[id].state \in (IF state = "watching" THEN {"watching"} ELSE LiveStates)
      kept     == IF fresh \/ table[id].state = "watching" THEN state ELSE table[id].state
      row      == [cohort |-> reading.cohort, onset |-> reading.onset,
                   seen |-> reading.seen, state |-> kept]
  IN IF fresh \/ writable
     THEN [i \in DOMAIN table \cup {id} |-> IF i = id THEN row ELSE table[i]]
     ELSE table

\* (Mutant: rows are counted, not episodes.)
PriorRows(table, cohort, onset) ==
  {i \in DOMAIN table : /\ table[i].cohort = cohort /\ table[i].state # "watching"
                        /\ onset - Lookback <= table[i].onset /\ table[i].onset < onset}

\* prior_matching_incident_count, over the table as the sweep finds it.
Priors(table, cohort, onset) ==
  {i \in DOMAIN table : /\ table[i].cohort = cohort /\ table[i].state # "watching"
                        /\ onset - Lookback <= table[i].onset /\ table[i].onset < onset
                        /\ table[i].seen <= onset - EpisodeGap}

Resolve(table, ids) == [i \in DOMAIN table |->
  IF i \in ids THEN [table[i] EXCEPT !.state = "resolved"] ELSE table[i]]

\* expire_watches_except, then _recovered_incident_ids and resolve_recovered_incidents.
\* (Mutant: a watch is only expired with the episode of another row.)
Superseded(table, keep) == {i \in DOMAIN table \ keep : table[i].state = "watching" /\ keep # {}}
Unwanted(table, keep) == {i \in DOMAIN table \ keep : table[i].state = "watching"}
StillHot(r) == r.qualifies \/ (r.drop >= WatchDropMin /\ r.z <= WatchZMax)
Recovered(table, keep, hot) ==
  {i \in DOMAIN table \ keep : /\ table[i].state \in LiveStates \ {"watching"}
                               /\ table[i].cohort \notin hot}

NoSweep == [at |-> Span, saving |-> FALSE, todo |-> {}, hot |-> {}, log |-> {}]

Init ==
  /\ scenes = [i \in 1..Span |-> "healthy"]
  /\ now = Span
  /\ changes = 0
  /\ incidents = << >>
  /\ sweep = NoSweep

\* A bucket of traffic passes behind the watermark, once it has been swept.
Bucket(s) ==
  /\ ~sweep.saving
  /\ now < MaxBuckets /\ now - sweep.at <= MaxUnswept
  /\ s # Last(scenes) => changes < MaxChanges
  /\ changes' = IF s = Last(scenes) THEN changes ELSE changes + 1
  /\ scenes' = Append(Tail(scenes), s)
  /\ now' = now + 1
  /\ UNCHANGED <<incidents, sweep>>

\* _sweep: what is reported of the readings R, an incident and watches.
Report(R) ==
  LET onset(r)    == now - Span + EpisodeExtent(scenes, r.cohort, r.expected).onset
      entry(r, s) == [reading |-> [cohort |-> r.cohort, seen |-> now, onset |-> onset(r)], state |-> s]
      formed      == BuildIncident(R)
      watches     == BuildWatches(R, {r.cohort : r \in formed})
  IN {entry(r, "detected") : r \in formed} \cup {entry(r, "watching") : r \in watches}

Measure ==
  /\ ~sweep.saving /\ sweep.at # now
  /\ \E R \in {Readings(scenes)} :
       sweep' = [at |-> now, saving |-> TRUE, todo |-> Report(R),
                 hot |-> {r.cohort : r \in {x \in R : StillHot(x)}}, log |-> {}]
  /\ UNCHANGED <<scenes, now, changes, incidents>>

\* The incident is saved first, then the watches in the order of their keys.
First(todo) ==
  {e \in todo : \A x \in todo \ {e} :
     \/ e.state = "detected"
     \/ x.state = "watching" /\ CohortKey[e.reading.cohort] < CohortKey[x.reading.cohort]}

\* `taken`: the identifiers that earlier readings of the sweep have claimed.
Taken == {e.id : e \in sweep.log}

Record(e) ==
  /\ sweep.saving /\ e \in First(sweep.todo)
  /\ \E saved \in {Adopt(incidents, Taken, e.reading)} :
       /\ incidents' = Save(incidents, saved.id, saved.reading, e.state)
       /\ sweep' = [sweep EXCEPT
            !.todo = @ \ {e},
            !.log  = @ \cup {[id |-> saved.id, cohort |-> e.reading.cohort, state |-> e.state,
                              priors |-> Priors(incidents, e.reading.cohort, e.reading.onset)]}]
  /\ UNCHANGED <<scenes, now, changes>>

\* What the sweep did not save is expired or, once its traffic is well, resolved.
Close ==
  /\ sweep.saving /\ sweep.todo = {}
  /\ LET expired == Resolve(incidents, Unwanted(incidents, Taken))
     IN incidents' = Resolve(expired, Recovered(expired, Taken, sweep.hot))
  /\ sweep' = [sweep EXCEPT !.saving = FALSE]
  /\ UNCHANGED <<scenes, now, changes>>

Sweep == Measure \/ (\E e \in sweep.todo : Record(e)) \/ Close
Next  == Sweep \/ \E s \in Scenario : Bucket(s)
Spec  == Init /\ [][Next]_vars

-----------------------------------------------------------------------------
(* Properties *)

Swept   == sweep.at = now /\ ~sweep.saving
Formed  == {e \in sweep.log : e.state = "detected"}
Healthy(scene, cell) == Traffic[scene][cell] = Traffic["healthy"][cell]
InWindow == Trailing + 1 .. Span

\* What the healthy scenario has to be for a deviation to mean a fault: no bucket
\* of a cell carries more payments than its healthy one, and no cell approves a
\* larger share, answers faster or times out less, in any scenario, than any
\* healthy cell. (Were healthy cells to differ, a mere change of their mix would
\* move the rate of a cohort nothing is wrong with.)
NoBetter(x, y) == /\ x.ok * y.n <= y.ok * x.n
                  /\ y.late * x.n <= x.late * y.n
                  /\ y.out * x.n <= x.out * y.n
HealthyIsBest == \A s \in Scenario, a, b \in Cells :
  /\ Traffic[s][a].n <= Traffic["healthy"][a].n
  /\ NoBetter(Traffic[s][a], Traffic["healthy"][b])

\* Type invariant: rows and readings are what the incident table and a sweep hold,
\* and no row was last seen before its onset.
Id       == (1..MaxBuckets) \X Cohort
Row      == [cohort : Cohort, onset : 1..MaxBuckets, seen : Span..MaxBuckets,
             state : LiveStates \cup {"resolved"}]
Measurement == [cohort : Cohort, onset : 1..MaxBuckets, seen : Span..MaxBuckets]
TypeOK ==
  /\ scenes \in [1..Span -> Scenario]
  /\ now \in Span..MaxBuckets /\ changes \in 0..MaxChanges
  /\ DOMAIN incidents \subseteq Id
  /\ \A i \in DOMAIN incidents : /\ incidents[i] \in Row
                                 /\ incidents[i].onset <= incidents[i].seen
  /\ DOMAIN sweep = DOMAIN NoSweep
  /\ sweep.at \in Span..now /\ sweep.saving \in BOOLEAN /\ sweep.hot \subseteq Cohort
  /\ \A e \in sweep.todo : e.reading \in Measurement /\ e.state \in LiveStates
  /\ \A e \in sweep.log : /\ e.id \in DOMAIN incidents /\ e.cohort \in Cohort
                          /\ e.state \in LiveStates /\ e.priors \subseteq DOMAIN incidents

\* No innocent cohort is reported or watched: whatever the faults around it, and
\* however they pollute the baseline or dilute its siblings, a cohort a sweep
\* names holds a cell that was ailing in the detection window.
NoInnocentReading ==
  Swept => \A e \in sweep.log : \E cell \in CellsOf(e.cohort), i \in InWindow :
             ~Healthy(scenes[i], cell)

\* The slices that carry the traffic of a reported incident are not warned about
\* a second time under other names (build_watches), however a near miss deepens
\* from the seed that was checked. Two cases are left out: a platform-wide
\* incident is no formed cohort, and a near miss that is projected onto merchant
\* and provider may lose the very dimension that kept it off the incident.
WatchesSpareFormedTraffic ==
  \A f \in Formed, w \in sweep.log \ Formed :
    (f.cohort # Platform /\ (DOMAIN f.cohort \subseteq Core \/ DOMAIN w.cohort # Core))
      => CellsOf(f.cohort) \cap CellsOf(w.cohort) = {}

\* Once the detection window is healthy, the sweep leaves no row open, whichever
\* cohort the row drifted to while its episode lasted, and though the faults are
\* still in the baseline.
QuietBoard ==
  Swept /\ (\A i \in InWindow : scenes[i] = "healthy") => Live(incidents) = {}

\* A first fault, for as long as a sweep still reads healthy traffic from before
\* it: it may change once on its way, and go.
FirstFault ==
  /\ Head(scenes) = "healthy"
  /\ changes <= 2 \/ (changes = 3 /\ Last(scenes) = "healthy")

\* "One rehearsal of one injection" (config.py, RECURRENCE_EPISODE_GAP_SECONDS) is
\* nobody's recurrence: no row of the episode is counted as a prior of it, though
\* the onset measured drifts away from the one its row is pinned to, and the
\* cohort is localised anew at every sweep. (A fault that changes again may find
\* a warning of its own expired, which does count.)
FirstFaultIsNoRecurrence == FirstFault => \A e \in Formed : e.priors = {}

\* While an episode is open its onset never moves, however its localisation and
\* its measured onset do: the warning keeps the time it was first raised at.
OnsetHeld == [][\A i \in Live(incidents) : incidents'[i].onset = incidents[i].onset]_vars

\* store.LIVE_STATES: "a fault that returns after it is a second incident". An
\* incident a sweep reports is on the table, detected.
ReturnIsAnIncident == Swept => \A f \in Formed : incidents[f.id].state = "detected"
=============================================================================
