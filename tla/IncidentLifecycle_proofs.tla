---------------------- MODULE IncidentLifecycle_proofs ----------------------
(* Theorems about IncidentLifecycle, for every value of its constants. *)
EXTENDS IncidentLifecycle, TLAPS

\* The group of variables most UNCHANGED clauses name.
USE DEF stored

\* Guards and values that actions name.
USE DEF ExpiredLease, Returnable, Orphaned, Restorable, AlreadyPaid, ResumesFrom, Booked, Outlived

\* What save_incident leaves in the table is a table, and it only writes rows
\* that are absent or live.
LEMMA SaveIncidentType ==
  ASSUME incident \in [Incident -> Row \cup {None}],
         NEW i \in Incident, NEW m \in Measurement, NEW s \in {"watching", "detected"},
         SaveIncident(i, m, s)
  PROVE  incident' \in [Incident -> Row \cup {None}]
<1>1. "watching" \in State /\ "detected" \in State
  BY DEF State, LiveStates, RecoverableStates
<1>2. Known(i) => incident[i] \in Row /\ incident[i].state \in State
  BY DEF Known, Row
<1>3. QED BY <1>1, <1>2 DEF SaveIncident, Saved, Writable, InState, Row

\* Closing rows leaves a table as well.
LEMMA CloseType ==
  ASSUME incident \in [Incident -> Row \cup {None}],
         NEW ids \in SUBSET Incident,
         \A i \in ids : Known(i),
         Close(ids)
  PROVE  incident' \in [Incident -> Row \cup {None}]
BY DEF Close, Known, Row, State, LiveStates

\* Resetting a runner empties its locals.
LEMMA ResetType ==
  ASSUME TypeOK, NEW r \in Runner, Reset(r)
  PROVE  /\ stale' \in [Runner -> SUBSET Lease]
         /\ todo' \in [Runner -> SUBSET Reading]
         /\ job' \in [Runner -> Reading \cup {None}]
         /\ prev' \in [Runner -> ClaimableStates \cup {None}]
         /\ version' \in [Runner -> Nat]
BY DEF Reset, TypeOK

\* The inductive invariant: types, and the numbering of results.
Numbered == \A i \in Incident : \E n \in Nat : results[i] = 1..n

\* A running job writes the version after the last one stored, or one that has
\* been taken since: its insert extends the sequence or is refused.
RunsWriteNextVersion ==
  \A r \in Runner : pc[r] = "running" => version[r] \in 1..NextVersion(job[r].id)

IndInv == TypeOK /\ Numbered /\ RunsWriteNextVersion

\* MAX(result_version) of versions numbered without a gap is their number.
LEMMA HighestIsLast ==
  ASSUME NEW n \in Nat
  PROVE  Highest(1..n) = n
<1> DEFINE Top(v) == v \in (1..n) \cup {0} /\ \A w \in 1..n : w <= v
<1>1. Top(n)
  OBVIOUS
<1>2. \A v : Top(v) => v = n
  <2> SUFFICES ASSUME NEW v, Top(v) PROVE v = n
    OBVIOUS
  <2>1. v \in Nat /\ v <= n
    OBVIOUS
  <2>2. CASE n = 0
    BY <2>1, <2>2
  <2>3. CASE n # 0
    <3>1. n <= v
      BY <2>3
    <3>2. QED BY <2>1, <3>1
  <2>4. QED BY <2>2, <2>3
<1>3. QED BY <1>1, <1>2 DEF Highest

\* So a table numbered 1..n allocates n + 1 next.
LEMMA LastIsCount ==
  ASSUME NEW i \in Incident, NEW n \in Nat, results[i] = 1..n
  PROVE  LastVersion(i) = n /\ NextVersion(i) = n + 1
BY HighestIsLast DEF LastVersion, NextVersion

\* Actions that leave the results, the jobs and the positions alone cannot
\* disturb the numbering.
LEMMA NumberingKept ==
  ASSUME IndInv, UNCHANGED results,
         \A r \in Runner : pc'[r] = "running" =>
           pc[r] = "running" /\ version'[r] = version[r] /\ job'[r] = job[r]
  PROVE  Numbered' /\ RunsWriteNextVersion'
<1>1. Numbered'
  BY DEF IndInv, Numbered
<1>2. ASSUME NEW r \in Runner, pc'[r] = "running"
      PROVE  version'[r] \in 1..(Highest(results'[job'[r].id]) + 1)
  BY <1>2 DEF IndInv, RunsWriteNextVersion, NextVersion, LastVersion
<1>3. QED BY <1>1, <1>2 DEF RunsWriteNextVersion, NextVersion, LastVersion

\* Each transaction keeps the types. Those of the detector:
LEMMA DetectorType ==
  ASSUME TypeOK, Detector \/ DetectorCrash
  PROVE  TypeOK'
<1>1. ASSUME NEW i \in Incident, NEW m \in Measurement, SweepIncident(i, m)
      PROVE TypeOK'
  BY <1>1, SaveIncidentType DEF SweepIncident, TypeOK, locals
<1>2. CASE SweepQuiet
  BY <1>2 DEF SweepQuiet, TypeOK, locals
<1>3. ASSUME NEW i \in Incident, NEW m \in Measurement, SweepWatch(i, m)
      PROVE TypeOK'
  BY <1>3, SaveIncidentType DEF SweepWatch, TypeOK, locals
<1>4. CASE ExpireWatches
  BY <1>4, CloseType DEF ExpireWatches, TypeOK, locals, InState
<1>5. ASSUME NEW ids \in SUBSET Incident, ResolveRecovered(ids)
      PROVE TypeOK'
  BY <1>5, CloseType DEF ResolveRecovered, TypeOK, locals, InState
<1>6. CASE DetectorCrash
  BY <1>6 DEF DetectorCrash, TypeOK, locals
<1>7. QED BY <1>1, <1>2, <1>3, <1>4, <1>5, <1>6 DEF Detector

\* Those of a runner's reads and of its two claim writes:
LEMMA ReclaimType ==
  ASSUME TypeOK, NEW r \in Runner, ReclaimRead(r) \/ ReclaimWrite(r)
  PROVE  TypeOK'
<1>1. CASE ReclaimRead(r)
  <2>1. \A i \in Incident : claim[i] # None => claim[i].from \in ClaimableStates
    BY DEF TypeOK, Claim
  <2>2. stale'[r] \in SUBSET Lease
    BY <1>1, <2>1 DEF ReclaimRead, InState, TypeOK, Lease, RestoreState, ClaimableStates
  <2>3. stale' \in [Runner -> SUBSET Lease]
    BY <1>1, <2>2 DEF ReclaimRead, TypeOK
  <2>4. QED BY <1>1, <2>3 DEF ReclaimRead, Goto, TypeOK, detVars, PC, Holding
<1>2. CASE ReclaimWrite(r)
  <2> DEFINE dropped == {l.id : l \in {k \in stale[r] : k.from = "watching" /\ k.restore = "watching"}}
             restored == {l \in stale[r] : l.id \notin dropped /\ Restorable(l.id)}
             ids == {l.id : l \in restored}
             restore(i) == (CHOOSE l \in restored : l.id = i).restore
  <2>1. \A i \in ids : restore(i) \in State
    <3> SUFFICES ASSUME NEW i \in ids PROVE restore(i) \in State
      OBVIOUS
    <3>1. \E l \in restored : l.id = i
      OBVIOUS
    <3>2. (CHOOSE l \in restored : l.id = i) \in restored
      BY <3>1
    <3>3. restored \subseteq Lease
      BY DEF TypeOK
    <3>4. QED BY <3>2, <3>3 DEF Lease, ClaimableStates, State, LiveStates, RecoverableStates
  <2>2. \A i \in ids : incident[i] \in Row
    BY DEF InState, Known, TypeOK, Lease
  <2>3. incident' = [i \in Incident |->
           IF i \in ids THEN [incident[i] EXCEPT !.state = restore(i)] ELSE incident[i]]
    BY <1>2 DEF ReclaimWrite
  <2> HIDE DEF dropped, restored, ids, restore
  <2>4. incident' \in [Incident -> Row \cup {None}]
    BY <2>1, <2>2, <2>3 DEF TypeOK, Row
  <2>5. claim' \in [Incident -> Claim \cup {None}]
    BY <1>2 DEF ReclaimWrite, TypeOK
  <2>6. QED BY <1>2, <2>4, <2>5 DEF ReclaimWrite, Goto, TypeOK, detVars, PC, Holding
<1>3. QED BY <1>1, <1>2

LEMMA ClaimType ==
  ASSUME TypeOK, NEW r \in Runner,
         \/ PendingRead(r) \/ Choose(r) \/ NothingPending(r)
         \/ ClaimCheck(r) \/ TakeWatch(r) \/ TakeDetected(r)
  PROVE  TypeOK'
<1>1. CASE PendingRead(r)
  BY <1>1 DEF PendingRead, Goto, TypeOK, detVars, PC, Holding, Reading, InState, Known, Row
<1>2. CASE Choose(r)
  <2>1. PICK t \in todo[r] :
          \/ UNCHANGED <<pc, job>>
          \/ pc' = [pc EXCEPT ![r] = "check"] /\ job' = [job EXCEPT ![r] = t]
    BY <1>2 DEF Choose
  <2>2. t \in Reading /\ t # None
    BY ConstantAssumption DEF TypeOK
  <2>3. todo' \in [Runner -> SUBSET Reading]
    BY <1>2 DEF Choose, TypeOK
  <2>4. QED BY <1>2, <2>1, <2>2, <2>3 DEF Choose, TypeOK, detVars, PC, Holding
<1>3. CASE NothingPending(r)
  BY <1>3 DEF NothingPending, Goto, TypeOK, detVars, locals, PC, Holding
<1>4. CASE ClaimCheck(r)
  BY <1>4 DEF ClaimCheck, TypeOK, detVars, PC, Holding, InState, Known
<1>5. CASE TakeWatch(r)
  <2> DEFINE i == job[r].id
  <2>1. i \in Incident /\ job[r] # None
    BY <1>5 DEF TakeWatch, TypeOK, Holding, Reading
  <2>2. CASE claim[i] = None
    <3>1. claim' \in [Incident -> Claim \cup {None}]
      BY <1>5, <2>1, <2>2 DEF TakeWatch, TypeOK, Claim, ClaimableStates
    <3>2. pc' = [pc EXCEPT ![r] = "claimed"] /\ prev' = [prev EXCEPT ![r] = None]
      BY <1>5, <2>2 DEF TakeWatch
    <3>3. UNCHANGED <<incident, stored, detVars, crashes, stale, todo, job, version>>
      BY <1>5, <2>2 DEF TakeWatch
    <3>4. QED BY <2>1, <3>1, <3>2, <3>3 DEF TypeOK, detVars, PC, Holding
  <2>3. CASE claim[i] # None
    BY <1>5, <2>1, <2>3, ResetType DEF TakeWatch, Reset, TypeOK, detVars, PC, Holding
  <2>4. QED BY <2>2, <2>3
<1>6. CASE TakeDetected(r)
  <2> DEFINE i == job[r].id
  <2>1. i \in Incident /\ job[r] # None
    BY <1>6 DEF TakeDetected, TypeOK, Holding, Reading
  <2>2. CASE InState(i, {"detected"})
    <3>1. claim' \in [Incident -> Claim \cup {None}]
      BY <1>6, <2>1, <2>2 DEF TakeDetected, TypeOK, Claim, ClaimableStates
    <3>2. incident' \in [Incident -> Row \cup {None}]
      BY <1>6, <2>1, <2>2 DEF TakeDetected, TypeOK, Row, InState, Known, State, LiveStates, RecoverableStates
    <3>3. QED BY <1>6, <2>1, <2>2, <3>1, <3>2 DEF TakeDetected, TypeOK, detVars, PC, Holding
  <2>3. CASE ~InState(i, {"detected"})
    BY <1>6, <2>1, <2>3 DEF TakeDetected, TypeOK, detVars, PC, Holding
  <2>4. QED BY <2>2, <2>3
<1>7. QED BY <1>1, <1>2, <1>3, <1>4, <1>5, <1>6

\* Those of the end of a run, of a crash and of the clock:
LEMMA RunType ==
  ASSUME IndInv, NEW r \in Runner,
         StartRun(r) \/ Persist(r) \/ BookRun(r) \/ RunnerCrash(r) \/ Restart(r)
  PROVE  TypeOK'
<1> USE DEF IndInv
<1>1. CASE StartRun(r)
  <2>1. job[r].id \in Incident
    BY <1>1 DEF StartRun, Goto, TypeOK, Holding, Reading
  <2>2. NextVersion(job[r].id) \in Nat
    BY <2>1, LastIsCount DEF Numbered
  <2>3. version' \in [Runner -> Nat]
    BY <1>1, <2>2 DEF StartRun, TypeOK
  <2>4. QED BY <1>1, <2>3 DEF StartRun, Goto, TypeOK, detVars, PC, Holding
<1>2. CASE Persist(r)
  <2> DEFINE i == job[r].id
  <2>1. i \in Incident /\ job[r] \in Reading
    BY <1>2 DEF Persist, TypeOK, Holding, Reading
  <2>2. CASE version[r] \in results[i]
    BY <1>2, <2>2, ResetType DEF Persist, Reset, TypeOK, detVars, PC, Holding
  <2>3. CASE version[r] \notin results[i]
    <3>1. incident' \in [Incident -> Row \cup {None}]
      <4>1. CASE UNCHANGED incident
        BY <4>1 DEF TypeOK
      <4>2. ASSUME NEW s \in {"watching", "diagnosed"}, Known(i),
                   incident' = [incident EXCEPT ![i].state = s]
            PROVE  incident' \in [Incident -> Row \cup {None}]
        <5>1. s \in State
          BY DEF State, LiveStates, RecoverableStates
        <5>2. incident[i] \in Row
          BY <2>1, <4>2 DEF TypeOK, Known
        <5>3. [incident[i] EXCEPT !.state = s] \in Row
          BY <5>1, <5>2 DEF Row
        <5>4. QED BY <2>1, <4>2, <5>3 DEF TypeOK
      <4>3. \/ UNCHANGED incident
            \/ \E s \in {"watching", "diagnosed"} :
                 Known(i) /\ incident' = [incident EXCEPT ![i].state = s]
        BY <1>2, <2>3 DEF Persist, InState
      <4>4. QED BY <4>1, <4>2, <4>3
    <3>2. claim' \in [Incident -> Claim \cup {None}]
      BY <1>2, <2>3 DEF Persist, TypeOK
    <3>3. results' \in [Incident -> SUBSET (Nat \ {0})]
      <4>1. version[r] \in Nat \ {0}
        BY <1>2, <2>1, LastIsCount DEF Persist, Numbered, RunsWriteNextVersion, TypeOK
      <4>2. QED BY <1>2, <2>3, <4>1 DEF Persist, TypeOK
    <3>4. paid' \in [Incident -> Evidence \cup {None}]
      <4>1. Fingerprint(job[r]) \in Evidence
        BY <2>1 DEF Fingerprint, Evidence, Reading
      <4>2. QED BY <1>2, <2>3, <4>1 DEF Persist, TypeOK
    <3>5. pc' = [pc EXCEPT ![r] = "booking"] /\ UNCHANGED <<bound, detVars, crashes, locals>>
      BY <1>2, <2>3 DEF Persist
    <3>6. QED
      BY <1>2, <2>1, <3>1, <3>2, <3>3, <3>4, <3>5
      DEF Persist, TypeOK, detVars, locals, PC, Holding
  <2>4. QED BY <2>2, <2>3
<1>3. CASE BookRun(r)
  <2> DEFINE i == job[r].id
  <2>1. i \in Incident /\ job[r] \in Reading
    BY <1>3 DEF BookRun, Goto, TypeOK, Holding, Reading
  <2>2. [fingerprint |-> Fingerprint(job[r]), calls |-> Calls(i) + 1] \in Bound
    BY <2>1 DEF Fingerprint, Evidence, Bound, Reading, Calls, TypeOK
  <2>3. bound' \in [Incident -> Bound \cup {None}]
    BY <1>3, <2>2 DEF BookRun, TypeOK
  <2>4. QED
    BY <1>3, <2>3, ResetType DEF BookRun, Goto, Reset, TypeOK, detVars, PC, Holding
<1>4. CASE RunnerCrash(r)
  BY <1>4, ResetType DEF RunnerCrash, Reset, TypeOK, detVars, PC, Holding
<1>5. CASE Restart(r)
  BY <1>5 DEF Restart, Goto, TypeOK, detVars, locals, PC, Holding
<1>6. QED BY <1>1, <1>2, <1>3, <1>4, <1>5

\* A run that starts takes the next number, and a run that ends extends the
\* numbering by one or leaves it.
LEMMA NumberingStep ==
  ASSUME IndInv, NEW r \in Runner, StartRun(r) \/ Persist(r)
  PROVE  Numbered' /\ RunsWriteNextVersion'
<1> USE DEF IndInv
<1>1. PICK i \in Incident : i = job[r].id
  BY DEF StartRun, Goto, Persist, TypeOK, Holding, Reading
<1>2. PICK n \in Nat : results[i] = 1..n
  BY DEF Numbered
<1>3. Highest(results[i]) = n
  BY <1>2, HighestIsLast
<1>4. \A q \in Runner : pc[q] = "running" =>
        job[q].id \in Incident /\ version[q] \in 1..(Highest(results[job[q].id]) + 1)
  BY DEF TypeOK, Holding, Reading, RunsWriteNextVersion, NextVersion, LastVersion
<1> SUFFICES
      /\ Numbered'
      /\ \A q \in Runner : pc'[q] = "running" =>
           version'[q] \in 1..(Highest(results'[job'[q].id]) + 1)
  BY DEF RunsWriteNextVersion, NextVersion, LastVersion
<1>5. CASE StartRun(r)
  <2>1. results' = results /\ job' = job
    BY <1>5 DEF StartRun
  <2>2. version'[r] = Highest(results[i]) + 1
    BY <1>1, <1>5 DEF StartRun, TypeOK, NextVersion, LastVersion
  <2>3. version'[r] \in 1..(Highest(results[i]) + 1)
    BY <1>3, <2>2
  <2>4. \A q \in Runner \ {r} : pc'[q] = pc[q] /\ version'[q] = version[q]
    BY <1>5 DEF StartRun, Goto, TypeOK
  <2>5. QED BY <1>1, <1>4, <2>1, <2>3, <2>4 DEF Numbered
<1>6. CASE Persist(r)
  <2>1. \A q \in Runner \ {r} : pc'[q] = pc[q] /\ version'[q] = version[q] /\ job'[q] = job[q]
    BY <1>6 DEF Persist, Reset, locals, TypeOK
  <2>2. pc'[r] # "running"
    BY <1>6 DEF Persist, TypeOK
  <2>3. CASE version[r] \in results[i]
    <3>1. results' = results
      BY <1>1, <1>6, <2>3 DEF Persist
    <3>2. QED BY <1>4, <2>1, <2>2, <3>1 DEF Numbered
  <2>4. CASE version[r] \notin results[i]
    <3>1. version[r] = n + 1
      BY <1>1, <1>2, <1>3, <1>4, <1>6, <2>4 DEF Persist
    <3>2. results' = [results EXCEPT ![i] = @ \cup {version[r]}]
      BY <1>1, <1>6, <2>4 DEF Persist
    <3>3. results'[i] = 1..(n + 1) /\ \A j \in Incident \ {i} : results'[j] = results[j]
      BY <1>2, <3>1, <3>2 DEF TypeOK
    <3>4. Highest(results'[i]) = n + 1
      BY <3>3, HighestIsLast
    <3>5. ASSUME NEW q \in Runner, pc'[q] = "running"
          PROVE  version'[q] \in 1..(Highest(results'[job'[q].id]) + 1)
      <4>1. q # r /\ pc[q] = "running" /\ version'[q] = version[q] /\ job'[q] = job[q]
        BY <2>1, <2>2, <3>5
      <4>2. CASE job[q].id = i
        BY <1>3, <1>4, <3>4, <4>1, <4>2
      <4>3. CASE job[q].id # i
        BY <1>4, <3>3, <4>1, <4>3
      <4>4. QED BY <4>2, <4>3
    <3>6. Numbered'
      BY <3>3 DEF Numbered
    <3>7. QED BY <3>5, <3>6
  <2>5. QED BY <2>3, <2>4
<1>7. QED BY <1>5, <1>6

\* The inductive invariant holds in every state.
LEMMA Inductive == Spec => []IndInv
<1>1. Init => IndInv
  <2> SUFFICES ASSUME Init PROVE IndInv
    OBVIOUS
  <2>1. TypeOK
    BY ConstantAssumption DEF Init, TypeOK, PC, Holding
  <2>2. Numbered /\ RunsWriteNextVersion
    <3>1. \A i \in Incident : results[i] = 1..0
      BY DEF Init
    <3>2. QED BY <3>1 DEF Init, Numbered, RunsWriteNextVersion
  <2>3. QED BY <2>1, <2>2 DEF IndInv
<1>2. IndInv /\ [Next]_vars => IndInv'
  <2> SUFFICES ASSUME IndInv, [Next]_vars PROVE IndInv'
    OBVIOUS
  <2> USE DEF IndInv
  <2>1. CASE Detector \/ DetectorCrash
    <3>1. UNCHANGED <<results, pc, version, job>>
      BY <2>1 DEF Detector, SweepQuiet, SweepIncident, SweepWatch, ExpireWatches,
                  ResolveRecovered, DetectorCrash, locals
    <3>2. QED BY <2>1, <3>1, DetectorType, NumberingKept
  <2>2. ASSUME NEW r \in Runner, ReclaimRead(r) \/ ReclaimWrite(r) PROVE IndInv'
    <3>1. /\ UNCHANGED <<results, version, job>>
          /\ pc' = [pc EXCEPT ![r] = pc'[r]] /\ pc'[r] # "running"
      BY <2>2 DEF ReclaimRead, ReclaimWrite, Goto, TypeOK, stored
    <3>2. \A q \in Runner : pc'[q] = "running" => pc[q] = "running"
      BY <3>1 DEF TypeOK
    <3>3. TypeOK'
      BY <2>2, ReclaimType
    <3>4. QED BY <3>1, <3>2, <3>3, NumberingKept
  <2>3. ASSUME NEW r \in Runner,
               \/ PendingRead(r) \/ Choose(r) \/ NothingPending(r)
               \/ ClaimCheck(r) \/ TakeWatch(r) \/ TakeDetected(r)
        PROVE  IndInv'
    <3>1. UNCHANGED results
      BY <2>3 DEF PendingRead, Choose, NothingPending, ClaimCheck, TakeWatch, TakeDetected
    <3>2. pc'[r] # "running"
      BY <2>3 DEF PendingRead, Choose, NothingPending, ClaimCheck, TakeWatch, TakeDetected, Goto, TypeOK
    <3>3. \A q \in Runner \ {r} : pc'[q] = pc[q] /\ version'[q] = version[q] /\ job'[q] = job[q]
      BY <2>3 DEF PendingRead, Choose, NothingPending, ClaimCheck, TakeWatch, TakeDetected,
                  Goto, Reset, locals, TypeOK
    <3>4. Numbered' /\ RunsWriteNextVersion'
      BY <3>1, <3>2, <3>3, NumberingKept
    <3>5. TypeOK'
      BY <2>3, ClaimType
    <3>6. QED BY <3>4, <3>5
  <2>4. ASSUME NEW r \in Runner, StartRun(r) \/ Persist(r) PROVE IndInv'
    BY <2>4, RunType, NumberingStep
  <2>5. ASSUME NEW r \in Runner, BookRun(r) \/ RunnerCrash(r) \/ Restart(r)
        PROVE  IndInv'
    <3>1. UNCHANGED results
      BY <2>5 DEF BookRun, RunnerCrash, Restart
    <3>2. pc'[r] # "running"
      BY <2>5 DEF BookRun, RunnerCrash, Restart, Goto, TypeOK
    <3>3. \A q \in Runner \ {r} : pc'[q] = pc[q] /\ version'[q] = version[q] /\ job'[q] = job[q]
      BY <2>5 DEF BookRun, RunnerCrash, Restart, Goto, Reset, locals, TypeOK
    <3>4. Numbered' /\ RunsWriteNextVersion'
      BY <3>1, <3>2, <3>3, NumberingKept
    <3>5. TypeOK'
      BY <2>5, RunType
    <3>6. QED BY <3>4, <3>5
  <2>6. ASSUME NEW i \in Incident, LeaseExpires(i) PROVE IndInv'
    <3>1. TypeOK'
      BY <2>6 DEF LeaseExpires, TypeOK, detVars, locals, Claim
    <3>2. QED BY <2>6, <3>1, NumberingKept DEF LeaseExpires, locals
  <2>7. CASE UNCHANGED vars
    <3>1. TypeOK'
      BY <2>7 DEF vars, TypeOK, detVars, locals
    <3>2. QED BY <2>7, <3>1, NumberingKept DEF vars, locals
  <2>8. QED
    BY <2>1, <2>2, <2>3, <2>4, <2>5, <2>6, <2>7 DEF Next, RunnerStep
<1>3. QED BY <1>1, <1>2, PTL DEF Spec

\* TypeOK for any number of runners, incidents and crashes.
THEOREM TypeCorrect == Spec => []TypeOK
BY Inductive, PTL DEF IndInv

\* The results of an incident are numbered without a gap, however many runners
\* overlap and wherever they crash.
THEOREM VersionsCorrect == Spec => []VersionsContiguous
<1>1. IndInv => VersionsContiguous
  BY LastIsCount DEF IndInv, Numbered, VersionsContiguous
<1>2. QED BY <1>1, Inductive, PTL

\* No transaction of the detector or of a runner rewrites a closed row.
THEOREM ClosedStaysClosed == Spec => ClosedNeverReopens
<1>1. TypeOK /\ [Next]_vars => [\A i \in Incident : Closed(i) => incident'[i] = incident[i]]_vars
  <2> SUFFICES ASSUME TypeOK, Next, NEW i \in Incident, Closed(i)
               PROVE  incident'[i] = incident[i]
    BY DEF ClosedNeverReopens
  <2>1. Known(i) /\ incident[i].state \notin LiveStates
    BY DEF Closed, InState
  <2>2. \A S : S \subseteq LiveStates => ~InState(i, S)
    BY <2>1 DEF InState
  <2>3. LiveStates = {"detected", "investigating", "diagnosed", "acknowledged", "watching"}
    BY DEF LiveStates, RecoverableStates
  <2>4. ASSUME NEW j \in Incident, NEW m \in Measurement, NEW s \in {"watching", "detected"},
               SaveIncident(j, m, s)
        PROVE  incident'[i] = incident[i]
    BY <2>1, <2>2, <2>3, <2>4 DEF SaveIncident, Writable, TypeOK
  <2>5. ASSUME NEW ids, i \notin ids, Close(ids)
        PROVE  incident'[i] = incident[i]
    BY <2>5 DEF Close
  <2>6. CASE Detector
    BY <2>2, <2>3, <2>4, <2>5, <2>6
    DEF Detector, SweepQuiet, SweepIncident, SweepWatch, ExpireWatches, ResolveRecovered, RecoverableStates
  <2>7. ASSUME NEW r \in Runner, ReclaimWrite(r) PROVE incident'[i] = incident[i]
    BY <2>2, <2>3, <2>7 DEF ReclaimWrite
  <2>8. ASSUME NEW r \in Runner, TakeDetected(r) PROVE incident'[i] = incident[i]
    BY <2>2, <2>3, <2>8 DEF TakeDetected, TypeOK
  <2>9. ASSUME NEW r \in Runner, Persist(r) PROVE incident'[i] = incident[i]
    <3>1. \A s : ~InState(i, ResumesFrom(s))
      BY <2>2, <2>3
    <3>2. QED BY <2>9, <3>1 DEF Persist, TypeOK
  <2>10. CASE UNCHANGED incident
    BY <2>10
  <2>11. QED
    BY <2>6, <2>7, <2>8, <2>9, <2>10
    DEF Next, RunnerStep, DetectorCrash, ReclaimRead, PendingRead, Choose, NothingPending,
        ClaimCheck, TakeWatch, StartRun, BookRun, RunnerCrash, Restart, LeaseExpires
<1>2. QED BY <1>1, TypeCorrect, PTL DEF Spec, ClosedNeverReopens

-----------------------------------------------------------------------------
(* With one runner, as the service is deployed. *)

OneRunner == \A r, q \in Runner : r = q

\* While a runner works on an incident its claim is in the table and alive.
RunHoldsClaim ==
  \A r \in Runner, i \in Incident :
    Investigates(r, i) => claim[i] # None /\ claim[i].lease = "live"

\* What a runner that is alone relies on: a watch lease it is about to drop is
\* still the watch lease it read, and it reads leases only in its reclaim.
ReclaimFresh ==
  \A r \in Runner :
    /\ stale[r] # {} => pc[r] = "reclaim"
    /\ \A l \in stale[r] : l.from = "watching" => claim[l.id] # None /\ claim[l.id].from = "watching"

\* The inductive invariant of a runner that is alone.
AloneInv == InvestigatingIsClaimed /\ RunHoldsClaim /\ ReclaimFresh

LEMMA AloneInit == Init => AloneInv
BY DEF Init, AloneInv, InvestigatingIsClaimed, RunHoldsClaim, ReclaimFresh,
       InState, Known, Investigates

\* A sweep investigates nothing and touches no claim.
LEMMA AloneDetector ==
  ASSUME TypeOK, AloneInv, Detector \/ DetectorCrash
  PROVE  AloneInv'
<1>1. UNCHANGED <<claim, pc, stale, job>>
  BY DEF Detector, SweepQuiet, SweepIncident, SweepWatch, ExpireWatches,
         ResolveRecovered, DetectorCrash, locals
<1>2. \A i \in Incident : InState(i, {"investigating"})' => InState(i, {"investigating"})
  <2>1. ASSUME NEW j \in Incident, NEW m \in Measurement, NEW s \in {"watching", "detected"},
               SaveIncident(j, m, s), NEW i \in Incident, InState(i, {"investigating"})'
        PROVE  InState(i, {"investigating"})
    <3>1. incident'[i].state = "investigating" /\ Known(i)'
      BY <2>1 DEF InState
    <3>2. CASE i # j
      BY <2>1, <3>2 DEF SaveIncident, InState, Known, TypeOK
    <3>3. CASE i = j
      <4>1. CASE ~Known(i)
        BY <2>1, <3>1, <3>3, <4>1 DEF SaveIncident, Saved, Writable, InState, TypeOK
      <4>2. CASE Known(i)
        BY <2>1, <3>1, <3>3, <4>2 DEF SaveIncident, Saved, InState, TypeOK
      <4>3. QED BY <4>1, <4>2
    <3>4. QED BY <3>2, <3>3
  <2>2. ASSUME NEW ids, Close(ids), \A j \in ids : Known(j),
               NEW i \in Incident, InState(i, {"investigating"})'
        PROVE  InState(i, {"investigating"})
    BY <2>2 DEF Close, InState, Known, TypeOK, Row
  <2>3. QED
    BY <2>1, <2>2
    DEF Detector, SweepQuiet, SweepIncident, SweepWatch, ExpireWatches, ResolveRecovered,
        DetectorCrash, InState, Known
<1>3. InvestigatingIsClaimed'
  BY <1>1, <1>2 DEF AloneInv, InvestigatingIsClaimed
<1>4. QED
  BY <1>1, <1>3 DEF AloneInv, RunHoldsClaim, ReclaimFresh, Investigates

\* Neither do a runner's reads, its failed attempts, its crash or the clock.
LEMMA AloneQuiet ==
  ASSUME OneRunner, IndInv, AloneInv, NEW r \in Runner,
         \/ ReclaimRead(r) \/ PendingRead(r) \/ Choose(r) \/ NothingPending(r)
         \/ ClaimCheck(r) \/ StartRun(r) \/ BookRun(r) \/ RunnerCrash(r) \/ Restart(r)
  PROVE  AloneInv'
<1> USE DEF IndInv
<1>1. \A q \in Runner : q = r
  BY DEF OneRunner
<1>2. UNCHANGED <<incident, claim>>
  BY DEF ReclaimRead, PendingRead, Choose, NothingPending, ClaimCheck, StartRun, BookRun, RunnerCrash, Restart
<1>3. InvestigatingIsClaimed'
  BY <1>2 DEF AloneInv, InvestigatingIsClaimed, InState, Known
<1>4. ReclaimFresh'
  <2>1. CASE ReclaimRead(r)
    <3>1. \A l \in stale'[r] : l.from = "watching" => claim[l.id] # None /\ claim[l.id].from = "watching"
      BY <2>1 DEF ReclaimRead, InState, TypeOK
    <3>2. QED BY <1>1, <1>2, <2>1, <3>1 DEF ReclaimFresh, ReclaimRead, Goto, TypeOK
  <2>2. CASE BookRun(r) \/ RunnerCrash(r)
    BY <1>1, <1>2, <2>2 DEF ReclaimFresh, BookRun, RunnerCrash, Reset, TypeOK
  <2>3. CASE ~ReclaimRead(r) /\ ~BookRun(r) /\ ~RunnerCrash(r)
    BY <1>1, <1>2, <2>3 DEF AloneInv, ReclaimFresh, PendingRead, Choose, NothingPending, ClaimCheck,
       StartRun, Restart, Goto, locals, TypeOK
  <2>4. QED BY <2>1, <2>2, <2>3
<1>5. RunHoldsClaim'
  <2>1. CASE StartRun(r)
    BY <1>1, <1>2, <2>1 DEF AloneInv, RunHoldsClaim, Investigates, StartRun, Goto, TypeOK
  <2>2. CASE ~StartRun(r)
    <3>1. pc'[r] \notin {"claimed", "running"}
      BY <2>2 DEF ReclaimRead, PendingRead, Choose, NothingPending, ClaimCheck, BookRun, RunnerCrash, Restart,
         Goto, TypeOK
    <3>2. QED BY <1>1, <3>1 DEF RunHoldsClaim, Investigates
  <2>3. QED BY <2>1, <2>2
<1>6. QED BY <1>3, <1>4, <1>5 DEF AloneInv

\* A reclaim gives up a claim only with the row it put in investigating.
LEMMA AloneReclaim ==
  ASSUME OneRunner, TypeOK, AloneInv, NEW r \in Runner, ReclaimWrite(r)
  PROVE  AloneInv'
<1>1. \A q \in Runner : q = r
  BY DEF OneRunner
<1> DEFINE dropped == {l.id : l \in {k \in stale[r] : k.from = "watching" /\ k.restore = "watching"}}
           restored == {l \in stale[r] : l.id \notin dropped /\ Restorable(l.id)}
           ids == {l.id : l \in restored}
           restore(i) == (CHOOSE l \in restored : l.id = i).restore
<1>2. \A i \in dropped : ~InState(i, {"investigating"})
  BY DEF AloneInv, ReclaimFresh, InvestigatingIsClaimed, TypeOK, Lease
<1>3. \A i \in Incident : InState(i, {"investigating"}) /\ i \notin ids => i \notin dropped
  BY <1>2
<1>4. \A i \in ids : restore(i) # "investigating"
  <2>1. \A i \in ids : (CHOOSE l \in restored : l.id = i) \in restored
    OBVIOUS
  <2>2. restored \subseteq Lease
    BY DEF TypeOK
  <2>3. QED BY <2>1, <2>2 DEF Lease, ClaimableStates
<1>5. /\ incident' = [i \in Incident |->
           IF i \in ids THEN [incident[i] EXCEPT !.state = restore(i)] ELSE incident[i]]
      /\ claim' = [i \in Incident |-> IF i \in dropped \cup ids THEN None ELSE claim[i]]
  BY DEF ReclaimWrite
<1>6. \A i \in ids : incident[i] \in Row
  BY DEF InState, Known, TypeOK, Lease
<1> HIDE DEF dropped, restored, ids, restore
<1>7. InvestigatingIsClaimed'
  <2> SUFFICES ASSUME NEW i \in Incident, InState(i, {"investigating"})'
               PROVE  claim'[i] # None /\ claim'[i].from = "detected"
    BY DEF InvestigatingIsClaimed
  <2>1. incident'[i].state = "investigating"
    BY DEF InState
  <2>2. i \notin ids
    BY <1>4, <1>5, <1>6, <2>1 DEF Row
  <2>3. InState(i, {"investigating"}) /\ i \notin dropped
    BY <1>3, <1>5, <2>2 DEF InState, Known
  <2>4. QED BY <1>5, <2>2, <2>3 DEF AloneInv, InvestigatingIsClaimed
<1>8. pc'[r] = "pending" /\ stale'[r] = {}
  BY DEF ReclaimWrite, Goto, TypeOK
<1>9. QED
  BY <1>1, <1>7, <1>8 DEF AloneInv, RunHoldsClaim, ReclaimFresh, Investigates

\* A claim is taken for the row it marks.
LEMMA AloneTake ==
  ASSUME OneRunner, TypeOK, AloneInv, NEW r \in Runner, TakeWatch(r) \/ TakeDetected(r)
  PROVE  AloneInv'
<1>1. \A q \in Runner : q = r
  BY DEF OneRunner
<1>2. PICK i \in Incident : i = job[r].id
  BY DEF TakeWatch, TakeDetected, TypeOK, Holding, Reading
<1>3. stale[r] = {} /\ stale' \in [Runner -> SUBSET Lease] /\ stale'[r] = {}
  BY DEF AloneInv, ReclaimFresh, TakeWatch, TakeDetected, Reset, TypeOK
<1>4. pc'[r] = "claimed" \/ pc'[r] \notin {"claimed", "running"}
  BY DEF TakeWatch, TakeDetected, TypeOK
<1>6. ASSUME pc'[r] = "claimed"
      PROVE  /\ job'[r] = job[r] /\ claim'[i] \in Claim /\ claim'[i].lease = "live"
             /\ \A j \in Incident \ {i} : claim'[j] = claim[j] /\ incident'[j] = incident[j]
             /\ InState(i, {"investigating"})' => claim'[i].from = "detected"
  <2>1. CASE TakeWatch(r)
    <3>1. claim[i] = None
      BY <1>2, <1>6, <2>1 DEF TakeWatch, TypeOK
    <3>2. ~InState(i, {"investigating"})
      BY <3>1 DEF AloneInv, InvestigatingIsClaimed
    <3>3. claim'[i] = [from |-> "watching", lease |-> "live"]
      BY <1>2, <2>1, <3>1 DEF TakeWatch, TypeOK
    <3>4. QED
      BY <1>2, <2>1, <3>1, <3>2, <3>3 DEF TakeWatch, TypeOK, Claim, ClaimableStates, InState, Known
  <2>2. CASE TakeDetected(r)
    <3>1. InState(i, {"detected"})
      BY <1>2, <1>6, <2>2 DEF TakeDetected, TypeOK
    <3>2. claim'[i] = [from |-> "detected", lease |-> "live"]
      BY <1>2, <2>2, <3>1 DEF TakeDetected, TypeOK
    <3>3. QED BY <1>2, <2>2, <3>1, <3>2 DEF TakeDetected, TypeOK, Claim, ClaimableStates
  <2>3. QED BY <2>1, <2>2
<1>7. CASE pc'[r] = "claimed"
  <2>1. claim'[i] # None
    BY <1>6, <1>7, ConstantAssumption
  <2>2. InvestigatingIsClaimed'
    BY <1>6, <1>7, <2>1 DEF AloneInv, InvestigatingIsClaimed, InState, Known
  <2>3. RunHoldsClaim'
    BY <1>1, <1>2, <1>6, <1>7, <2>1 DEF RunHoldsClaim, Investigates
  <2>4. QED BY <1>1, <1>3, <2>2, <2>3 DEF AloneInv, ReclaimFresh
<1>8. CASE pc'[r] \notin {"claimed", "running"}
  <2>1. UNCHANGED <<incident, claim>>
    BY <1>8 DEF TakeWatch, TakeDetected, TypeOK
  <2>2. InvestigatingIsClaimed'
    BY <2>1 DEF AloneInv, InvestigatingIsClaimed, InState, Known
  <2>3. QED
    BY <1>1, <1>3, <1>8, <2>2 DEF AloneInv, RunHoldsClaim, ReclaimFresh, Investigates
<1>9. QED BY <1>4, <1>7, <1>8

\* A result releases the claim and takes the row out of investigating.
LEMMA AlonePersist ==
  ASSUME OneRunner, TypeOK, AloneInv, NEW r \in Runner, Persist(r)
  PROVE  AloneInv'
<1>1. \A q \in Runner : q = r
  BY DEF OneRunner
<1>2. PICK i \in Incident : i = job[r].id
  BY DEF Persist, TypeOK, Holding, Reading
<1>3. pc'[r] \notin {"claimed", "running"} /\ stale'[r] = {}
  <2>1. stale[r] = {}
    BY DEF AloneInv, ReclaimFresh, Persist
  <2>2. QED BY <2>1 DEF Persist, Reset, locals, TypeOK
<1>4. \A j \in Incident \ {i} : incident'[j] = incident[j] /\ claim'[j] = claim[j]
  BY <1>2 DEF Persist, TypeOK
<1>5. ~InState(i, {"investigating"})' \/ (incident'[i] = incident[i] /\ claim'[i] = claim[i])
  <2>1. CASE version[r] \in results[i]
    BY <1>2, <2>1 DEF Persist
  <2>2. CASE version[r] \notin results[i]
    <3>1. incident'[i].state # "investigating" \/ ~Known(i)
      BY <1>2, <2>2 DEF Persist, InState, Known, TypeOK, Row
    <3>2. ~Known(i) => ~Known(i)'
      BY <1>2, <2>2 DEF Persist, InState, Known
    <3>3. QED BY <3>1, <3>2 DEF InState
  <2>3. QED BY <2>1, <2>2
<1>6. InvestigatingIsClaimed'
  BY <1>4, <1>5 DEF AloneInv, InvestigatingIsClaimed, InState, Known
<1>7. QED
  BY <1>1, <1>3, <1>6 DEF AloneInv, RunHoldsClaim, ReclaimFresh, Investigates

\* A lease runs out only when nobody is running under it.
LEMMA AloneLease ==
  ASSUME LeaseCoversRun, TypeOK, AloneInv, NEW i \in Incident, LeaseExpires(i)
  PROVE  AloneInv'
<1>1. UNCHANGED <<incident, pc, stale, job>>
  BY DEF LeaseExpires, locals
<1>2. claim'[i] # None /\ claim'[i].from = claim[i].from
  <2>1. claim'[i] \in Claim
    BY DEF LeaseExpires, TypeOK, Claim
  <2>2. QED BY <2>1, ConstantAssumption DEF LeaseExpires, TypeOK, Claim
<1>3. \A j \in Incident \ {i} : claim'[j] = claim[j]
  BY DEF LeaseExpires, TypeOK
<1>4. \A r \in Runner : ~Investigates(r, i)
  BY DEF LeaseExpires
<1>5. InvestigatingIsClaimed'
  BY <1>1, <1>2, <1>3 DEF AloneInv, InvestigatingIsClaimed, InState, Known
<1>6. ReclaimFresh'
  <2>1. \A j \in Incident : claim[j] # None /\ claim[j].from = "watching"
                              => claim'[j] # None /\ claim'[j].from = "watching"
    BY <1>2, <1>3
  <2>2. QED BY <1>1, <2>1 DEF AloneInv, ReclaimFresh, TypeOK, Lease
<1>7. RunHoldsClaim'
  BY <1>1, <1>3, <1>4 DEF AloneInv, RunHoldsClaim, Investigates
<1>8. QED BY <1>5, <1>6, <1>7 DEF AloneInv

\* A service with one runner, whose runs end within the lease, keeps all of it.
LEMMA Alone ==
  ASSUME OneRunner, LeaseCoversRun
  PROVE  Spec => []AloneInv
<1>1. IndInv /\ AloneInv /\ [Next]_vars => AloneInv'
  <2> SUFFICES ASSUME IndInv, AloneInv, [Next]_vars PROVE AloneInv'
    OBVIOUS
  <2> TypeOK
    BY DEF IndInv
  <2>1. CASE UNCHANGED vars
    BY <2>1 DEF vars, locals, AloneInv, InvestigatingIsClaimed, RunHoldsClaim, ReclaimFresh,
                InState, Known, Investigates
  <2>2. CASE Next
    BY <2>2, AloneDetector, AloneQuiet, AloneReclaim, AloneTake, AlonePersist, AloneLease
    DEF Next, RunnerStep
  <2>3. QED BY <2>1, <2>2
<1>2. QED BY <1>1, AloneInit, Inductive, PTL DEF Spec

\* A row shown as investigating is owned by a claim taken from detected, in
\* every state that sweeps, crashes, restarts and reclaims can reach.
THEOREM InvestigatingClaimed ==
  ASSUME OneRunner, LeaseCoversRun
  PROVE  Spec => []InvestigatingIsClaimed
BY Alone, PTL DEF AloneInv

-----------------------------------------------------------------------------
(* The cost bound, with one runner and until a crash: a process that dies   *)
(* between the two transactions of persist_result loses the booking.        *)

BoundEvidence(i) == IF bound[i] = None THEN None ELSE bound[i].fingerprint

\* What the bound says is what was paid for, but for the run being booked, and
\* the runner is never at work on it.
PaidInv ==
  /\ \A i \in Incident :
       (\A r \in Runner : pc[r] = "booking" => job[r].id # i) => BoundEvidence(i) = paid[i]
  /\ \A r \in Runner : pc[r] = "booking" => paid[job[r].id] = Fingerprint(job[r])
  /\ \A r \in Runner : pc[r] \in Holding \ {"booking"} => paid[job[r].id] # Fingerprint(job[r])

\* The steps of a runner that pay for nothing, and choose nothing.
LEMMA PaidKept ==
  ASSUME OneRunner, TypeOK, PaidInv, UNCHANGED <<paid, bound>>,
         \A r \in Runner :
           \/ pc'[r] \notin Holding /\ pc[r] # "booking"
           \/ /\ pc'[r] \in Holding /\ pc[r] \in Holding
              /\ (pc'[r] = "booking" <=> pc[r] = "booking")
              /\ job'[r] = job[r]
  PROVE  PaidInv'
<1>1. \A r \in Runner : pc[r] = "booking" => pc'[r] = "booking" /\ job'[r] = job[r]
  BY DEF Holding
<1>2. ASSUME NEW i \in Incident, \A r \in Runner : pc'[r] = "booking" => job'[r].id # i
      PROVE  BoundEvidence(i)' = paid'[i]
  BY <1>1, <1>2 DEF PaidInv, BoundEvidence
<1>3. ASSUME NEW r \in Runner, pc'[r] = "booking"
      PROVE  paid'[job'[r].id] = Fingerprint(job'[r])
  BY <1>3 DEF PaidInv, Fingerprint, Holding
<1>4. ASSUME NEW r \in Runner, pc'[r] \in Holding \ {"booking"}
      PROVE  paid'[job'[r].id] # Fingerprint(job'[r])
  BY <1>4 DEF PaidInv, Fingerprint, Holding
<1>5. QED BY <1>2, <1>3, <1>4 DEF PaidInv, Fingerprint

\* A row is chosen only if the bound has other evidence for it.
LEMMA PaidChoose ==
  ASSUME OneRunner, TypeOK, PaidInv, NEW r \in Runner, Choose(r)
  PROVE  PaidInv'
<1>1. \A q \in Runner : q = r
  BY DEF OneRunner
<1>2. pc[r] = "choose" /\ UNCHANGED <<paid, bound>>
  BY DEF Choose
<1>3. \A i \in Incident : BoundEvidence(i) = paid[i]
  BY <1>1, <1>2 DEF PaidInv
<1>4. CASE UNCHANGED <<pc, job>>
  BY <1>2, <1>4, PaidKept, <1>1 DEF Holding
<1>5. ASSUME NEW t \in todo[r], pc' = [pc EXCEPT ![r] = "check"], job' = [job EXCEPT ![r] = t],
             bound[t.id] = None \/ bound[t.id].fingerprint # Fingerprint(t)
      PROVE  PaidInv'
  <2>1. t \in Reading /\ t.id \in Incident
    BY DEF TypeOK, Reading
  <2>2. Fingerprint(t) # None
    <3>1. Fingerprint(t) \in Evidence
      BY <2>1 DEF Fingerprint, Evidence, Reading
    <3>2. QED BY <3>1, ConstantAssumption
  <2>3. paid[t.id] # Fingerprint(t)
    BY <1>3, <1>5, <2>1, <2>2 DEF BoundEvidence
  <2>4. pc'[r] = "check" /\ job'[r] = t
    BY <1>5 DEF TypeOK
  <2>5. \A i \in Incident : BoundEvidence(i)' = paid'[i]
    BY <1>2, <1>3 DEF BoundEvidence
  <2>6. QED BY <1>1, <1>2, <2>3, <2>4, <2>5 DEF PaidInv, Fingerprint
<1>6. QED BY <1>4, <1>5 DEF Choose

\* A run pays for its evidence, then books it.
LEMMA PaidRun ==
  ASSUME OneRunner, TypeOK, PaidInv, NEW r \in Runner, Persist(r) \/ BookRun(r)
  PROVE  PaidInv'
<1>1. \A q \in Runner : q = r
  BY DEF OneRunner
<1>2. PICK i \in Incident : i = job[r].id
  BY DEF Persist, BookRun, Goto, TypeOK, Holding, Reading
<1>3. CASE Persist(r)
  <2>1. \A j \in Incident : BoundEvidence(j) = paid[j]
    BY <1>1, <1>3 DEF PaidInv, Persist
  <2>2. bound' = bound
    BY <1>3 DEF Persist
  <2>3. CASE version[r] \in results[i]
    <3>1. pc'[r] = "down" /\ paid' = paid
      BY <1>2, <1>3, <2>3 DEF Persist, TypeOK
    <3>2. QED BY <1>1, <2>1, <2>2, <3>1 DEF PaidInv, BoundEvidence, Holding
  <2>4. CASE version[r] \notin results[i]
    <3>1. pc'[r] = "booking" /\ job' = job
      BY <1>2, <1>3, <2>4 DEF Persist, TypeOK, locals
    <3>2. paid' = [paid EXCEPT ![i] = Fingerprint(job[r])]
      BY <1>2, <1>3, <2>4 DEF Persist
    <3>3. paid'[i] = Fingerprint(job[r]) /\ \A j \in Incident \ {i} : paid'[j] = paid[j]
      BY <3>2 DEF TypeOK
    <3>4. QED BY <1>1, <1>2, <2>1, <2>2, <3>1, <3>3 DEF PaidInv, BoundEvidence, Fingerprint
  <2>5. QED BY <2>3, <2>4
<1>4. CASE BookRun(r)
  <2> DEFINE booked == [fingerprint |-> Fingerprint(job[r]), calls |-> Calls(i) + 1]
  <2>1. pc[r] = "booking" /\ pc'[r] = "idle" /\ paid' = paid
    BY <1>4 DEF BookRun, Goto, TypeOK
  <2>2. bound' = [bound EXCEPT ![i] = booked]
    BY <1>2, <1>4 DEF BookRun
  <2>3. booked \in Bound
    BY <2>1 DEF Fingerprint, Evidence, Bound, Reading, Calls, TypeOK, Holding
  <2>4. booked # None /\ booked.fingerprint = Fingerprint(job[r])
    BY <2>3, ConstantAssumption
  <2> HIDE DEF booked
  <2>5. BoundEvidence(i)' = Fingerprint(job[r])
    BY <2>2, <2>4 DEF BoundEvidence, TypeOK
  <2>6. \A j \in Incident \ {i} : BoundEvidence(j)' = BoundEvidence(j)
    BY <2>2 DEF BoundEvidence, TypeOK
  <2>7. \A j \in Incident : BoundEvidence(j)' = paid[j]
    BY <1>1, <1>2, <2>1, <2>5, <2>6 DEF PaidInv
  <2>8. QED BY <1>1, <2>1, <2>7 DEF PaidInv, Holding
<1>5. QED BY <1>3, <1>4

\* Steps that move a runner without paying, booking or choosing.
LEMMA PaidStep ==
  ASSUME OneRunner, TypeOK, PaidInv, [Next]_vars, crashes' = crashes
  PROVE  PaidInv'
<1>1. CASE Detector \/ (\E i \in Incident : LeaseExpires(i)) \/ UNCHANGED vars
  <2>1. UNCHANGED <<paid, bound, pc, job>>
    BY <1>1 DEF Detector, SweepQuiet, SweepIncident, SweepWatch, ExpireWatches,
                ResolveRecovered, LeaseExpires, vars, locals
  <2>2. QED BY <2>1 DEF PaidInv, BoundEvidence, Fingerprint
<1>2. ~DetectorCrash /\ \A r \in Runner : ~RunnerCrash(r)
  BY DEF DetectorCrash, RunnerCrash, TypeOK
<1>3. ASSUME NEW r \in Runner,
             \/ ReclaimRead(r) \/ ReclaimWrite(r) \/ PendingRead(r) \/ NothingPending(r)
             \/ ClaimCheck(r) \/ TakeWatch(r) \/ TakeDetected(r) \/ StartRun(r) \/ Restart(r)
      PROVE  PaidInv'
  <2>1. UNCHANGED <<paid, bound>>
    BY <1>3 DEF ReclaimRead, ReclaimWrite, PendingRead, NothingPending, ClaimCheck,
                TakeWatch, TakeDetected, StartRun, Restart
  <2>2. \/ pc'[r] \notin Holding /\ pc[r] # "booking"
        \/ /\ pc'[r] \in Holding /\ pc[r] \in Holding
           /\ pc'[r] # "booking" /\ pc[r] # "booking"
           /\ job'[r] = job[r]
    BY <1>3 DEF ReclaimRead, ReclaimWrite, PendingRead, NothingPending, ClaimCheck,
                TakeWatch, TakeDetected, StartRun, Restart, Goto, Holding, TypeOK
  <2>3. \A q \in Runner : q = r
    BY DEF OneRunner
  <2>4. QED BY <2>1, <2>2, <2>3, PaidKept
<1>4. QED BY <1>1, <1>2, <1>3, PaidChoose, PaidRun DEF Next, RunnerStep

\* Crashes are counted and never taken back: a state without one comes from a
\* state without one.
LEMMA CrashesGrow ==
  ASSUME TypeOK, [Next]_vars, crashes' = 0
  PROVE  crashes' = crashes
<1>1. ~DetectorCrash /\ \A r \in Runner : ~RunnerCrash(r)
  BY DEF DetectorCrash, RunnerCrash, TypeOK
<1>2. CASE Detector \/ (\E i \in Incident : LeaseExpires(i)) \/ UNCHANGED vars
  BY <1>2 DEF Detector, SweepQuiet, SweepIncident, SweepWatch, ExpireWatches,
              ResolveRecovered, LeaseExpires, vars
<1>3. ASSUME NEW r \in Runner, RunnerStep(r)
      PROVE  crashes' = crashes
  BY <1>3 DEF RunnerStep, ReclaimRead, ReclaimWrite, PendingRead, Choose, NothingPending,
              ClaimCheck, TakeWatch, TakeDetected, StartRun, Persist, BookRun, Restart
<1>4. QED BY <1>1, <1>2, <1>3 DEF Next

\* Until a process dies, no run is started on the evidence of the last result.
THEOREM NeverPaidTwice ==
  ASSUME OneRunner
  PROVE  Spec => []PaidOnceUntilCrash
<1> DEFINE UntilCrash == crashes = 0 => PaidInv
<1>1. Init => UntilCrash
  BY DEF Init, PaidInv, BoundEvidence, Holding
<1>2. TypeOK /\ UntilCrash /\ [Next]_vars => UntilCrash'
  BY PaidStep, CrashesGrow
<1>3. UntilCrash => PaidOnceUntilCrash
  BY DEF PaidInv, PaidOnceUntilCrash, EvidencePaidOnce, Holding
<1>4. QED BY <1>1, <1>2, <1>3, TypeCorrect, PTL DEF Spec

(***************************************************************************)
(* The cost bound's count.  A result is stored in one transaction and      *)
(* counted in the next, so the count is behind by one for the incident a   *)
(* runner is booking.                                                      *)
(***************************************************************************)
Booking(i) == \E r \in Runner : pc[r] = "booking" /\ job[r].id = i
CountInv == \A i \in Incident : LastVersion(i) = IF Booking(i) THEN Calls(i) + 1 ELSE Calls(i)

\* Steps that store and count nothing.
LEMMA CountKept ==
  ASSUME TypeOK, CountInv, UNCHANGED <<results, bound>>,
         \A r \in Runner : /\ pc'[r] = "booking" <=> pc[r] = "booking"
                           /\ pc[r] = "booking" => job'[r] = job[r]
  PROVE  CountInv'
<1>1. \A i \in Incident : Booking(i)' <=> Booking(i)
  BY DEF Booking
<1>2. \A i \in Incident : LastVersion(i)' = LastVersion(i) /\ Calls(i)' = Calls(i)
  BY DEF LastVersion, Calls
<1>3. QED BY <1>1, <1>2 DEF CountInv

LEMMA CountPersist ==
  ASSUME OneRunner, IndInv, CountInv, NEW r \in Runner, Persist(r)
  PROVE  CountInv'
<1> USE DEF IndInv
<1>1. PICK k \in Incident : k = job[r].id
  BY DEF Persist, TypeOK, Holding, Reading
<1>2. \A q \in Runner : q = r
  BY DEF OneRunner
<1>3. pc[r] = "running" /\ bound' = bound
  BY DEF Persist
<1>4. \A i \in Incident : LastVersion(i) = Calls(i) /\ Calls(i)' = Calls(i)
  BY <1>2, <1>3 DEF CountInv, Booking, Calls
<1>5. CASE version[r] \in results[k]
  <2>1. UNCHANGED results /\ pc'[r] = "down"
    BY <1>1, <1>5 DEF Persist, TypeOK
  <2>2. \A i \in Incident : ~Booking(i)'
    BY <1>2, <2>1 DEF Booking
  <2>3. \A i \in Incident : LastVersion(i)' = LastVersion(i)
    BY <2>1 DEF LastVersion
  <2>4. QED BY <1>4, <2>2, <2>3 DEF CountInv
<1>6. CASE version[r] \notin results[k]
  <2>1. /\ results' = [results EXCEPT ![k] = @ \cup {version[r]}]
        /\ pc'[r] = "booking" /\ job' = job
    BY <1>1, <1>6 DEF Persist, TypeOK, locals
  <2>2. PICK n \in Nat : results[k] = 1..n
    BY DEF Numbered
  <2>3. Highest(results[k]) = n
    BY <2>2, HighestIsLast
  <2>4. version[r] = n + 1
    BY <1>1, <1>3, <1>6, <2>2, <2>3 DEF RunsWriteNextVersion, NextVersion, LastVersion
  <2>5. results'[k] = (1..n) \cup {n + 1}
    BY <2>1, <2>2, <2>4 DEF TypeOK
  <2>6. (1..n) \cup {n + 1} = 1..(n + 1)
    OBVIOUS
  <2>7. Highest(results'[k]) = n + 1
    <3>1. n + 1 \in Nat
      OBVIOUS
    <3>2. Highest(1..(n + 1)) = n + 1
      BY <3>1, HighestIsLast
    <3>3. QED BY <2>5, <2>6, <3>2
  <2>8. \A i \in Incident \ {k} : results'[i] = results[i]
    BY <2>1 DEF TypeOK
  <2>9. \A i \in Incident : Booking(i)' <=> i = k
    BY <1>1, <1>2, <2>1 DEF Booking
  <2>10. LastVersion(k)' = Calls(k)' + 1
    BY <1>4, <2>3, <2>7 DEF LastVersion
  <2>11. \A i \in Incident \ {k} : LastVersion(i)' = Calls(i)'
    BY <1>4, <2>8 DEF LastVersion
  <2>12. QED
    <3> SUFFICES ASSUME NEW i \in Incident
                 PROVE  LastVersion(i)' = IF Booking(i)' THEN Calls(i)' + 1 ELSE Calls(i)'
      BY DEF CountInv
    <3>1. CASE i = k
      BY <2>9, <2>10, <3>1
    <3>2. CASE i # k
      BY <2>9, <2>11, <3>2
    <3>3. QED BY <3>1, <3>2
<1>7. QED BY <1>5, <1>6

LEMMA CountBook ==
  ASSUME OneRunner, TypeOK, CountInv, NEW r \in Runner, BookRun(r)
  PROVE  CountInv'
<1>1. PICK k \in Incident : k = job[r].id
  BY DEF BookRun, Goto, TypeOK, Holding, Reading
<1>2. /\ pc[r] = "booking" /\ pc'[r] = "idle" /\ results' = results
      /\ bound' = [bound EXCEPT ![k] = Booked(k, job[r])]
  BY <1>1 DEF BookRun, Goto, TypeOK
<1>3. \A q \in Runner : q = r
  BY DEF OneRunner
<1>4. \A i \in Incident : (Booking(i) <=> i = k) /\ ~Booking(i)'
  BY <1>1, <1>2, <1>3 DEF Booking
<1>5. \A i \in Incident : LastVersion(i)' = LastVersion(i)
  BY <1>2 DEF LastVersion
<1>6. Booked(k, job[r]) = [fingerprint |-> Fingerprint(job[r]), calls |-> Calls(k) + 1]
  BY DEF Booked
<1>7. Fingerprint(job[r]) \in Evidence /\ Calls(k) \in Nat
  BY <1>2 DEF TypeOK, Holding, Reading, Fingerprint, Evidence, Calls, Bound
<1>8. Booked(k, job[r]) # None
  BY <1>6, <1>7, ConstantAssumption DEF Bound
<1>9. bound'[k] = Booked(k, job[r])
  BY <1>2 DEF TypeOK
<1>10. Calls(k)' = Calls(k) + 1
  BY <1>6, <1>8, <1>9 DEF Calls
<1>11. \A i \in Incident \ {k} : Calls(i)' = Calls(i)
  BY <1>2 DEF Calls, TypeOK
<1>12. QED
  <2> SUFFICES ASSUME NEW i \in Incident PROVE LastVersion(i)' = Calls(i)'
    BY <1>4 DEF CountInv
  <2>1. CASE i = k
    BY <1>4, <1>5, <1>10, <2>1 DEF CountInv
  <2>2. CASE i # k
    BY <1>4, <1>5, <1>11, <2>2 DEF CountInv
  <2>3. QED BY <2>1, <2>2

LEMMA CountStep ==
  ASSUME OneRunner, IndInv, CountInv, [Next]_vars, crashes' = crashes
  PROVE  CountInv'
<1> USE DEF IndInv
<1>1. CASE Detector \/ (\E i \in Incident : LeaseExpires(i)) \/ UNCHANGED vars
  <2>1. UNCHANGED <<results, bound, pc, job>>
    BY <1>1 DEF Detector, SweepQuiet, SweepIncident, SweepWatch, ExpireWatches,
                ResolveRecovered, LeaseExpires, vars, locals, stored
  <2>2. QED BY <2>1, CountKept
<1>2. ~DetectorCrash /\ \A r \in Runner : ~RunnerCrash(r)
  BY DEF DetectorCrash, RunnerCrash, TypeOK
<1>3. ASSUME NEW r \in Runner,
             \/ ReclaimRead(r) \/ ReclaimWrite(r) \/ PendingRead(r) \/ NothingPending(r)
             \/ Choose(r) \/ ClaimCheck(r) \/ TakeWatch(r) \/ TakeDetected(r)
             \/ StartRun(r) \/ Restart(r)
      PROVE  CountInv'
  <2>1. UNCHANGED <<results, bound>>
    BY <1>3 DEF ReclaimRead, ReclaimWrite, PendingRead, NothingPending, Choose, ClaimCheck,
                TakeWatch, TakeDetected, StartRun, Restart, stored
  <2>2. pc[r] # "booking" /\ pc'[r] # "booking"
    BY <1>3 DEF ReclaimRead, ReclaimWrite, PendingRead, NothingPending, Choose, ClaimCheck,
                TakeWatch, TakeDetected, StartRun, Restart, Goto, TypeOK
  <2>3. \A q \in Runner : q = r
    BY DEF OneRunner
  <2>4. QED BY <2>1, <2>2, <2>3, CountKept
<1>4. QED BY <1>1, <1>2, <1>3, CountPersist, CountBook DEF Next, RunnerStep

\* Until a process dies, the bound counts the results that are stored.
THEOREM BoundCounts ==
  ASSUME OneRunner
  PROVE  Spec => []CallsCountResults
<1> DEFINE UntilCrash == crashes = 0 => CountInv
<1>1. Init => UntilCrash
  <2> SUFFICES ASSUME Init, NEW i \in Incident
               PROVE  LastVersion(i) = IF Booking(i) THEN Calls(i) + 1 ELSE Calls(i)
    BY DEF CountInv
  <2>1. results[i] = 1..0 /\ ~Booking(i) /\ Calls(i) = 0
    BY DEF Init, Booking, Calls
  <2>2. QED BY <2>1, HighestIsLast DEF LastVersion
<1>2. IndInv /\ UntilCrash /\ [Next]_vars => UntilCrash'
  BY CountStep, CrashesGrow DEF IndInv
<1>3. UntilCrash => CallsCountResults
  BY DEF CountInv, CallsCountResults, Booking
<1>4. QED BY <1>1, <1>2, <1>3, Inductive, PTL DEF Spec

=============================================================================
