----------------------------- MODULE Escalation -----------------------------
(***************************************************************************)
(* Escalation (surfaces/store.py, surfaces/escalation.py).  Every read of  *)
(* the board runs ensure_escalation on the rows it has just read: it fires *)
(* each channel bound at the row's severity, at most once per incident,    *)
(* and records the outcome.  Requests run on threads of their own and the  *)
(* board polls, so several readers are at it at once, each on the row it   *)
(* read, while sweeps re-measure the row and the investigation daemon      *)
(* claims it, runs, dies and reclaims: while a claim is held the latest    *)
(* result reads as one in flight, and nothing fires from that.             *)
(***************************************************************************)
EXTENDS Naturals, FiniteSets

CONSTANTS
  Incident,
  Reader,      \* request threads of the surfaces servers
  None,
  MaxChanges,  \* bound: times the detector writes a row
  MaxRuns,     \* bound: rows the investigation daemon takes up
  MaxCrashes   \* bound: deaths, of requests and of that daemon

VARIABLES
  row,       \* the incident's [state, severity], or None
  result,    \* investigation_result holds a result of the incident
  lease,     \* investigation_claim: the state it was claimed from, or None
  run,       \* the daemon's run: [id, read, claimed], or None
  claimed,   \* escalation_channel_claim: channels claimed
  event,     \* escalation_event: each channel's recorded status, or None
  call,      \* pending_call: "none", "ringing" or "acknowledged"
  fired,     \* history: how often each channel has been fired
  reached,   \* history: severities the row had since it may escalate
  pc,        \* each reader's position in ensure_escalation
  seen,      \* the row it has read, its identifier and whether it has a result
  todo,      \* channels it has found unrecorded, then those it won
  outcome,   \* statuses of the channels it has fired
  changes, runs, crashes

rowVars  == <<row, reached, changes>>
runVars  == <<result, lease, run, runs>>
store    == <<claimed, event, call>>
locals   == <<seen, todo, outcome>>
request  == <<store, fired, pc, locals>>
vars     == <<rowVars, runVars, request, crashes>>

Channel  == {"dashboard", "slack", "phone"}
Severity == {"low", "high", "critical"}   \* medium binds what low binds
Status   == {"attempted", "fallback_dashboard"}   \* delivered, failed and
                                                 \* not_configured are one

\* A severity's channels are fired in this order.
Before(c) == IF c = "dashboard" THEN {} ELSE {"dashboard"} \cup ({"slack"} \ {c})

\* No code writes acknowledged or mitigated.
Claimable == {"watching", "detected"}
State == Claimable \cup {"investigating", "diagnosed", "resolved"}
Row   == [state : State, severity : Severity]
Seen  == [id : Incident, state : State, severity : Severity, result : BOOLEAN]
Run   == [id : Incident, read : Claimable, claimed : BOOLEAN]

ASSUME EscalationAssumption ==
  /\ None \notin Row \cup Seen \cup Status \cup Claimable \cup Run
  /\ MaxChanges \in Nat /\ MaxRuns \in Nat /\ MaxCrashes \in Nat

\* (Mutant: high places a call as well.)
LoudBinding(severity) ==
  {"dashboard"} \cup IF severity \in {"high", "critical"} THEN {"slack", "phone"} ELSE {}
ChannelsFor(severity) ==
  {"dashboard"} \cup
  (IF severity \in {"high", "critical"} THEN {"slack"} ELSE {}) \cup
  (IF severity = "critical" THEN {"phone"} ELSE {})

\* (Mutant: the allowlist lets a watch through.)
AnyState(state) == state \in State
Escalatable(state) == state \in State \ {"watching"}

Known(i)   == row[i] # None
InState(i, S) == Known(i) /\ row[i].state \in S
Live(i)    == InState(i, State \ {"resolved"})
Unrecorded == [c \in Channel |-> None]

Init ==
  /\ row      = [i \in Incident |-> None]
  /\ result   = [i \in Incident |-> FALSE]
  /\ lease    = [i \in Incident |-> None]
  /\ run      = None
  /\ claimed  = [i \in Incident |-> {}]
  /\ event    = [i \in Incident |-> Unrecorded]
  /\ call     = [i \in Incident |-> "none"]
  /\ fired    = [i \in Incident |-> [c \in Channel |-> 0]]
  /\ reached  = [i \in Incident |-> {}]
  /\ pc       = [r \in Reader |-> "idle"]
  /\ seen     = [r \in Reader |-> None]
  /\ todo     = [r \in Reader |-> {}]
  /\ outcome  = [r \in Reader |-> Unrecorded]
  /\ changes  = 0
  /\ runs     = 0
  /\ crashes  = 0

-----------------------------------------------------------------------------
(* The row's writers: the detector's sweep *)

\* (A row that measures as it did is no step.)
Write(i, state, severity) ==
  /\ row[i] # [state |-> state, severity |-> severity]
  /\ row' = [row EXCEPT ![i] = [state |-> state, severity |-> severity]]
  /\ reached' = [reached EXCEPT ![i] = @ \cup IF state = "watching" THEN {} ELSE {severity}]
  /\ UNCHANGED <<runVars, request, crashes>>

\* save_incident with an incident: a new row, or a live one re-measured. The one
\* state it moves is watching.
SaveIncident(i, severity) ==
  /\ changes < MaxChanges
  /\ ~Known(i) \/ Live(i)
  /\ Write(i, IF InState(i, State \ {"watching"}) THEN row[i].state ELSE "detected", severity)
  /\ changes' = changes + 1

\* save_incident with a watch, which is always low and writes only a watch.
SaveWatch(i) ==
  /\ ~Known(i) \/ InState(i, {"watching"})
  /\ changes < MaxChanges
  /\ Write(i, "watching", "low")
  /\ changes' = changes + 1

\* An expired watch and a recovered incident are closed alike.
CloseRow(i) ==
  /\ Live(i)
  /\ Write(i, "resolved", row[i].severity)
  /\ UNCHANGED changes

-----------------------------------------------------------------------------
(* ... and the investigation daemon, one run at a time (IncidentLifecycle has  *)
(* its steps one by one, and which evidence it pays for)                       *)

\* A state moved by the daemon: the column alone, whatever the row measures.
Move(i, state) == row' = [row EXCEPT ![i].state = state]

Running(i) == run # None /\ run.id = i /\ run.claimed

\* _pending_rows offers a claimable row without a claim.
PollRow(i) ==
  /\ run = None /\ runs < MaxRuns
  /\ InState(i, Claimable) /\ lease[i] = None
  /\ run' = [id |-> i, read |-> row[i].state, claimed |-> FALSE]
  /\ runs' = runs + 1
  /\ UNCHANGED <<rowVars, result, lease, request, crashes>>

\* claim_incident, on the state the row has by now. One step: a watch's claim
\* looks at no state when it is written, a detected row's UPDATE is guarded.
ClaimRow ==
  LET i == run.id IN
  /\ run # None /\ ~run.claimed
  /\ IF InState(i, Claimable) /\ lease[i] = None
     THEN /\ lease' = [lease EXCEPT ![i] = row[i].state]
          /\ run' = [run EXCEPT !.claimed = TRUE]
          /\ IF row[i].state = "detected" THEN Move(i, "investigating") ELSE UNCHANGED row
     ELSE run' = None /\ UNCHANGED <<row, lease>>
  /\ UNCHANGED <<reached, changes, result, runs, request, crashes>>

\* persist_result. A run resumes the state its poll read, so a watch upgraded
\* between poll and claim falls back to watching.
StoreResult ==
  LET i == run.id IN
  /\ run # None /\ run.claimed
  /\ result' = [result EXCEPT ![i] = TRUE]
  /\ lease' = [lease EXCEPT ![i] = None]
  /\ run' = None
  /\ \/ /\ run.read = "watching" /\ InState(i, {"investigating", "watching"})
        /\ Move(i, "watching")
     \/ /\ run.read = "detected" /\ InState(i, {"investigating", "detected"})
        /\ Move(i, "diagnosed")
     \/ /\ ~InState(i, {"investigating", run.read})
        /\ UNCHANGED row
  /\ UNCHANGED <<reached, changes, runs, request, crashes>>

\* The daemon dies and leaves its claim behind.
DaemonDies ==
  /\ run # None /\ crashes < MaxCrashes
  /\ run' = None
  /\ crashes' = crashes + 1
  /\ UNCHANGED <<rowVars, result, lease, runs, request>>

\* The rows reclaim_expired_claims looks at.
Reclaimable(i) ==
  InState(i, {"investigating"}) \/ (InState(i, {"watching"}) /\ lease[i] = "watching")

\* Some time after its owner died a claim has expired: the row goes back to the
\* state it was claimed from.
Reclaim(i) ==
  /\ lease[i] # None /\ ~Running(i) /\ Reclaimable(i)
  /\ Move(i, lease[i])
  /\ lease' = [lease EXCEPT ![i] = None]
  /\ UNCHANGED <<reached, changes, result, run, runs, request, crashes>>

-----------------------------------------------------------------------------
(* ensure_escalation *)

Goto(r, from, to) == pc[r] = from /\ pc' = [pc EXCEPT ![r] = to]

\* A request's locals end with it.
Forget(r) ==
  /\ seen' = [seen EXCEPT ![r] = None]
  /\ todo' = [todo EXCEPT ![r] = {}]
  /\ outcome' = [outcome EXCEPT ![r] = Unrecorded]

\* list_incidents or load_incident: state and severity are of one row version.
ReadRow(r, i) ==
  /\ Goto(r, "idle", "read")
  /\ Known(i)
  /\ seen' = [seen EXCEPT ![r] =
       [id |-> i, state |-> row[i].state, severity |-> row[i].severity, result |-> FALSE]]
  /\ UNCHANGED <<rowVars, runVars, store, fired, todo, outcome, crashes>>

\* read_result: while a claim is held, the falsy InFlightInvestigation, whatever
\* is stored. (Mutant: a run in flight counts as a diagnosis.)
ReadsAnyRun(i) == result[i] \/ lease[i] # None
ReadsResult(i) == result[i] /\ lease[i] = None

ReadResult(r) ==
  /\ Goto(r, "read", "check")
  /\ seen' = [seen EXCEPT ![r].result = ReadsResult(seen[r].id)]
  /\ UNCHANGED <<rowVars, runVars, store, fired, todo, outcome, crashes>>

Recorded(i) == {c \in Channel : event[i][c] # None}

\* The early returns, in order: a watch, no result, nothing left to fire.
Check(r) ==
  LET s == seen[r]
      unfired == IF Escalatable(s.state) /\ s.result
                 THEN ChannelsFor(s.severity) \ Recorded(s.id) ELSE {}
  IN
  /\ pc[r] = "check"
  /\ IF unfired = {}
     THEN pc' = [pc EXCEPT ![r] = "idle"] /\ Forget(r)
     ELSE /\ pc' = [pc EXCEPT ![r] = "claim"]
          /\ todo' = [todo EXCEPT ![r] = unfired]
          /\ UNCHANGED <<seen, outcome>>
  /\ UNCHANGED <<rowVars, runVars, store, fired, crashes>>

\* INSERT OR IGNORE, one row per channel. (Mutants: a claim per incident, as
\* the table before this one; a claim that replaces.)
WonAsIncident(i, channels) == IF claimed[i] = {} THEN channels ELSE {}
WonAlways(i, channels) == channels
Won(i, channels) == channels \ claimed[i]

ClaimChannels(r) ==
  LET i == seen[r].id
      won == Won(i, todo[r])
  IN
  /\ pc[r] = "claim"
  /\ claimed' = [claimed EXCEPT ![i] = @ \cup won]
  /\ IF won = {}
     THEN pc' = [pc EXCEPT ![r] = "idle"] /\ Forget(r)
     ELSE /\ pc' = [pc EXCEPT ![r] = "fire"]
          /\ todo' = [todo EXCEPT ![r] = won]
          /\ UNCHANGED <<seen, outcome>>
  /\ UNCHANGED <<rowVars, runVars, event, call, fired, crashes>>

\* record_pending_call: INSERT OR IGNORE, so a call is never rung twice.
Enqueued(i) == IF call[i] = "none" THEN "ringing" ELSE call[i]

\* What a channel may report. A phone that is absent falls back to the panel; one
\* that fails rings there too, unless enqueueing fails, which is swallowed.
Reports(c) == IF c = "phone" THEN Status ELSE {"attempted"}

\* escalate, one channel: nothing it does raises.
Fire(r, c, status) ==
  LET i == seen[r].id IN
  /\ pc[r] = "fire" /\ c \in todo[r] /\ todo[r] \cap Before(c) = {}
  /\ status \in Reports(c)
  /\ fired' = [fired EXCEPT ![i][c] = @ + 1]
  /\ outcome' = [outcome EXCEPT ![r][c] = status]
  /\ todo' = [todo EXCEPT ![r] = @ \ {c}]
  /\ \/ /\ c = "phone"
        /\ call' = [call EXCEPT ![i] = Enqueued(i)]
     \/ /\ status # "fallback_dashboard"
        /\ UNCHANGED call
  /\ UNCHANGED <<rowVars, runVars, claimed, event, pc, seen, crashes>>

\* The outcomes are recorded in one transaction, INSERT OR IGNORE.
Record(r) ==
  LET i == seen[r].id IN
  /\ Goto(r, "fire", "idle")
  /\ todo[r] = {}
  /\ event' = [event EXCEPT ![i] =
       [c \in Channel |-> IF event[i][c] = None THEN outcome[r][c] ELSE event[i][c]]]
  /\ Forget(r)
  /\ UNCHANGED <<rowVars, runVars, claimed, call, fired, crashes>>

Acknowledge(i) ==
  /\ call[i] = "ringing"
  /\ call' = [call EXCEPT ![i] = "acknowledged"]
  /\ UNCHANGED <<rowVars, runVars, claimed, event, fired, pc, locals, crashes>>

\* A request dies: the process is killed, or the database stays locked past its
\* timeout and the exception leaves the handler.
Crash(r) ==
  /\ pc[r] # "idle" /\ crashes < MaxCrashes
  /\ pc' = [pc EXCEPT ![r] = "idle"]
  /\ Forget(r)
  /\ crashes' = crashes + 1
  /\ UNCHANGED <<rowVars, runVars, store, fired>>

ReaderStep(r) ==
  \/ ReadResult(r) \/ Check(r) \/ ClaimChannels(r) \/ Record(r)
  \/ \E c \in Channel, status \in Status : Fire(r, c, status)

Next ==
  \/ \E i \in Incident, severity \in Severity : SaveIncident(i, severity)
  \/ \E i \in Incident :
       \/ SaveWatch(i) \/ CloseRow(i) \/ PollRow(i) \/ Reclaim(i) \/ Acknowledge(i)
       \/ \E r \in Reader : ReadRow(r, i)
  \/ ClaimRow \/ StoreResult \/ DaemonDies
  \/ \E r \in Reader : ReaderStep(r) \/ Crash(r)

Spec == Init /\ [][Next]_vars

\* A board is open: it polls, each poll visits every row, and a request runs to
\* its end. Strong fairness, because a request is read anew only between two. A
\* run ends at the agent's timeout, and the daemon, restarted when it dies, goes
\* on reclaiming.
FairSpec ==
  /\ Spec
  /\ WF_vars(ClaimRow) /\ WF_vars(StoreResult)
  /\ \A i \in Incident : WF_vars(Reclaim(i))
  /\ \A r \in Reader : WF_vars(ReaderStep(r))
  /\ \A r \in Reader, i \in Incident : SF_vars(ReadRow(r, i))

-----------------------------------------------------------------------------
(* Properties *)

\* Every variable holds what its table or local can hold, and a reader works on
\* a row exactly while it is inside a request.
TypeOK ==
  /\ row      \in [Incident -> Row \cup {None}]
  /\ result   \in [Incident -> BOOLEAN]
  /\ lease    \in [Incident -> Claimable \cup {None}]
  /\ run      \in Run \cup {None}
  /\ claimed  \in [Incident -> SUBSET Channel]
  /\ event    \in [Incident -> [Channel -> Status \cup {None}]]
  /\ call     \in [Incident -> {"none", "ringing", "acknowledged"}]
  /\ fired    \in [Incident -> [Channel -> Nat]]
  /\ reached  \in [Incident -> SUBSET Severity]
  /\ pc       \in [Reader -> {"idle", "read", "check", "claim", "fire"}]
  /\ seen     \in [Reader -> Seen \cup {None}]
  /\ \A r \in Reader : pc[r] = "idle" <=> seen[r] = None
  /\ todo     \in [Reader -> SUBSET Channel]
  /\ outcome  \in [Reader -> [Channel -> Status \cup {None}]]
  /\ changes \in Nat /\ runs \in Nat /\ crashes \in Nat

\* "A channel fires at most once per incident, ever": overlapping requests,
\* stale rows, crashes and a severity that crosses a band both ways included.
FiresAtMostOnce == \A i \in Incident, c \in Channel : fired[i][c] <= 1

\* A watch is silent: no channel of a row that has never been more than a watch
\* is claimed or recorded, by whichever request, on whatever reading. (A row that
\* falls back to watching, StoreResult, may have rung before.)
WatchIsSilent ==
  \A i \in Incident : reached[i] = {} => claimed[i] = {} /\ Recorded(i) = {}

\* "Only after a C4 result exists": a run in flight, whose trail the board already
\* shows, claims no channel, though the gate is read, the claim taken and the run
\* abandoned and started again in any order.
PagesAreDiagnosed == \A i \in Incident : claimed[i] # {} => result[i]

\* Whatever is stored now, a channel rings only for an incident that has been
\* measured in its band: slack for high, the phone for critical alone.
BandWasReached ==
  \A i \in Incident :
    /\ fired[i]["slack"] > 0 => reached[i] \cap {"high", "critical"} # {}
    /\ fired[i]["phone"] > 0 => "critical" \in reached[i]

\* A call that fell back to the dashboard rings there: it is "recorded as a
\* pending dashboard item instead rather than silently dropped"
\* (docs/contracts/notification-escalation.md).
FallbackRings ==
  \A i \in Incident : event[i]["phone"] = "fallback_dashboard" => call[i] # "none"

Due(i, c) ==
  /\ Known(i) /\ Escalatable(row[i].state) /\ result[i]
  /\ c \in ChannelsFor(row[i].severity)

\* A claim nobody holds and no reclaim will look at: its result stays in flight.
Stranded(i) == lease[i] # None /\ ~Running(i) /\ ~Reclaimable(i)

\* A channel claimed by a request that died before it recorded the outcome.
LostClaim(i, c) ==
  /\ c \in claimed[i] \ Recorded(i)
  /\ \A r \in Reader :
       pc[r] = "fire" /\ seen[r].id = i => c \notin todo[r] /\ outcome[r][c] = None

\* "A channel fires when its band is finally reached", and "the next read picks
\* up the winner's result" (surfaces/store.py): a channel the row binds gets a
\* recorded outcome, over overlapping requests and however often the row is
\* investigated again, unless the row is re-measured out of the band first. Two
\* deaths alone can take the page: of a request between its claim and its record,
\* and of the daemon whose claim the row has since moved away from.
DueChannelIsRecorded ==
  \A i \in Incident, c \in Channel :
    Due(i, c) ~> \/ c \in Recorded(i) \/ ~Due(i, c)
                 \/ LostClaim(i, c) \/ Stranded(i)

=============================================================================
