------------------------------ MODULE Diagnosis ------------------------------
(***************************************************************************)
(* One diagnosis from end to end: a worker runs an incident, the detector  *)
(* reports a cohort, the agent runs the opening tools, the pre-filter      *)
(* lists hypotheses and seeds the ledger, the model asks more, and an      *)
(* answer is validated or degraded (investigation/gateway.py,              *)
(* prefilter.py, ledger.py, agent.py, degrade.py).                         *)
(* Scores are in hundredths, conversions and rates in per mille.           *)
(***************************************************************************)
EXTENDS MeasuredTraffic

CONSTANTS
    Reported,      \* the cohorts the detector may report
    MaxFailures,   \* tool calls that fail
    QueryBudget    \* queries beyond the opening

ASSUME DiagnosisAssumption ==
    /\ Reported \subseteq Cohorts
    /\ {MaxFailures, QueryBudget} \subseteq Nat

VARIABLES
    incident,    \* what the worker runs in the window, None for ordinary traffic
    cohort,      \* the incident record's affected_cohort
    heard,       \* runtime health over the window's telemetry
    trail,       \* queries asked, and whether the first of each was answered
    ledger,      \* the hypotheses the ledger was seeded with
    answer       \* the investigation result, or NoAnswer

vars == <<incident, cohort, heard, trail, ledger, answer>>

-----------------------------------------------------------------------------
(* Queries and their responses                                             *)

OpeningTools == {"cohort_metrics", "cohort_compare", "decline_breakdown", "retry_stats",
                 "operational_metrics", "confounding_check"}

Runtimes == {"unobserved", "healthy", "degraded"}

\* A query names its tool, its cohort and its window: the incident's or an
\* earlier one.  Beyond the opening only tools the ledger reads are asked.
Queries == [tool : {"decline_breakdown", "retry_stats", "operational_metrics"},
            cohort : Reported, window : {"during", "before"}]

OpeningQuery(tool) == [tool |-> tool, cohort |-> cohort, window |-> "during"]

Fields(tool, i, c) ==
    CASE tool = "cohort_metrics"      -> CohortMetrics(i, c)
      [] tool = "cohort_compare"      -> CohortCompare(i, c)
      [] tool = "decline_breakdown"   -> DeclineBreakdown(i, c)
      [] tool = "retry_stats"         -> RetryStats(i, c)
      [] tool = "operational_metrics" -> OperationalMetrics(i, c, "unobserved")
      [] tool = "confounding_check"   -> ConfoundingCheck(i)

\* The responses there are, by incident window, tool and cohort
Responses == [i \in Incidents |-> [t \in OpeningTools |-> [c \in Reported |->
                  Fields(t, i, c)]]]

\* Every rate that the pre-filter and the ledger both compare is a number or absent
RatesAreNumbers ==
    \A i \in Incidents : \A c \in Reported :
        /\ Responses[i]["operational_metrics"][c].error \in Int \cup {Absent}
        /\ Responses[i]["retry_stats"][c].factor \in Int \cup {Absent}

\* The response the trail holds for a query
Response(q) ==
    IF ~trail[q] THEN NoFields
    ELSE LET r == Responses[IF q.window = "during" THEN incident ELSE None][q.tool][q.cohort]
         IN  IF q.tool # "operational_metrics" THEN r
             ELSE [r EXCEPT !.runtime = IF q.window = "during" THEN heard ELSE "unobserved"]

-----------------------------------------------------------------------------
(* The pre-filter                                                          *)

Above(value, bound) == Known(value) /\ value > bound

Atleast(value, bound) == Known(value) /\ value >= bound

\* compute_signature over the opening bundle o, a response per tool
Signature(o) ==
    LET op == o["operational_metrics"]
        cmp == o["cohort_compare"]
    IN  [timeouts     |-> op.timeout,
         timeout_up   |-> Above(o["decline_breakdown"].shift["timeout"], 100),
         issuer_up    |-> Above(o["decline_breakdown"].shift["issuer_decline"], 100),
         slow         |-> op.slow95 \/ op.slow99,
         error        |-> op.error,
         health       |-> op.health,
         runtime      |-> op.runtime,
         deployment   |-> Known(op.timeout),
         retrying     |-> Above(o["retry_stats"].factor, 1100),
         growing      |-> /\ Known(o["retry_stats"].depth_end) /\ Known(o["retry_stats"].depth_start)
                          /\ o["retry_stats"].depth_end > o["retry_stats"].depth_start,
         gap_up       |-> Above(o["cohort_metrics"].gap_shift, 50),
         isolated     |-> /\ Known(cmp.target) /\ cmp.siblings # {}
                          /\ \A s \in cmp.siblings : cmp.target < s - 50,
         inseparable  |-> o["confounding_check"].inseparable,
         by_provider  |-> cohort.provider # Any]

Hypotheses == {"provider_degradation", "issuer_over_decline", "payment_method_failure",
               "country_specific_failure", "routing_problem", "retry_amplification",
               "application_failure", "infrastructure_failure",
               "deployment_configuration_problem", "queue_buildup"}

If(condition, points) == IF condition THEN points ELSE 0

\* _PATTERNS.  The scope is broad: every profile has two payment methods, and
\* the cohorts here name neither a method nor a country.  No source emits
\* deployed_at, and attempts carry no queue depth to peak.
Score(h, s) ==
    LET elevated == Atleast(s.timeouts, 100)
        ill      == s.runtime \in {"degraded", "unhealthy"}
        Scope(named) == If(named, 42) + If(s.isolated, 20) - 20
    IN  CASE h = "provider_degradation" ->
                 If(elevated, 32) + If(s.timeout_up, 20) + If(s.slow, 18)
                 + If(s.health = "degraded", 22) + If(s.isolated, 10) - If(s.issuer_up, 20)
          [] h = "issuer_over_decline" ->
                 If(s.issuer_up, 48) + If(s.inseparable, 24)
                 + If(Known(s.timeouts) /\ ~elevated /\ s.health = "healthy", 18)
                 - If(elevated, 22) - If(s.health = "degraded", 15)
          [] h \in {"payment_method_failure", "country_specific_failure"} -> Scope(FALSE)
          [] h = "routing_problem" -> Scope(s.by_provider)
          [] h = "retry_amplification" ->
                 If(s.retrying, 50) + If(s.growing, 30) + If(s.gap_up, 15)
          [] h = "application_failure" ->
                 If(Atleast(s.error, 50), 50) + If(ill, 35) + If(s.deployment, 12)
                 - If(s.health = "degraded", 12)
          [] h = "infrastructure_failure" ->
                 If(ill, 48) + If(s.growing, 25) + If(s.slow, 25)
          [] h = "deployment_configuration_problem" -> If(s.deployment, 20)
          [] h = "queue_buildup" -> If(s.growing, 60) + If(s.retrying, 20)

\* A mutant of Listed: the threshold itself is enough
ListedAtThreshold(o) == {h \in Hypotheses : Score(h, Signature(o)) >= 20}

\* prefilter
Listed(o) == LET s == Signature(o) IN {h \in Hypotheses : Score(h, s) > 20}

-----------------------------------------------------------------------------
(* The ledger                                                              *)

Fallback == "unknown_observable_failure"

\* HypothesisLedger.from_prefilter: prefilter never returns an empty list
Seeded(o) == IF Listed(o) = {} THEN {Fallback} ELSE Listed(o)

Below(value, bound) == Known(value) => value < bound

\* A mutant of Contradicts: the latency percentile is not looked at
ContradictsFast(h, tool, r) ==
    CASE h = "provider_degradation" /\ tool = "operational_metrics" ->
             r.health = "healthy" /\ Below(r.timeout, 100) /\ Below(r.error, 50)
      [] OTHER -> FALSE

\* A mutant of Contradicts: the comparisons of the pre-filter the other way round
ContradictsElevated(h, tool, r) ==
    CASE h = "application_failure" /\ tool = "operational_metrics" ->
             r.runtime = "healthy" \/ (Known(r.error) /\ r.error < 50)
      [] h = "retry_amplification" /\ tool = "retry_stats" -> Known(r.factor) /\ r.factor <= 1500
      [] OTHER -> FALSE

\* _deterministically_contradicts: what HypothesisLedger.update accepts of an
\* executed citation.  A shift that is not there reads as zero.
Contradicts(h, tool, r) ==
    CASE h = "provider_degradation" /\ tool = "operational_metrics" ->
             /\ r.health = "healthy" /\ Below(r.timeout, 100) /\ Below(r.error, 50)
             /\ ~r.slow95
      [] h = "issuer_over_decline" /\ tool = "decline_breakdown" ->
             ~Above(r.shift["issuer_decline"], 0)
      [] h \in {"application_failure", "deployment_configuration_problem"}
         /\ tool = "operational_metrics" ->
             r.runtime = "healthy" /\ Known(r.error) /\ r.error < 50
      [] h \in {"infrastructure_failure", "queue_buildup"} /\ tool = "retry_stats" ->
             Known(r.depth_end) /\ Known(r.depth_start) /\ r.depth_end <= r.depth_start
      [] h = "retry_amplification" /\ tool = "retry_stats" ->
             Known(r.factor) /\ r.factor <= 1100
      [] OTHER -> FALSE

-----------------------------------------------------------------------------

NoAnswer == [outcome |-> "none"]

Answers == [outcome : {"diagnosed", "agent_unavailable"}, confidence : {"low", "medium", "high"},
            competing : BOOLEAN]

Opened == trail # <<>>

\* A mutant of Opening: one failing tool loses the whole bundle
OpeningAllOrNothing(failing) ==
    [t \in OpeningTools |->
        IF failing # {} THEN NoFields
        ELSE IF t # "operational_metrics" THEN Responses[incident][t][cohort]
        ELSE [Responses[incident][t][cohort] EXCEPT !.runtime = heard]]

\* The opening bundle as the pre-filter saw it
Opening(failing) ==
    [t \in OpeningTools |->
        IF t \in failing THEN NoFields
        ELSE IF t # "operational_metrics" THEN Responses[incident][t][cohort]
        ELSE [Responses[incident][t][cohort] EXCEPT !.runtime = heard]]

Init ==
    /\ incident \in Incidents
    /\ cohort \in Reported
    /\ heard \in Runtimes
    /\ trail = <<>>
    /\ ledger = {}
    /\ answer = NoAnswer

\* EvidenceGateway.opening_bundle, prefilter, HypothesisLedger.from_prefilter
Open ==
    /\ ~Opened /\ answer = NoAnswer
    /\ \E failing \in {f \in SUBSET OpeningTools : Cardinality(f) <= MaxFailures} :
        /\ trail' = [q \in {OpeningQuery(t) : t \in OpeningTools} |-> q.tool \notin failing]
        /\ ledger' = Seeded(Opening(failing))
    /\ UNCHANGED <<incident, cohort, heard, answer>>

\* EvidenceGateway.call, asked by the model.  _trail_entry finds the first
\* entry of a query, so asking one again changes no lookup.
Query(q) ==
    /\ Opened /\ answer = NoAnswer
    /\ Cardinality(DOMAIN trail) < Cardinality(OpeningTools) + QueryBudget
    /\ q \notin DOMAIN trail
    /\ \E answered \in BOOLEAN :
        /\ ~answered => Cardinality({k \in DOMAIN trail : ~trail[k]}) < MaxFailures
        /\ trail' = [k \in DOMAIN trail \cup {q} |-> IF k = q THEN answered ELSE trail[k]]
    /\ UNCHANGED <<incident, cohort, heard, ledger, answer>>

\* A structurally confounded opening is hedged (InvestigationAgent._validate)
Validates(a) ==
    (trail[OpeningQuery("confounding_check")] /\ ConfoundingCheck(incident).inseparable)
        => a.competing /\ a.confidence # "high"

Accept ==
    /\ Opened /\ answer = NoAnswer
    /\ \E a \in Answers :
        /\ a.outcome = "diagnosed" /\ Validates(a)
        /\ answer' = a
    /\ UNCHANGED <<incident, cohort, heard, trail, ledger>>

\* degrade_result: the deadline, an exception or two rejected answers.  What
\* was asked before is all it can cite.
Degrade ==
    /\ answer = NoAnswer
    /\ answer' = [outcome |-> "agent_unavailable", confidence |-> "low", competing |-> Opened]
    /\ UNCHANGED <<incident, cohort, heard, trail, ledger>>

Next == Open \/ Accept \/ Degrade \/ \E q \in Queries : Query(q)

Spec == Init /\ [][Next]_vars

-----------------------------------------------------------------------------

\* Every variable has its type: the ledger lists known hypotheses and is never
\* empty once the opening is read, and the trail keeps within the budget.
TypeOK ==
    /\ incident \in Incidents /\ cohort \in Reported /\ heard \in Runtimes
    /\ DOMAIN trail \subseteq Queries \cup {OpeningQuery(t) : t \in OpeningTools}
    /\ Cardinality(DOMAIN trail) <= Cardinality(OpeningTools) + QueryBudget
    /\ \A q \in DOMAIN trail : trail[q] \in BOOLEAN
    /\ ledger \subseteq Hypotheses \cup {Fallback}
    /\ ledger = {} <=> ~Opened
    /\ answer \in Answers \cup {NoAnswer}

\* A merchant on which the two dimensions can be told apart: all the traffic of one
\* with a single provider and a single bank is reported inseparable, incident or not.
Comparable == Cardinality(Providers) > 1 \/ Cardinality(Banks) > 1

\* Traffic with nothing wrong in it accuses no provider, issuer or retry, and
\* accuses the application only if its own telemetry says it is degraded: the
\* thresholds of the pre-filter sit above what the simulator's ordinary declines,
\* errors and retries measure, whichever opening tools fail.
OrdinaryTrafficIsNotBlamed ==
    incident = None =>
        /\ {"provider_degradation", "issuer_over_decline", "retry_amplification",
            "deployment_configuration_problem", "queue_buildup"} \cap ledger = {}
        /\ "application_failure" \in ledger => heard = "degraded"

\* An incident that slows down the attempts it touches (Slowness).
SlowsDown(i) == i.effect \in {"latency", "outage"} \/ (i.effect = "decline" /\ i.slow)

\* A cohort that is the scope of an incident.
IsScopeOf(c, i) == c.provider = i.provider /\ c.bank = i.bank

\* What the instance says of a provider that times out: it is slow, timeouts are more
\* of its declines than usual, and it converts worse than each of its siblings.
CulpritsStandOut ==
    \A i \in Incidents \ {None}, c \in Reported :
        (i.slow /\ i.reason = "provider_timeout" /\ IsScopeOf(c, i)) =>
            /\ SlowsDown(i)
            /\ Above(DeclineBreakdown(i, c).shift["timeout"], 100)
            /\ Known(Conversion(i, c)) /\ SiblingsOf(i, c) # {}
            /\ \A s \in SiblingsOf(i, c) : Conversion(i, c) < Conversion(i, s) - 50

\* A provider that slows down and declines for its timeouts is a hypothesis even
\* if a tool of the opening fails: the timeouts among its declines, its latency
\* and its comparison with other providers stand in for one another.
CulpritIsListed ==
    (/\ Opened /\ incident # None /\ IsScopeOf(cohort, incident)
     /\ incident.slow /\ incident.reason = "provider_timeout")
        => "provider_degradation" \in ledger

\* What the instance says of a slow incident's part in a cohort: the attempts of the
\* cohort that are the incident's, and that these are more than a twentieth.  The
\* nearest rank of a twentieth exactly may still be a fast attempt: the margin of 29
\* is the least that reaches a slow one whatever the number of attempts.
Touched(i, c) ==
    [provider |-> IF i.provider = Any THEN c.provider ELSE i.provider,
     bank     |-> IF i.bank = Any THEN c.bank ELSE i.bank]

SlowTrafficIsHeard ==
    \A i \in Incidents \ {None} : i.slow \/ i.effect = "latency" =>
        /\ SlowsDown(i)
        /\ \A c \in Reported : c.provider \in {Any, i.provider} =>
               /\ Touched(i, c) \in Cohorts /\ Matches(c, Touched(i, c))
               /\ Seen[i][c].attempts + 29 <= 20 * Seen[i][Touched(i, c)].attempts

\* The observations of the incident's own window never rule out a provider that
\* is slow, whichever cohort holding it they are about; only other traffic can.
SlowProviderStaysAccused ==
    (incident # None /\ (incident.slow \/ incident.effect = "latency")) =>
        \A q \in DOMAIN trail :
            Contradicts("provider_degradation", q.tool, Response(q))
                => q.window = "before" \/ q.cohort.provider \notin {Any, incident.provider}

\* The pre-filter and the ledger read one response the same way: what the opening
\* evidence made a hypothesis of, the same responses do not contradict.
WhatIsListedStands ==
    \A h \in {"application_failure", "retry_amplification"} \cap ledger :
        \A t \in OpeningTools : ~Contradicts(h, t, Response(OpeningQuery(t)))

\* What docs/scenarios.md and Incident promise of the confounded scenario: with
\* the bank pinned to the provider, the check of the two dimensions reports them
\* inseparable.
ConfoundIsReported ==
    (incident # None /\ incident.confound # None /\ Opened
        /\ trail[OpeningQuery("confounding_check")])
        => Response(OpeningQuery("confounding_check")).inseparable
=============================================================================
