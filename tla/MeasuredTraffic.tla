--------------------------- MODULE MeasuredTraffic ---------------------------
(***************************************************************************)
(* What the evidence tools measure of a merchant's simulated traffic.      *)
(*                                                                         *)
(* The chains of PaymentChain are weighted by the simulator's own          *)
(* probabilities (worker/helpers/payment.py), so that a window holds the   *)
(* traffic a long one tends to; sampling noise is left out.  Every number  *)
(* is a count out of Volume payments per bank or a rate in per mille.      *)
(* Then the records are normalised (detector/mappers.py, schema.py) and    *)
(* aggregated (detector/metrics.py) into the answers of the C2 tools       *)
(* (detector/evidence.py).                                                 *)
(***************************************************************************)
EXTENDS PaymentChain, Functions

CONSTANTS
    Providers,   \* the merchant's providers
    Banks,       \* the issuing banks of its country
    Volume,      \* payments of one bank in a window
    Absent,      \* a field that is null or missing
    Incidents    \* the incidents considered, None for ordinary traffic

ASSUME TrafficAssumption ==
    /\ IsFiniteSet(Providers) /\ Providers # {}
    /\ IsFiniteSet(Banks) /\ Banks # {}
    /\ Volume \in Nat
    /\ Any \notin Providers \cup Banks /\ None \notin Providers
    /\ None \in Incidents
    /\ \A i \in Incidents \ {None} : WellFormed(i)

-----------------------------------------------------------------------------
(* The simulator's probabilities, in percent                               *)

BaselineDecline  == 12
RetryProbability == 65

RefusalRate(i, a) ==
    IF ~Affected(i, a) THEN BaselineDecline
    ELSE IF i.effect = "outage" THEN 100
    ELSE IF i.effect = "decline" THEN i.percent + ((100 - i.percent) * BaselineDecline) \div 100
    ELSE BaselineDecline

\* Of n attempts like a, those with a's status, and of n refused the retried
OfStatus(i, a, n) ==
    LET refused == (n * RefusalRate(i, a)) \div 100
    IN  IF a.status = "refused" THEN refused ELSE n - refused

Retried(i, a, n) == IF Affected(i, a) THEN n ELSE (n * RetryProbability) \div 100

\* The payments of one bank that take a chain (build_chain)
Weight(i, chain) ==
    LET Reach[k \in DOMAIN chain] ==
            LET first  == k = 1
                n      == IF first THEN Volume ELSE Retried(i, chain[k - 1], Reach[k - 1])
                routes == Routes(i, Providers, IF first THEN None ELSE chain[k - 1].provider,
                                 chain[k].bank, Any)
            IN  OfStatus(i, chain[k], n \div Cardinality(routes))
        last == Len(chain)
    IN  IF chain[last].status = "approved" \/ last = MaxAttempts THEN Reach[last]
        ELSE Reach[last] - Retried(i, chain[last], Reach[last])

\* One window of a merchant's traffic: chains and how many payments took them
Traffic(i) ==
    LET chains == UNION {Chains(i, Providers, b, Any) : b \in Banks}
    IN  {[chain |-> c, n |-> Weight(i, c)] : c \in chains}

-----------------------------------------------------------------------------
(* What becomes of a refusal: the status and decline reason it is stored   *)
(* with.  attempt_v1 stores an error that timed out as a timeout, and      *)
(* NATIVE_DECLINE_REASONS has no spelling for issuer_decline.              *)

Kinds == {"timed_out", "error", "declined_timeout", "declined"}

KindOf(status, reason, timed_out) ==
    IF status = "error" THEN IF timed_out THEN "timed_out" ELSE "error"
    ELSE IF reason = "provider_timeout" THEN "declined_timeout" ELSE "declined"

\* Per mille of the refusals at the baseline rate: a fifth are errors, a
\* quarter of those time out, and one decline reason in eighteen is a timeout.
\* (_apply_baseline_decline)
Ordinary == [k \in Kinds |->
    CASE k = "timed_out"        -> 50
      [] k = "error"            -> 150
      [] k = "declined_timeout" -> 44
      [] k = "declined"         -> 756]

\* (_apply_incident_decline, _apply_forced_outage_failure)
Makeup(i, a) ==
    IF ~Affected(i, a) \/ i.effect \in {"latency", "spike"} THEN Ordinary
    ELSE LET own == IF i.effect = "outage" THEN 1000
                    ELSE (i.percent * 1000) \div RefusalRate(i, a)
             kind == IF i.effect = "outage" THEN KindOf("error", "provider_timeout", TRUE)
                     ELSE KindOf("declined", i.reason, FALSE)
         IN  [k \in Kinds |-> (Ordinary[k] * (1000 - own)) \div 1000
                              + IF k = kind THEN own ELSE 0]

\* Per mille of the attempts like this one that take two seconds or more; the
\* others answer within 400 ms.  (_apply_latency_degradation and the rest)
Slowness(i, a) ==
    IF Affected(i, a) /\ (i.effect \in {"latency", "outage"} \/ (i.effect = "decline" /\ i.slow))
    THEN 1000
    ELSE IF a.status = "refused" THEN Makeup(i, a)["timed_out"] + Makeup(i, a)["error"]
    ELSE 0

-----------------------------------------------------------------------------
(* The measurement layer.  A cohort is a provider, a bank, both or neither. *)

Everyone == [provider |-> Any, bank |-> Any]

Within(c, chain) == {k \in DOMAIN chain : Matches(c, chain[k])}

\* payment_metrics, attempt_metrics, decline_mix and operational_metrics of one
\* cohort: a payment is counted once, approved if one of the cohort's attempts is.
Measure(i, rows, c) ==
    LET inside     == {r \in rows : Within(c, r.chain) # {}}
        Refused(r) == {k \in Within(c, r.chain) : r.chain[k].status = "refused"}
    IN  [payments |-> SumFunction([r \in inside |-> r.n]),
         approved |-> SumFunction([r \in inside |->
                          IF Refused(r) = Within(c, r.chain) THEN 0 ELSE r.n]),
         attempts |-> SumFunction([r \in inside |-> r.n * Cardinality(Within(c, r.chain))]),
         failed   |-> [kind \in Kinds |-> SumFunction([r \in inside |->
                          SumFunction([k \in Refused(r) |->
                              (r.n * Makeup(i, r.chain[k])[kind]) \div 1000])])],
         slow     |-> SumFunction([r \in inside |->
                          SumFunction([k \in Within(c, r.chain) |->
                              (r.n * Slowness(i, r.chain[k])) \div 1000])])]

-----------------------------------------------------------------------------
(* The C2 tools, asked of the window an incident runs in (that incident)   *)
(* or of an ordinary one (None).                                           *)

Known(value) == value # Absent

\* A normalised decline reason; no source spells issuer_decline
Reasons == {"timeout", "other", "issuer_decline"}

\* A failed call's response has every field absent
NoFields ==
    [gap_shift |-> Absent, target |-> Absent, siblings |-> {}, shift |-> [r \in Reasons |-> Absent],
     factor |-> Absent, depth_start |-> Absent, depth_end |-> Absent, timeout |-> Absent,
     error |-> Absent, health |-> "unknown", slow95 |-> FALSE, slow99 |-> FALSE,
     runtime |-> "unknown", inseparable |-> FALSE]

Rows == [i \in Incidents |-> Traffic(i)]

Cohorts == {[provider |-> p, bank |-> b] : p \in Providers \cup {Any}, b \in Banks \cup {Any}}

Seen == [i \in Incidents |-> [c \in Cohorts |-> Measure(i, Rows[i], c)]]

PerMille(n, of) == IF of = 0 THEN Absent ELSE (n * 1000) \div of

Conversion(i, c) == PerMille(Seen[i][c].approved, Seen[i][c].payments)

FailedAttempts(m) == SumFunction(m.failed)

AttemptConversion(i, c) ==
    PerMille(Seen[i][c].attempts - FailedAttempts(Seen[i][c]), Seen[i][c].attempts)

Difference(a, b) == IF Known(a) /\ Known(b) THEN a - b ELSE Absent

\* cohort_metrics: payment minus attempt conversion, and how far it moved from
\* what the baseline of ordinary traffic has
CohortMetrics(i, c) ==
    LET Gap(w) == Difference(Conversion(w, c), AttemptConversion(w, c))
    IN  [NoFields EXCEPT !.gap_shift = Difference(Gap(i), Gap(None))]

\* cohort_compare: the same cohort with another value in one of its dimensions
SiblingsOf(i, c) ==
    {s \in Cohorts :
        /\ Seen[i][s].payments > 0
        /\ \/ c.provider # Any /\ s.provider \in Providers \ {c.provider} /\ s.bank = c.bank
           \/ c.bank # Any /\ s.bank \in Banks \ {c.bank} /\ s.provider = c.provider}

CohortCompare(i, c) ==
    [NoFields EXCEPT !.target = Conversion(i, c),
                     !.siblings = {Conversion(i, s) : s \in SiblingsOf(i, c)}]

\* decline_breakdown: a normalised reason's share of the failed attempts, and
\* its shift against ordinary traffic.  A reason seen only there has share 0; a
\* reason of neither window is absent.
ReasonOf(kind) == IF kind \in {"timed_out", "declined_timeout"} THEN "timeout" ELSE "other"

Failures(m, reason) == SumFunctionOnSet(m.failed, {k \in Kinds : ReasonOf(k) = reason})

DeclineBreakdown(i, c) ==
    LET Share(w, r) == PerMille(Failures(Seen[w][c], r), FailedAttempts(Seen[w][c]))
        Current(r)  == IF Known(Share(i, r)) THEN Share(i, r) ELSE 0
        Listed(r)   == \E w \in {i, None} : Failures(Seen[w][c], r) > 0
    IN  [NoFields EXCEPT !.shift = [r \in Reasons |->
            IF Listed(r) THEN Difference(Current(r), Share(None, r)) ELSE Absent]]

\* retry_profile: attempts per thousand payments
RetryProfile(m) == PerMille(m.attempts, m.payments)

\* retry_stats.  Attempts carry no queue depth.
RetryStats(i, c) == [NoFields EXCEPT !.factor = RetryProfile(Seen[i][c])]

\* Python's round of a number of thousandths: a half goes to the even neighbour
Rounded(thousandths) ==
    LET whole == thousandths \div 1000
        rest  == thousandths % 1000
    IN  IF rest > 500 \/ (rest = 500 /\ whole % 2 = 1) THEN whole + 1 ELSE whole

\* _percentile, nearest-rank over the attempts from fast to slow: as many per mille
\* of the way up stands one of two seconds or more
PercentileIsSlow(m, fraction) ==
    m.attempts > 0 /\ m.attempts - m.slow <= Rounded(fraction * (m.attempts - 1))

\* metrics.operational_metrics: only a stored status of timeout counts as one
Operational(m) ==
    [timeout |-> PerMille(m.failed["timed_out"], m.attempts),
     error   |-> PerMille(m.failed["error"], m.attempts),
     failing |-> PerMille(m.failed["timed_out"] + m.failed["error"], m.attempts),
     slow95  |-> PercentileIsSlow(m, 950),
     slow99  |-> PercentileIsSlow(m, 990)]

DegradedRate == 50     \* OPERATIONAL_DEGRADED_RATE

\* The tool operational_metrics; told is what ops.telemetry said
OperationalMetrics(i, c, told) ==
    LET m == Operational(Seen[i][c])
    IN  [NoFields EXCEPT
         !.timeout = m.timeout, !.error = m.error, !.slow95 = m.slow95, !.slow99 = m.slow99,
         !.health  = IF m.failing = Absent THEN "unobserved"
                     ELSE IF m.failing >= DegradedRate THEN "degraded" ELSE "healthy",
         !.runtime = told]

\* confounding_check over the whole merchant: the providers and banks that the
\* window's attempts pair up
Pairs(i) == UNION {{[provider |-> a.provider, bank |-> a.bank] : a \in Range(r.chain)} :
                   r \in {r \in Rows[i] : r.n > 0}}

\* confounding: each value of either dimension occurs with one value of the other
Inseparable(pairs) ==
    /\ pairs # {}
    /\ \A p, q \in pairs : (p.provider = q.provider) <=> (p.bank = q.bank)

ConfoundingCheck(i) == [NoFields EXCEPT !.inseparable = Inseparable(Pairs(i))]
=============================================================================
