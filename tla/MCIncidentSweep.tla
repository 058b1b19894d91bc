-------------------------- MODULE MCIncidentSweep --------------------------
EXTENDS IncidentSweep

\* Two merchants on two providers; only merchant b's adyen traffic is in CO too.
Cell(m, p, c) == [merchant_id |-> m, provider |-> p, country |-> c]
MCCells == {Cell("a", "adyen", "MX"), Cell("a", "stripe", "MX"), Cell("b", "stripe", "MX"),
            Cell("b", "adyen", "CO"), Cell("b", "adyen", "MX")}
MCDimensionOrder == <<"merchant_id", "provider", "country">>
MCPairOrder == << <<"country", "CO">>, <<"country", "MX">>, <<"merchant_id", "a">>,
                  <<"merchant_id", "b">>, <<"provider", "adyen">>, <<"provider", "stripe">> >>

\* One bucket of a cell: payments, approvals, mean latency, timeouts.
Volume(n, ok, ms, out) == [n |-> n, ok |-> ok, late |-> n * ms, out |-> out]
Fine == Volume(20, 18, 300, 0)
Hit(co, mx) == [c \in MCCells |-> CASE c = Cell("b", "adyen", "CO") -> co
                                    [] c = Cell("b", "adyen", "MX") -> mx
                                    [] OTHER                       -> Fine]
MCTraffic == [
  healthy    |-> [c \in MCCells |-> Fine],
  developing |-> Hit(Volume(20, 15, 2700, 1), Volume(20, 16, 300, 0)),
  outage     |-> Hit(Volume(20, 4, 300, 0), Volume(20, 4, 300, 0)),
  routed     |-> [c \in MCCells |-> IF c.provider = "stripe" THEN Volume(0, 0, 0, 0) ELSE Fine],
  platform   |-> [c \in MCCells |-> Volume(20, 9, 300, 0)]]
MCScenario == DOMAIN MCTraffic
Demo       == {"healthy", "developing", "outage"}   \* the stages a judge presses

\* The hypothesis of the theorems about ailing cohorts.
ASSUME InstanceAssumption == HealthyIsBest
=============================================================================
