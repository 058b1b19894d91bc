---------------------------- MODULE MCDiagnosis ----------------------------
(***************************************************************************)
(* Diagnosis on a merchant of three providers and two issuing banks, with  *)
(* ordinary traffic, the two scenarios it can run, and incidents a judge   *)
(* can press.  The incident is adyen's, or nu's.                           *)
(***************************************************************************)
EXTENDS Diagnosis

CONSTANTS adyen, stripe, cielo, nu, itau

Incident(effect, provider, bank, percent, confound, reason, slow) ==
    [effect |-> effect, provider |-> provider, bank |-> bank, percent |-> percent,
     confound |-> confound, reason |-> reason, slow |-> slow]

\* provider-degradation and provider-issuer-confounded (ground_truth/scenarios.py)
Degradation == Incident("decline", adyen, Any, 55, None, "provider_timeout", TRUE)
Confounded  == Incident("decline", adyen, nu, 85, nu, "issuer_unavailable", FALSE)

MCProviders == {adyen, stripe, cielo}
MCBanks     == {nu, itau}

MCIncidents ==
    {None, Degradation, Confounded,
     Incident("decline", Any, nu, 75, None, "issuer_unavailable", FALSE),
     Incident("decline", adyen, Any, 75, None, "do_not_honor", FALSE),
     Incident("latency", adyen, Any, 0, None, "none", FALSE),
     Incident("outage", adyen, Any, 100, None, "provider_timeout", FALSE)}

MCReported ==
    {Everyone, [provider |-> adyen, bank |-> Any], [provider |-> stripe, bank |-> Any],
     [provider |-> Any, bank |-> nu], [provider |-> adyen, bank |-> nu]}

\* The hypotheses of the theorems about ordinary traffic and about slow providers.
ASSUME InstanceAssumption == Comparable /\ SlowTrafficIsHeard /\ CulpritsStandOut
=============================================================================
