---------------------------- MODULE PaymentChain ----------------------------
(***************************************************************************)
(* What a simulated merchant does to one payment: which incidents are      *)
(* well formed, which attempts one of them breaks, which provider each     *)
(* attempt is routed to, and every attempt chain build_chain can return    *)
(* (worker/helpers/incident.py, worker/helpers/payment.py).  An attempt is  *)
(* its provider, its issuing bank and whether it was approved; "declined"   *)
(* and "error" are both "refused".  Methods, networks, latencies and        *)
(* amounts tell no property apart and are left out.                         *)
(***************************************************************************)
EXTENDS Integers, Sequences, FiniteSets

CONSTANTS
    Any,          \* a dimension an incident or a forced chain does not name
    None,         \* no incident, no confounded bank, no previous provider
    MaxAttempts   \* MAX_ATTEMPTS

ASSUME ChainAssumption == MaxAttempts \in Nat \ {0}

-----------------------------------------------------------------------------
(* Incidents                                                               *)

Effects == {"decline", "outage", "latency", "spike"}

\* An incident's fields, decline_probability in percent
IncidentOf(effect, provider, bank, percent, confound) ==
    [effect |-> effect, provider |-> provider, bank |-> bank,
     percent |-> percent, confound |-> confound]

\* Incident.__post_init__
WellFormed(i) ==
    /\ i.effect \in Effects
    /\ ~(i.provider = Any /\ i.bank = Any)
    /\ i.effect = "outage" => i.bank = Any
    /\ i.confound # None => i.provider # Any /\ i.bank # Any
    /\ i.percent \in 0..100

\* Incident.matches
Matches(i, a) ==
    /\ i.provider \in {Any, a.provider}
    /\ i.bank \in {Any, a.bank}

Affected(i, a) == i # None /\ Matches(i, a)

-----------------------------------------------------------------------------
(* Routing                                                                 *)

\* PaymentAttemptBuilder._candidate_providers
Candidates(i, providers, previous) ==
    LET others   == providers \ {previous}
        choices  == IF others = {} THEN providers ELSE others
        rerouted == choices \ {i.provider}
    IN  IF i # None /\ i.effect = "outage" /\ rerouted # {} THEN rerouted ELSE choices

\* The provider of an attempt: the confound first, then a forced provider
Routes(i, providers, previous, bank, forced) ==
    IF i # None /\ i.confound = bank THEN {i.provider}
    ELSE IF forced # Any THEN {forced}
    ELSE Candidates(i, providers, previous)

-----------------------------------------------------------------------------
(* Outcomes of one attempt and of a chain                                  *)

\* _build_attempt: an affected attempt under an outage is always refused, a
\* decline of 100 percent always declines, and anything else may go either way
\* because an unaffected attempt still declines at the baseline rate.
Statuses(i, a) ==
    IF Affected(i, a) /\ (i.effect = "outage" \/ (i.effect = "decline" /\ i.percent = 100))
    THEN {"refused"}
    ELSE {"approved", "refused"}

Attempts(i, providers, previous, bank, forced) ==
    UNION {{[provider |-> p, bank |-> bank, status |-> s] :
               s \in Statuses(i, [provider |-> p, bank |-> bank])} :
           p \in Routes(i, providers, previous, bank, forced)}

\* A mutant of Chains: any refusal may be given up on
ChainsGivingUp(i, providers, bank, forced) ==
    LET named == {forced} \cup IF i = None THEN {} ELSE {i.provider}
        From[k \in 1..MaxAttempts] == [previous \in providers \cup named \cup {None} |->
            UNION {
                {<<a>>}
                \cup
                (IF a.status = "refused" /\ k < MaxAttempts
                 THEN {<<a>> \o rest : rest \in From[k + 1][a.provider]} ELSE {})
                : a \in Attempts(i, providers, previous, bank, forced)}]
    IN  From[1][None]

\* build_chain from attempt number k after a previous provider: it stops at an
\* approval or at MAX_ATTEMPTS, an affected refusal is always retried, an
\* unaffected one may be given up on.
Chains(i, providers, bank, forced) ==
    LET named == {forced} \cup IF i = None THEN {} ELSE {i.provider}
        From[k \in 1..MaxAttempts] == [previous \in providers \cup named \cup {None} |->
            UNION {
                (IF a.status = "approved" \/ k = MaxAttempts \/ ~Affected(i, a)
                 THEN {<<a>>} ELSE {})
                \cup
                (IF a.status = "refused" /\ k < MaxAttempts
                 THEN {<<a>> \o rest : rest \in From[k + 1][a.provider]} ELSE {})
                : a \in Attempts(i, providers, previous, bank, forced)}]
    IN  From[1][None]

\* build_closed
Outcome(chain) ==
    IF chain[Len(chain)].status = "approved" THEN "approved"
    ELSE IF Len(chain) >= MaxAttempts THEN "failed"
    ELSE "abandoned"
=============================================================================
