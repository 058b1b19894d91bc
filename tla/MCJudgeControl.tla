--------------------------- MODULE MCJudgeControl ---------------------------
(***************************************************************************)
(* A judge's target with two providers and a scenario's merchant, for TLC.   *)
(***************************************************************************)
EXTENDS JudgeControl

MCProviders == [m \in Merchants |-> IF m = "merchant-b" THEN {"adyen", "mercadopago"}
                                    ELSE {"adyen", "stripe"}]
MCBanks     == [m \in Merchants |-> IF m = "merchant-b" THEN {"Bancolombia"}
                                    ELSE {"Nu Brasil", "Itau"}]
Confounded  == IncidentOf("decline", "adyen", "Nu Brasil", 85, "Nu Brasil")
MCScenarios == [m \in Merchants |-> IF m = "merchant-c" THEN {Confounded} ELSE {}]
MCByHand    == {IncidentOf("outage", "adyen", "Itau", 95, None),
                IncidentOf("spike", "adyen", Any, 95, None)}
=============================================================================
