CONSTANTS
    adyen = adyen
    stripe = stripe
    cielo = cielo
    nu = nu
    itau = itau
    Any = Any
    None = None
    Absent = Absent
    MaxAttempts = 3
    Providers <- MCProviders
    Banks <- MCBanks
    Volume = 9000
    Incidents <- MCIncidents
    Reported <- MCReported
    MaxFailures = 1
    QueryBudget = 1

SPECIFICATION Spec
CHECK_DEADLOCK FALSE

INVARIANTS
    OrdinaryTrafficIsNotBlamed
    CulpritIsListed
    SlowProviderStaysAccused
    WhatIsListedStands
