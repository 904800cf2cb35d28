---------------------------- MODULE MCOperations ----------------------------
(* Model-checking instance of the parts of the API that share no state:    *)
(* compliance actions, issuance, wallets and vesting claims, the way to    *)
(* the chain and the rate limit.  A behaviour is one of one part, chosen   *)
(* at the start, so the states of the parts add up and do not multiply.    *)
EXTENDS Compliance, Issuance, Portfolio, Platform, Gateway, TLC

VARIABLE part

MCRole == ("adm" :> "admin") @@ ("iss" :> "issuer") @@ ("inv" :> "investor")

MCLimits == "register" :> 1

MCSymmetry == Permutations(Desks) \cup Permutations(Wallets)

MCInit ==
    /\ ComplianceInit /\ IssuanceInit /\ PortfolioInit /\ PlatformInit
    /\ GatewayInit
    /\ part \in {"compliance", "issuance", "wallets", "vesting", "breaker",
                 "submit", "gateway"}
    /\ part # "compliance" => deployed

MCNext ==
    /\ \/ /\ part = "compliance" /\ ComplianceNext
          /\ UNCHANGED <<issuanceVars, portfolioVars, platformVars, gatewayVars>>
       \/ /\ part = "issuance" /\ IssuanceNext
          /\ UNCHANGED <<compVars, portfolioVars, platformVars, gatewayVars>>
       \/ /\ \/ part = "wallets" /\ WalletNext
             \/ part = "vesting" /\ ClaimNext
          /\ UNCHANGED <<compVars, issuanceVars, platformVars, gatewayVars>>
       \/ /\ \/ part = "breaker" /\ BreakerNext
             \/ part = "submit" /\ SubmitNext
          /\ UNCHANGED <<compVars, issuanceVars, portfolioVars, gatewayVars>>
       \/ /\ part = "gateway" /\ GatewayNext
          /\ UNCHANGED <<compVars, issuanceVars, portfolioVars, platformVars>>
    /\ UNCHANGED part

MCSpec == MCInit /\ [][MCNext]_<<compVars, issuanceVars, portfolioVars,
                                 platformVars, gatewayVars, part>>
=============================================================================
