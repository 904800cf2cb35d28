---------------------------- MODULE MCTokenVaults ---------------------------
(* Model-checking instances of the contracts that hold tokens or dividends *)
(* for others: the sale's vault on its own (the sale is any caller that    *)
(* mints what it records), the vesting vault, the dividend distributor and *)
(* the redemption manager, and the API's records of redemptions.  They     *)
(* share no state: a behaviour is one of one part, chosen at the start.    *)
EXTENDS CiretaVault, VestingVault, DividendDistributor, Redemption, TLC

VARIABLE part

MCSymmetry == Permutations(Investors) \cup Permutations(Holders)

MCInit ==
    /\ VaultInit /\ VestInit /\ DivInit /\ RedemptionInit
    /\ part \in {"vault", "vesting", "dividend", "manager", "records"}
    /\ part # "dividend" => totalSupply = 0

MCNext ==
    /\ \/ /\ part = "vault" /\ VaultNext
          /\ UNCHANGED <<vestVars, divVars, redemptionVars>>
       \/ /\ part = "vesting" /\ VestNext
          /\ UNCHANGED <<vaultVars, divVars, redemptionVars>>
       \/ /\ part = "dividend" /\ DivNext
          /\ UNCHANGED <<vaultVars, vestVars, redemptionVars>>
       \/ /\ \/ part = "manager" /\ ManagerNext
             \/ part = "records" /\ RecordNext
          /\ UNCHANGED <<vaultVars, vestVars, divVars>>
    /\ UNCHANGED part

MCSpec == MCInit /\ [][MCNext]_<<vaultVars, vestVars, divVars, redemptionVars,
                                 part>>
=============================================================================
