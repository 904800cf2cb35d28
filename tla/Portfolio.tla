----------------------------- MODULE Portfolio ------------------------------
(***************************************************************************)
(* What an investor keeps in the API: the wallets linked to an account     *)
(* (wallet_service.py, screening included) and the vesting schedule whose  *)
(* tranches are claimed off-chain (vesting_service.py and the properties   *)
(* of vesting_schedule.py).                                                *)
(*                                                                         *)
(* A request reads rows, and writes later the fields it changed in what it *)
(* read.  Neither the address of a wallet nor the primary flag is          *)
(* constrained by the data base.                                           *)
(***************************************************************************)
EXTENDS Naturals, FiniteSets

CONSTANTS
    Investors,
    Addresses,
    Handlers,           \* investor requests served at a time
    Total, Cliff, End,  \* a schedule: amount, cliff_end and vesting_end
    MaxLinks,           \* bound on wallet rows ever inserted
    MaxDay              \* bound on the clock

ASSUME PortfolioAssumption ==
    /\ {Total, Cliff, End, MaxLinks, MaxDay} \subseteq Nat
    /\ Cliff <= End

VARIABLES
    wallets,            \* rows of wallets, by id
    links,              \* ids given so far
    claimed,            \* per investor: vesting_schedules.claimed_amount
    day,
    handler,            \* per handler: the request it serves
    (* What happened, for the properties:                                  *)
    told,               \* per investor: sum of the amounts claims answered
    walletRace,         \* investors with two wallet requests at a time
    linkRace,           \* addresses being linked twice at a time
    claimRace           \* investors with two claims at a time

races == <<walletRace, linkRace, claimRace>>
portfolioVars == <<wallets, links, claimed, day, handler, told, races>>

Waiting == [kind |-> "none"]

PortfolioInit ==
    /\ wallets = [i \in {} |-> Waiting] /\ links = 0
    /\ claimed = [u \in Investors |-> 0] /\ told = [u \in Investors |-> 0]
    /\ day = 0
    /\ handler = [h \in Handlers |-> Waiting]
    /\ walletRace = {} /\ linkRace = {} /\ claimRace = {}

-----------------------------------------------------------------------------

WalletKinds == {"link", "unlink", "primary"}

Serving(u, kinds) ==
    {h \in Handlers : handler[h].kind \in kinds /\ handler[h].user = u}

Linking(a) == {h \in Handlers : handler[h].kind = "link" /\ handler[h].arg = a}

(* A request of user u starts with what it has read.                       *)
Serve(h, kind, u, arg, read) ==
    /\ handler[h] = Waiting
    /\ handler' = [handler EXCEPT ![h] = [kind |-> kind, user |-> u, arg |-> arg,
                                          read |-> read]]
    /\ walletRace' = walletRace \cup
         IF kind \in WalletKinds /\ Serving(u, WalletKinds) # {} THEN {u} ELSE {}
    /\ linkRace' = linkRace \cup
         IF kind = "link" /\ Linking(arg) # {} THEN {arg} ELSE {}
    /\ claimRace' = claimRace \cup
         IF kind = "claim" /\ Serving(u, {"claim"}) # {} THEN {u} ELSE {}
    /\ UNCHANGED <<wallets, links, claimed, day, told>>

Answer(h) == handler' = [handler EXCEPT ![h] = Waiting]

Of(u)      == {i \in DOMAIN wallets : wallets[i].user = u}
At(a)      == {i \in DOMAIN wallets : wallets[i].address = a}
Primary(u) == {i \in Of(u) : wallets[i].is_primary}

(* link_wallet: the signature is the owner's and no row has the address.   *)
CheckLink(h, u, a) ==
    /\ links < MaxLinks /\ At(a) = {}
    /\ Serve(h, "link", u, a, "checked")

(* Slip: every wallet that is linked becomes the primary one.              *)
CountLinkPrimary(h) ==
    /\ handler[h].kind = "link" /\ handler[h].read = "checked"
    /\ handler' = [handler EXCEPT ![h].read = "first"]
    /\ UNCHANGED <<wallets, links, claimed, day, told, races>>

(* The first wallet of the user will be the primary one.                   *)
CountLink(h) ==
    /\ handler[h].kind = "link" /\ handler[h].read = "checked"
    /\ handler' = [handler EXCEPT ![h].read = IF Of(handler[h].user) = {}
                                                THEN "first" ELSE "other"]
    /\ UNCHANGED <<wallets, links, claimed, day, told, races>>

(* The provider screens the address: it is linked, or refused.             *)
ScreenLink(h) ==
    /\ handler[h].kind = "link" /\ handler[h].read # "checked"
    /\ links < MaxLinks
    /\ links' = links + 1
    /\ wallets' = [i \in DOMAIN wallets \cup {links'} |->
                     IF i = links' THEN [user |-> handler[h].user,
                                         address |-> handler[h].arg,
                                         is_primary |-> handler[h].read = "first"]
                     ELSE wallets[i]]
    /\ Answer(h)
    /\ UNCHANGED <<claimed, day, told, races>>

Blocked(h) ==
    /\ handler[h].kind = "link" /\ handler[h].read # "checked"
    /\ Answer(h)
    /\ UNCHANGED <<wallets, links, claimed, day, told, races>>

(* unlink_wallet: the one row of the user with the address, unless it is   *)
(* the primary one.                                                        *)
CheckUnlink(h, u, a) ==
    \E i \in Of(u) \cap At(a) :
      /\ Of(u) \cap At(a) = {i} /\ ~wallets[i].is_primary
      /\ Serve(h, "unlink", u, i, "checked")

Unlink(h) ==
    /\ handler[h].kind = "unlink"
    /\ wallets' = [i \in DOMAIN wallets \ {handler[h].arg} |-> wallets[i]]
    /\ Answer(h)
    /\ UNCHANGED <<links, claimed, day, told, races>>

(* set_primary: the last row of the user with the address; it reads all    *)
(* the rows of the user and their flags.                                   *)
CheckPrimary(h, u, a) ==
    \E i \in Of(u) \cap At(a) :
      /\ \A j \in Of(u) \cap At(a) : j <= i
      /\ Serve(h, "primary", u, i, Primary(u))

(* Only flags that change are written; a row that has gone meanwhile fails *)
(* the whole request.                                                      *)
SetPrimary(h) ==
    LET target == handler[h].arg
        unset  == handler[h].read \ {target}
        set    == {target} \ handler[h].read
    IN /\ handler[h].kind = "primary"
       /\ wallets' = IF unset \cup set \subseteq DOMAIN wallets
                       THEN [i \in DOMAIN wallets |->
                               [wallets[i] EXCEPT !.is_primary =
                                  (@ \/ i \in set) /\ i \notin unset]]
                       ELSE wallets
       /\ Answer(h)
       /\ UNCHANGED <<links, claimed, day, told, races>>

-----------------------------------------------------------------------------
(* Vesting schedules.                                                      *)

(* Nothing before the cliff, all at the end, linear in between.            *)
vested_amount == IF day < Cliff THEN 0
                 ELSE IF day >= End THEN Total
                 ELSE (Total * (day - Cliff)) \div (End - Cliff)

(* Slip: what was claimed before is not taken off.                         *)
claimable_again(u) == vested_amount

claimable_amount(u) == IF vested_amount > claimed[u]
                         THEN vested_amount - claimed[u] ELSE 0

(* claim_tranche reads the schedule, and writes the sum of what it read.   *)
CheckClaim(h, u) ==
    /\ claimable_amount(u) > 0
    /\ Serve(h, "claim", u, claimable_amount(u), claimed[u])

Claim(h) ==
    /\ handler[h].kind = "claim"
    /\ claimed' = [claimed EXCEPT ![handler[h].user] = handler[h].read + handler[h].arg]
    /\ told' = [told EXCEPT ![handler[h].user] = @ + handler[h].arg]
    /\ Answer(h)
    /\ UNCHANGED <<wallets, links, day, races>>

Day ==
    /\ day < MaxDay /\ day' = day + 1
    /\ UNCHANGED <<wallets, links, claimed, handler, told, races>>

WalletNext ==
    \/ \E h \in Handlers, u \in Investors, a \in Addresses :
         CheckLink(h, u, a) \/ CheckUnlink(h, u, a) \/ CheckPrimary(h, u, a)
    \/ \E h \in Handlers :
         CountLink(h) \/ ScreenLink(h) \/ Blocked(h) \/ Unlink(h) \/ SetPrimary(h)

ClaimNext ==
    \/ \E h \in Handlers : Claim(h) \/ \E u \in Investors : CheckClaim(h, u)
    \/ Day

PortfolioNext == WalletNext \/ ClaimNext

PortfolioSpec == PortfolioInit /\ [][PortfolioNext]_portfolioVars

-----------------------------------------------------------------------------
(* Properties.                                                             *)

(* An investor who has wallets has exactly one primary wallet, the one     *)
(* dividends and vault claims are looked up for, unless two of the         *)
(* investor's wallet requests ran at the same time; and an address is in   *)
(* two rows ("Wallet already linked to an account") only if it was being   *)
(* linked twice at the same time.                                          *)
WalletsInOrder ==
    /\ \A u \in Investors \ walletRace :
          Of(u) # {} => Cardinality(Primary(u)) = 1
    /\ \A a \in Addresses \ linkRace : Cardinality(At(a)) <= 1

(* No more than has vested is ever recorded as claimed, even by claims     *)
(* that overwrite each other; and unless they do, it is what the investor  *)
(* was told.                                                               *)
TranchesAccounted ==
    \A u \in Investors : /\ claimed[u] <= vested_amount
                         /\ u \in claimRace \/ told[u] = claimed[u]
=============================================================================
