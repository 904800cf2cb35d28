----------------------------- MODULE Compliance -----------------------------
(***************************************************************************)
(* Compliance actions on a token: the API's freeze, unfreeze, forced       *)
(* transfer, recovery, pause and unpause (compliance_base_service.py,      *)
(* compliance_action_service.py, admin_compliance.py), the one platform    *)
(* account that sends them to the chain (web3_token_service.py and         *)
(* execute_contract), and what the token contract does with them           *)
(* (CiretaToken.sol).                                                      *)
(*                                                                         *)
(* A request reads the token row, sends one transaction, waits for its     *)
(* receipt, and only then writes the audit entry and commits.  Requests    *)
(* interleave at every await, and one may die after its transaction left.  *)
(***************************************************************************)
EXTENDS Naturals, FiniteSets, Bags

CONSTANTS
    Wallets,
    Platform,           \* the deployer's wallet, which recoveries pay
    Desks,              \* compliance requests served at a time
    Actors,
    Role,               \* per actor: "admin", "owner" (the token's issuer),
                        \* "issuer" (of another token) or "investor"
    Supply,             \* bound: tokens minted to a wallet at the start
    MaxActions,         \* bound on compliance requests
    MaxMoves            \* bound on what token holders and agents do directly

Holders == Wallets \cup {Platform}

ASSUME ComplianceAssumption ==
    /\ Platform \notin Wallets
    /\ IsFiniteSet(Desks) /\ "none" \notin Desks
    /\ {Supply, MaxActions, MaxMoves} \subseteq Nat
    /\ Role \in [Actors -> {"admin", "owner", "issuer", "investor"}]

VARIABLES
    deployed,           \* tokens.contract_address is set
    is_paused,          \* tokens.is_paused
    audit,              \* bag of the entries of audit_logs
    desk,               \* per desk: the request it serves
    actions,            \* requests so far
    (* On the chain:                                                       *)
    paused, frozen, frozenTokens, balance,
    nonce,              \* transactions of the platform account that were mined
    pool,               \* its transaction that waits to be mined, if any
    moves,
    (* What happened, for the properties:                                  *)
    executed,           \* bag of compliance actions that changed the chain
    lost,               \* bag of actions whose request died after sending them
    recovered,          \* wallets an agent moved to another wallet
    burnt,              \* wallets burnt from, and those they were moved to
    drift               \* why the row and the chain may disagree on the pause

chainVars == <<paused, frozen, frozenTokens, balance>>
dbVars    == <<is_paused, audit>>
compVars  == <<deployed, dbVars, desk, actions, chainVars, nonce, pool, moves,
               executed, lost, recovered, burnt, drift>>

With(bag, x) == bag (+) SetToBag({x})

Copies(x, bag) == IF x \in DOMAIN bag THEN bag[x] ELSE 0

Free == [stage |-> "free"]
None == "none"

ComplianceInit ==
    /\ deployed \in BOOLEAN /\ is_paused = FALSE /\ audit = EmptyBag
    /\ desk = [d \in Desks |-> Free] /\ actions = 0
    /\ paused = FALSE /\ frozen = [h \in Holders |-> FALSE]
    /\ frozenTokens = [h \in Holders |-> 0]
    /\ balance = [h \in Holders |-> IF h = Platform THEN 0 ELSE Supply]
    /\ nonce = 0 /\ pool = None /\ moves = 0
    /\ executed = EmptyBag /\ lost = EmptyBag
    /\ recovered = {} /\ burnt = {} /\ drift = {}

-----------------------------------------------------------------------------
(* The token contract.                                                     *)

Min(a, b) == IF a < b THEN a ELSE b

Move(b, from, to, n) ==
    [h \in Holders |-> b[h] - (IF h = from THEN n ELSE 0)
                            + (IF h = to THEN n ELSE 0)]

(* Recovery is a forced transfer to the platform.                          *)
Target(a) == IF a.op = "recover" THEN Platform ELSE a.to

(* Does the contract accept the call in the state it is in?  Nothing moves *)
(* while the token is paused, not even by force.                           *)
Executes(a) ==
    CASE a.op = "pause"                -> ~paused
      [] a.op = "unpause"              -> paused
      [] a.op \in {"forced", "recover"} -> ~paused /\ balance[a.from] >= a.amount
      [] OTHER                         -> TRUE

(* Slip: the frozen part is left as it was.                                *)
forcedTransferKeeps(a) ==
    /\ balance' = Move(balance, a.from, Target(a), a.amount)
    /\ UNCHANGED <<paused, frozen, frozenTokens>>

forcedTransfer(a) ==
    /\ frozenTokens' = [frozenTokens EXCEPT ![a.from] = @ - Min(@, a.amount)]
    /\ balance' = Move(balance, a.from, Target(a), a.amount)
    /\ UNCHANGED <<paused, frozen>>

setAddressFrozen(a) ==
    /\ frozen' = [frozen EXCEPT ![a.from] = (a.op = "freeze")]
    /\ UNCHANGED <<paused, frozenTokens, balance>>

setPaused(a) ==
    /\ paused' = (a.op = "pause")
    /\ UNCHANGED <<frozen, frozenTokens, balance>>

Call(a) == CASE a.op \in {"freeze", "unfreeze"} -> setAddressFrozen(a)
             [] a.op \in {"pause", "unpause"}   -> setPaused(a)
             [] OTHER                           -> forcedTransfer(a)

(* What holders and the token's other agents do without the API.           *)
Directly == /\ moves < MaxMoves /\ deployed /\ moves' = moves + 1
            /\ UNCHANGED <<deployed, dbVars, desk, actions, nonce, pool,
                           executed, lost, drift>>

Transfer(from, to, n) ==
    /\ Directly
    /\ ~paused /\ ~frozen[from] /\ ~frozen[to]
    /\ balance[from] >= frozenTokens[from] + n
    /\ balance' = Move(balance, from, to, n)
    /\ UNCHANGED <<paused, frozen, frozenTokens, recovered, burnt>>

freezePartialTokens(h, n) ==
    /\ Directly
    /\ balance[h] >= frozenTokens[h] + n
    /\ frozenTokens' = [frozenTokens EXCEPT ![h] = @ + n]
    /\ UNCHANGED <<paused, frozen, balance, recovered, burnt>>

burn(h, n) ==
    /\ Directly
    /\ ~paused /\ balance[h] >= n
    /\ balance' = [balance EXCEPT ![h] = @ - n]
    /\ burnt' = burnt \cup {h}
    /\ UNCHANGED <<paused, frozen, frozenTokens, recovered>>

(* The flag and the frozen amount move with the tokens; the frozen amount  *)
(* replaces the new wallet's.                                              *)
recoveryAddress(old, new) ==
    /\ Directly /\ old # new
    /\ (balance[old] > 0 => ~paused)
    /\ balance' = Move(balance, old, new, balance[old])
    /\ frozenTokens' = IF frozenTokens[old] > 0
                         THEN [frozenTokens EXCEPT ![new] = frozenTokens[old],
                                                   ![old] = 0]
                         ELSE frozenTokens
    /\ frozen' = IF frozen[old] THEN [frozen EXCEPT ![new] = TRUE, ![old] = FALSE]
                                ELSE frozen
    /\ recovered' = recovered \cup {old}
    /\ burnt' = IF old \in burnt THEN burnt \cup {new} ELSE burnt
    /\ UNCHANGED paused

-----------------------------------------------------------------------------
(* The requests.                                                           *)

(* Every compliance endpoint asks for one of these roles.                  *)
RequireIssuerOrAdmin(actor) == Role[actor] \in {"admin", "owner", "issuer"}

(* _verify_authorization: an issuer of another token is turned away where  *)
(* the token's own issuer is asked for.                                    *)
Authorized(actor, require_issuer) ==
    Role[actor] \in {"admin", "owner"} \/ ~require_issuer

(* A freeze without a token, or on one not deployed, never leaves the API. *)
OnChain(a) == deployed /\ (a.op \in {"freeze", "unfreeze"} => a.token)

PauseOp(a) == a.op \in {"pause", "unpause"}

InFlight(stages) == {d \in Desks : desk[d].stage \in stages}

Overlaps(a) == \E d \in InFlight({"read", "built", "sent", "mined"}) :
                 PauseOp(a) /\ PauseOp(desk[d].action)

(* The request is checked, and has read the row it will write.             *)
Request(d, actor, require_issuer, a) ==
    /\ desk[d] = Free /\ actions < MaxActions
    /\ RequireIssuerOrAdmin(actor)
    /\ Authorized(actor, require_issuer)
    /\ actions' = actions + 1
    /\ desk' = [desk EXCEPT ![d] = [stage |-> IF OnChain(a) THEN "read" ELSE "mined",
                                    action |-> a, was |-> PauseOp(a) /\ is_paused,
                                    nonce |-> 0, effect |-> "none"]]
    /\ drift' = drift \cup (IF Overlaps(a) THEN {"overlap"} ELSE {})
                      \cup (IF PauseOp(a) /\ ~deployed THEN {"undeployed"} ELSE {})
    /\ UNCHANGED <<deployed, dbVars, chainVars, nonce, pool, moves, executed,
                   lost, recovered, burnt>>

freeze_address(d, actor, w, t) ==
    Request(d, actor, FALSE, [op |-> "freeze", token |-> t, from |-> w])

unfreeze_address(d, actor, w, t) ==
    Request(d, actor, FALSE, [op |-> "unfreeze", token |-> t, from |-> w])

forced_transfer(d, actor, from, to, n) ==
    Request(d, actor, TRUE, [op |-> "forced", from |-> from, to |-> to,
                             amount |-> n])

recover_tokens(d, actor, from, n) ==
    Request(d, actor, TRUE, [op |-> "recover", from |-> from, amount |-> n])

pause_token(d, actor)   == Request(d, actor, TRUE, [op |-> "pause"])
unpause_token(d, actor) == Request(d, actor, TRUE, [op |-> "unpause"])

(* execute_contract takes the count of mined transactions as the nonce,    *)
(* whatever is waiting in the pool.                                        *)
Build(d) ==
    /\ desk[d].stage = "read"
    /\ desk' = [desk EXCEPT ![d].stage = "built", ![d].nonce = nonce]
    /\ UNCHANGED <<deployed, dbVars, actions, chainVars, nonce, pool, moves,
                   executed, lost, recovered, burnt, drift>>

(* Slip: a request that raised has its row written all the same.             *)
RaiseWrites(d) ==
    /\ desk' = [desk EXCEPT ![d] = Free]
    /\ is_paused' = IF PauseOp(desk[d].action) THEN desk[d].action.op = "pause"
                                              ELSE is_paused
    /\ UNCHANGED <<deployed, audit, actions, chainVars, nonce, moves, executed,
                   recovered, burnt>>

Raise(d) ==
    /\ desk' = [desk EXCEPT ![d] = Free]
    /\ UNCHANGED <<deployed, dbVars, actions, chainVars, nonce, moves, executed,
                   recovered, burnt>>

(* Slip: no gas estimate.                                                  *)
SendBlind(d) ==
    /\ desk[d].stage = "built" /\ desk[d].nonce = nonce
    /\ pool' = d
    /\ desk' = [e \in Desks |->
                  IF e = d THEN [desk[d] EXCEPT !.stage = "sent"]
                  ELSE IF e = pool THEN [desk[e] EXCEPT !.stage = "replaced"]
                  ELSE desk[e]]
    /\ UNCHANGED <<deployed, dbVars, actions, chainVars, nonce, moves, executed,
                   lost, recovered, burnt, drift>>

(* The gas estimate refuses a call the contract would refuse now; the node *)
(* refuses a nonce already used and, unless the gas price has risen enough *)
(* to replace it, one that is waiting.                                     *)
Send(d) ==
    /\ desk[d].stage = "built" /\ Executes(desk[d].action)
    /\ desk[d].nonce = nonce
    /\ pool' = d
    /\ desk' = [e \in Desks |->
                  IF e = d THEN [desk[d] EXCEPT !.stage = "sent"]
                  ELSE IF e = pool THEN [desk[e] EXCEPT !.stage = "replaced"]
                  ELSE desk[e]]
    /\ UNCHANGED <<deployed, dbVars, actions, chainVars, nonce, moves, executed,
                   lost, recovered, burnt, drift>>

(* Any call to the node may fail before the transaction has left.          *)
Refused(d) ==
    /\ desk[d].stage \in {"read", "built"}
    /\ Raise(d)
    /\ UNCHANGED <<pool, lost, drift>>

(* The transaction is mined and executes or reverts; either way it has a   *)
(* receipt.                                                                *)
Mine ==
    /\ pool # None
    /\ LET a == desk[pool].action IN
         /\ IF Executes(a)
              THEN Call(a) /\ executed' = With(executed, a)
              ELSE UNCHANGED <<chainVars, executed>>
         /\ desk' = [desk EXCEPT ![pool].effect = IF Executes(a) THEN "executed" ELSE "reverted",
                       ![pool].stage = IF @ = "sent" THEN "mined" ELSE "gone"]
         /\ lost' = IF desk[pool].stage = "orphan" /\ Executes(a)
                      THEN With(lost, a) ELSE lost
    /\ nonce' = nonce + 1 /\ pool' = None
    /\ UNCHANGED <<deployed, dbVars, actions, moves, recovered, burnt, drift>>

(* Wait times out or the process dies: the session is rolled back, the     *)
(* transaction is not.                                                     *)
Die(d) ==
    /\ desk[d].stage \in {"sent", "mined", "replaced"}
    /\ IF desk[d].stage = "sent"
         THEN desk' = [desk EXCEPT ![d].stage = "orphan"] /\ UNCHANGED lost
         ELSE /\ desk' = [desk EXCEPT ![d] = Free]
              /\ lost' = IF desk[d].effect = "executed"
                           THEN With(lost, desk[d].action) ELSE lost
    /\ drift' = drift \cup (IF PauseOp(desk[d].action) /\ desk[d].stage # "replaced"
                              THEN {"lost"} ELSE {})
    /\ UNCHANGED <<deployed, dbVars, actions, chainVars, nonce, pool, moves,
                   executed, recovered, burnt>>

Gone(d) == /\ desk[d].stage = "gone"
           /\ Raise(d)
           /\ UNCHANGED <<pool, lost, drift>>

(* Slip: unfreezing is not written to the audit log.                       *)
CommitFreezesOnly(d) ==
    /\ desk[d].stage = "mined"
    /\ audit' = IF desk[d].action.op = "unfreeze" THEN audit
                ELSE With(audit, [action |-> desk[d].action,
                                    effect |-> desk[d].effect])
    /\ desk' = [desk EXCEPT ![d] = Free]
    /\ UNCHANGED <<deployed, is_paused, actions, chainVars, nonce, pool, moves,
                   executed, lost, recovered, burnt, drift>>

(* The audit entry and the row, in one commit, whatever the receipt says.  *)
(* The row is only written where the request changed what it had read.     *)
(* (An entry's effect is for the properties: the log does not hold it.)    *)
Commit(d) ==
    /\ desk[d].stage = "mined"
    /\ LET a == desk[d].action IN
         /\ audit' = With(audit, [action |-> a, effect |-> desk[d].effect])
         /\ is_paused' = IF PauseOp(a) /\ desk[d].was # (a.op = "pause")
                           THEN a.op = "pause" ELSE is_paused
    /\ desk' = [desk EXCEPT ![d] = Free]
    /\ UNCHANGED <<deployed, actions, chainVars, nonce, pool, moves, executed,
                   lost, recovered, burnt, drift>>

(* token_service.deploy_contract; requests that read the row before it do  *)
(* not see the contract.                                                   *)
Deploy ==
    /\ ~deployed /\ deployed' = TRUE
    /\ UNCHANGED <<dbVars, desk, actions, chainVars, nonce, pool, moves,
                   executed, lost, recovered, burnt, drift>>

Logged(op) == {e.action : e \in {x \in DOMAIN audit : x.action.op = op}}

(* Slip: unfreezing does not take a wallet off the list.                   *)
EveryFreeze == Logged("freeze")

(* list_frozen_addresses: wallet and token of every freeze for which there *)
(* is no unfreeze anywhere in the log.  Without a token the two sides      *)
(* spell the missing key differently and never match.                      *)
list_frozen_addresses ==
    {f \in Logged("freeze") :
       ~f.token \/ ~\E u \in Logged("unfreeze") : u.from = f.from /\ u.token}

ComplianceNext ==
    \/ \E d \in Desks :
         \/ \E actor \in Actors, w \in Wallets :
              \/ \E t \in BOOLEAN : \/ freeze_address(d, actor, w, t)
                                   \/ unfreeze_address(d, actor, w, t)
              \/ \E n \in 1..Supply :
                   \/ recover_tokens(d, actor, w, n)
                   \/ \E to \in Wallets : forced_transfer(d, actor, w, to, n)
         \/ \E actor \in Actors : pause_token(d, actor) \/ unpause_token(d, actor)
         \/ Build(d) \/ Send(d) \/ Refused(d) \/ Die(d) \/ Gone(d) \/ Commit(d)
    \/ Mine \/ Deploy
    \/ \E h, g \in Wallets : \/ \E n \in 1..Supply : Transfer(h, g, n)
                            \/ recoveryAddress(h, g)
    \/ \E h \in Wallets, n \in 1..Supply : freezePartialTokens(h, n) \/ burn(h, n)

ComplianceSpec == ComplianceInit /\ [][ComplianceNext]_compVars

-----------------------------------------------------------------------------
(* Properties.                                                             *)

Served(effect) == {d \in InFlight({"mined", "gone"}) : desk[d].effect = effect}

(* Every action that changed the chain is in the audit log once, unless    *)
(* its request is about to write it or died before it could: "all          *)
(* compliance actions must be logged".                                     *)
NoSilentAction ==
    \A a \in DOMAIN executed :
      Copies(a, executed) =
        Copies([action |-> a, effect |-> "executed"], audit)
          + Copies(a, lost)
          + Cardinality({d \in Served("executed") :
                           desk[d].stage = "mined" /\ desk[d].action = a})

(* The platform's own requests, however they interleave, never make each   *)
(* other's transactions fail once sent: a failed transaction, which        *)
(* execute_contract reports like any other, takes a holder or another      *)
(* agent that moved in between.                                            *)
RevertsAreForeign ==
    moves = 0 => /\ Served("reverted") = {}
                 /\ \A e \in DOMAIN audit : e.effect # "reverted"

(* With no pause or unpause under way the row shows what the chain does,   *)
(* unless two of them overlapped, one died after it was sent, or the token *)
(* was paused before it had a contract.                                    *)
PauseMirrored ==
    (/\ deployed /\ drift = {}
     /\ \A d \in Desks : desk[d] # Free => ~PauseOp(desk[d].action))
      => is_paused = paused

(* A wallet on the list of frozen addresses is frozen on the chain, unless *)
(* an unfreeze of it was mined and its entry is still to come or lost, or  *)
(* an agent moved it to another wallet.                                    *)
ListedIsFrozen ==
    \A f \in list_frozen_addresses :
      [action |-> f, effect |-> "executed"] \in DOMAIN audit
        => \/ frozen[f.from] \/ f.from \in recovered
           \/ \E d \in Served("executed") :
                 desk[d].action.op = "unfreeze" /\ desk[d].action.from = f.from
           \/ \E a \in DOMAIN lost : a.op = "unfreeze" /\ a.from = f.from

(* No more of a wallet is frozen than it holds, through transfers, forced  *)
(* transfers and recoveries; burning alone leaves the frozen part as it is,*)
(* and a recovery hands such a part on.                                    *)
FrozenWithinBalance ==
    \A h \in Holders : h \notin burnt => frozenTokens[h] <= balance[h]
=============================================================================
