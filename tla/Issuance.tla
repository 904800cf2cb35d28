------------------------------ MODULE Issuance ------------------------------
(***************************************************************************)
(* Issuers, the tokens they create and deploy, and the sales they set up   *)
(* for them (issuer_service.py, token_service.py, sale_create_service.py,  *)
(* the token, sale and issuer endpoints, and the deployments of            *)
(* web3_token_service.py and web3_sale_service.py).                        *)
(*                                                                         *)
(* A request checks what it read, and writes later: a symbol is checked    *)
(* and then inserted, a deployment takes as long as a block.  Requests     *)
(* interleave in between and may die after their contract was made.  The   *)
(* data base itself keeps one issuer per user and one token per slug.      *)
(***************************************************************************)
EXTENDS Naturals, FiniteSets, Sequences

CONSTANTS
    Issuers,            \* users that may become issuers
    Symbols, Names,
    Caps,
    Workers,            \* requests of issuers served at a time
    MaxTokens, MaxSales, MaxContracts   \* bounds on rows and on deployments

ASSUME IssuanceAssumption ==
    /\ Caps \subseteq Nat
    /\ {MaxTokens, MaxSales, MaxContracts} \subseteq Nat

VARIABLES
    issuer,             \* per user: issuers.status, or "none"
    tokens,             \* rows of tokens
    sales,              \* rows of token_sales
    tokenContracts,     \* token made for each contract, oldest first
    saleContracts,      \* token contract sold by each sale contract
    saleAudit,          \* sales whose deployment is in audit_logs
    work,               \* per worker: the request it serves
    (* What happened, for the properties:                                  *)
    raced               \* symbols created, and tokens deployed, twice at a time

issuanceVars == <<issuer, tokens, sales, tokenContracts, saleContracts,
                  saleAudit, work, raced>>

NoWork == [kind |-> "none"]
Undeployed == 0

IssuanceInit ==
    /\ issuer = [u \in Issuers |-> "none"]
    /\ tokens = <<>> /\ sales = <<>>
    /\ tokenContracts = <<>> /\ saleContracts = <<>> /\ saleAudit = {}
    /\ work = [w \in Workers |-> NoWork]
    /\ raced = {}

-----------------------------------------------------------------------------
(* Issuers.                                                                *)

SetStatus(u, status) ==
    /\ issuer' = [issuer EXCEPT ![u] = status]
    /\ UNCHANGED <<tokens, sales, tokenContracts, saleContracts, saleAudit,
                   work, raced>>

onboard_issuer(u)  == issuer[u] = "none" /\ SetStatus(u, "pending")
activate_issuer(u) == issuer[u] # "none" /\ SetStatus(u, "active")
revoke_issuer(u)   == issuer[u] # "none" /\ SetStatus(u, "suspended")

-----------------------------------------------------------------------------
(* Requests in steps.                                                      *)

Busy(kind, what) ==
    \E w \in Workers : work[w].kind = kind /\ work[w].what = what

Start(w, kind, what, more) ==
    /\ work[w] = NoWork
    /\ work' = [work EXCEPT ![w] = [kind |-> kind, what |-> what, stage |-> "read",
                                    more |-> more, made |-> 0]]
    /\ raced' = IF Busy(kind, what) THEN raced \cup {<<kind, what>>} ELSE raced
    /\ UNCHANGED <<issuer, tokens, sales, tokenContracts, saleContracts,
                   saleAudit>>

Ends(w) == work' = [work EXCEPT ![w] = NoWork]

(* Slip: the symbol is not looked up.                                      *)
CheckTokenBlind(w, u, symbol, name) ==
    /\ Len(tokens) < MaxTokens
    /\ issuer[u] = "active"
    /\ Start(w, "create", symbol, [issuer |-> u, slug |-> <<name, 0>>])

(* create_token: the issuer is active and the symbol free when they are    *)
(* read.                                                                   *)
CheckToken(w, u, symbol, name) ==
    /\ Len(tokens) < MaxTokens
    /\ issuer[u] = "active"
    /\ \A t \in DOMAIN tokens : tokens[t].symbol # symbol
    /\ Start(w, "create", symbol, [issuer |-> u, slug |-> <<name, 0>>])

Slugs == {tokens[t].slug : t \in DOMAIN tokens}

Lowest(S) == CHOOSE k \in S : \A j \in S : k <= j

(* _generate_unique_slug: the name with the first number not taken.        *)
FreeSlug(name) ==
    <<name, Lowest({k \in 0..MaxTokens : <<name, k>> \notin Slugs})>>

ChooseSlug(w) ==
    /\ work[w].kind = "create" /\ work[w].stage = "read"
    /\ work' = [work EXCEPT ![w].stage = "slug",
                            ![w].more.slug = FreeSlug(@[1])]
    /\ UNCHANGED <<issuer, tokens, sales, tokenContracts, saleContracts,
                   saleAudit, raced>>

(* The insert fails on a slug taken meanwhile, and only on that.           *)
InsertToken(w) ==
    /\ work[w].kind = "create" /\ work[w].stage = "slug"
    /\ Len(tokens) < MaxTokens
    /\ tokens' = IF work[w].more.slug \in Slugs THEN tokens
                 ELSE Append(tokens, [issuer |-> work[w].more.issuer,
                                      symbol |-> work[w].what,
                                      slug |-> work[w].more.slug,
                                      contract_address |-> Undeployed])
    /\ Ends(w)
    /\ UNCHANGED <<issuer, sales, tokenContracts, saleContracts, saleAudit,
                   raced>>

(* Slip: a token that is deployed is deployed again.                       *)
CheckDeployAgain(w, u, t) ==
    /\ tokens[t].issuer = u
    /\ Start(w, "deploy", t, <<>>)

(* deploy_contract: its owner deploys a token not deployed so far.  The    *)
(* issuer's status is not looked at.                                       *)
CheckDeploy(w, u, t) ==
    /\ tokens[t].issuer = u /\ tokens[t].contract_address = Undeployed
    /\ Start(w, "deploy", t, <<>>)

(* deploy_erc3643_token: the factory makes the contract.                   *)
MineToken(w) ==
    /\ work[w].kind = "deploy" /\ work[w].stage = "read"
    /\ Len(tokenContracts) < MaxContracts
    /\ tokenContracts' = Append(tokenContracts, work[w].what)
    /\ work' = [work EXCEPT ![w].stage = "made",
                            ![w].made = Len(tokenContracts) + 1]
    /\ UNCHANGED <<issuer, tokens, sales, saleContracts, saleAudit, raced>>

SaveToken(w) ==
    /\ work[w].kind = "deploy" /\ work[w].stage = "made"
    /\ tokens' = [tokens EXCEPT ![work[w].what].contract_address = work[w].made]
    /\ Ends(w)
    /\ UNCHANGED <<issuer, sales, tokenContracts, saleContracts, saleAudit,
                   raced>>

(* create_sale: the owner of a deployed token; the caps in order.          *)
create_sale(u, t, soft, hard) ==
    /\ Len(sales) < MaxSales
    /\ tokens[t].issuer = u
    /\ tokens[t].contract_address # Undeployed
    /\ soft <= hard
    /\ sales' = Append(sales, [token |-> t, soft |-> soft, hard |-> hard,
                               contract_address |-> Undeployed])
    /\ UNCHANGED <<issuer, tokens, tokenContracts, saleContracts, saleAudit,
                   work, raced>>

(* deploy_sale: the sale's owner, with the token's address as it is read   *)
(* here; a sale that has a contract gets another.                          *)
CheckSale(w, u, s) ==
    /\ tokens[sales[s].token].issuer = u
    /\ Start(w, "sale", s, [token |-> tokens[sales[s].token].contract_address])

MineSale(w) ==
    /\ work[w].kind = "sale" /\ work[w].stage = "read"
    /\ Len(saleContracts) < MaxContracts
    /\ saleContracts' = Append(saleContracts, work[w].more.token)
    /\ work' = [work EXCEPT ![w].stage = "made",
                            ![w].made = Len(saleContracts) + 1]
    /\ UNCHANGED <<issuer, tokens, sales, tokenContracts, saleAudit, raced>>

(* The address and the audit entry are two commits.                        *)
SaveSale(w) ==
    /\ work[w].kind = "sale" /\ work[w].stage = "made"
    /\ sales' = [sales EXCEPT ![work[w].what].contract_address = work[w].made]
    /\ work' = [work EXCEPT ![w].stage = "saved"]
    /\ UNCHANGED <<issuer, tokens, tokenContracts, saleContracts, saleAudit,
                   raced>>

AuditSale(w) ==
    /\ work[w].kind = "sale" /\ work[w].stage = "saved"
    /\ saleAudit' = saleAudit \cup {work[w].what}
    /\ Ends(w)
    /\ UNCHANGED <<issuer, tokens, sales, tokenContracts, saleContracts, raced>>

(* A request dies wherever it is; what is on the chain stays there.        *)
Abandon(w) ==
    /\ work[w] # NoWork
    /\ Ends(w)
    /\ UNCHANGED <<issuer, tokens, sales, tokenContracts, saleContracts,
                   saleAudit, raced>>

IssuanceNext ==
    \/ \E u \in Issuers : onboard_issuer(u) \/ activate_issuer(u) \/ revoke_issuer(u)
    \/ \E w \in Workers, u \in Issuers :
         \/ \E x \in Symbols, n \in Names : CheckToken(w, u, x, n)
         \/ \E t \in DOMAIN tokens : CheckDeploy(w, u, t)
         \/ \E s \in DOMAIN sales : CheckSale(w, u, s)
    \/ \E u \in Issuers, t \in DOMAIN tokens, soft, hard \in Caps :
         create_sale(u, t, soft, hard)
    \/ \E w \in Workers :
         \/ ChooseSlug(w) \/ InsertToken(w) \/ MineToken(w) \/ SaveToken(w)
         \/ MineSale(w) \/ SaveSale(w) \/ AuditSale(w) \/ Abandon(w)

IssuanceSpec == IssuanceInit /\ [][IssuanceNext]_issuanceVars

-----------------------------------------------------------------------------
(* Properties.                                                             *)

(* "Check symbol uniqueness": two tokens have one symbol only if they were *)
(* being created at the same time.                                         *)
SymbolsUnique ==
    \A t1, t2 \in DOMAIN tokens :
      (t1 # t2 /\ tokens[t1].symbol = tokens[t2].symbol)
        => <<"create", tokens[t1].symbol>> \in raced

(* The contract a sale row points at sells the contract its token row      *)
(* points at, however often either was deployed or a deployment died,      *)
(* unless two deployments of the token ran at the same time.               *)
SaleSellsItsToken ==
    \A s \in DOMAIN sales :
      LET t == sales[s].token IN
      (sales[s].contract_address # Undeployed /\ <<"deploy", t>> \notin raced)
        => saleContracts[sales[s].contract_address] = tokens[t].contract_address
=============================================================================
