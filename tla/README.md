# Verification of the Cireta platform

Cireta sells and services tokenised real-world assets. Solidity contracts hold
the money and the tokens (`contracts/src/`); a Python API and its workers
(`apps/api/`, `packages/common/`) keep a database beside the chain, run KYC,
authenticate users and act for the platform on the chain; two web front ends and
a subgraph read.

This directory holds TLA+ modules for the parts that carry the platform's own
logic, TLC configurations that check them on small instances, and TLAPS proofs
that hold for every value of the constants.

## 1. Inventory

State, operations and what makes each part correct.

| part | state | operations | must hold | module |
|---|---|---|---|---|
| Sale contract (`sale/Sale.sol`) | status, phases, whitelist, contributions, totals, its USDC | configure, activate/pause, `contribute`, `issuerAllocate`, `finalizeSale`, `claimTokens`, `claimRefund` | refunds covered, proceeds split once, caps decide the outcome | `Sale`, `Crowdfund` |
| Vault and fraction token (`vault/`, `fraction/`) | vesting records, locked/released counters, fraction balances and supply | record, deposit, start vesting, claim, phase excess, withdraw excess, transfer, burn | claimed ≤ vested ≤ allocated, backing not withdrawn | `CiretaVault`, composed in `Sale` |
| Vesting vault (`vesting/`) | schedules per beneficiary, reserved amount | create, batch create, revoke, claim, claim all | every live schedule can be honoured | `VestingVault` |
| Dividend distributor (`token/DividendDistributor.sol`) | epochs, snapshots, claimed flags, last claimed epoch | deposit, snapshot, claim, claim range | each epoch paid once per holder, within its deposit | `DividendDistributor` |
| Redemption (`token/RedemptionManager.sol`, `redemption_service.py`, `admin_operations.py`) | requests and the tokens held for them; records with a shipping status | request, fulfil, cancel; create and update a record | tokens held are those of open requests; a record has the status answered | `Redemption` |
| Sale backend (`sale_contribute_service.py`, `endpoints/sales.py`, `issuer_withdrawals.py`) | `token_sales` row, `contributions` rows | contribute, finalize, claim, refund, OTC allocate, withdraw | totals match rows, caps kept, one final status, nothing paid twice | `SaleBackend` |
| Chain event sync (`event_listener_service.py`) | last synced block (Redis) | poll every 12 s, handle events | settled rows stay settled | `SaleBackend` |
| KYC (`kyc_service.py`, `kyc_expiry_service.py`, `web3_identity_service.py`, worker) | user's status and level, applications, stored webhooks, on-chain identity | apply, webhook, retry, replay, expire, deploy identity | approved only after GREEN, identity built in order, webhooks settled | `Kyc` |
| Authentication (both `auth_service.py`, `mfa_service.py`) | account row, tokens, blacklist in Redis or memory | register, log in, refresh, log out, reset, verify, second factor | ended tokens stay ended, lock only after failures, codes work once | `Auth` |
| Compliance actions and project token (`compliance_*_service.py`, `admin_compliance.py`, `CiretaToken.sol`) | audit log, pause flag, platform nonce; pause, freezes, balances on the chain | freeze, forced transfer, recover, pause; mine, transfer, burn | every effect audited, row and chain agree, frozen ≤ balance | `Compliance` |
| Issuers, tokens, sale creation (`issuer_service.py`, `token_service.py`, `sale_create_service.py`) | issuer status, token and sale rows, contract addresses | onboard, activate, revoke, create, deploy | unique symbols, a sale sells its row's token | `Issuance` |
| Wallets, off-chain vesting claims (`wallet_service.py`, `vesting_service.py`) | wallet rows, primary flag, claimed amount | link (with screening), unlink, set primary, claim | one primary wallet, claims within vested | `Portfolio` |
| Transaction submission, RPC breaker (`web3_tx_service.py`, `web3_provider.py`) | pending nonce; breaker state, failures | submit with retries; call, fail, recover | gives up only in a crowd; a dead node is left alone | `Platform` |
| Rate limiter (`rate_limit.py`) | sliding windows | dispatch | the limit is exact | `Gateway` |
| Compliance modules, registries, factories, settings, reports, cache, notifications, front ends, subgraph | address books, counters, views | – | – | not modelled (section 8) |

How they interact. An investor calls the sale contract; in a vested sale one
transaction also mints fractions, records the allocation in the vault and, at
success, starts its clock. The front end then posts the transaction's hash to
the API, which reads the receipt over RPC and writes a row. A worker polls the
contract's events. `finalize_sale` of the API and `finalizeSale()` of the
contract are separate: neither waits for the other. The KYC provider calls a
webhook; the worker retries what failed; an approval sends five transactions
that build the on-chain identity the contracts ask for. Compliance staff act
through the API, which sends one transaction from the platform's account, waits,
and then writes its audit log.

What is hard here:

* on the chain every call is atomic, so the difficulty is *order*: pauses,
  auto-finalization at the hard cap, OTC allocations, trades of fractions and
  claims come in any sequence, and integer rounding meets unsigned subtraction;
* in the backend requests interleave at every `await`. Only some reads take
  `SELECT ... FOR UPDATE`; sessions neither autoflush nor expire what they hold
  and write back only the fields they changed; RPC, Redis and the provider fail;
  and a transaction may be mined although nobody waited for its receipt.

`PROJECT.json` lists each hazard at its line with the properties that cover it.

## 2. Plan

Done: the contracts that hold money or tokens (`CiretaVault`, `Crowdfund`,
`Sale`, `DividendDistributor`, `VestingVault`, `Redemption`), the API around them
(`SaleBackend`, `Kyc`, `Auth`, `Compliance`, `Issuance`, `Portfolio`, `Platform`,
`Gateway`), and a proof of every safety property the passing runs check
(section 6).

Next:

1. `ModularCompliance` with the counting modules, as the token's hook; the
   identity registries behind `isVerified`.
2. Several sales in one database, for the listener that matches wallets over all
   of them.
3. Which overlaps the outcome of a backend sale survives: `BackendSerialOutcome`
   excludes all of them, and may not need to.

## 3. Modules and how they correspond to the code

| module | role |
|---|---|
| `Sums` | the sum of a function as a count of unit items, so that both TLC and TLAPS can use it |
| `CiretaVault` | vault and fraction token; the sale is a caller that mints what it records |
| `Crowdfund` | abstract: what a sale promises the people who pay into it |
| `Sale` | `Sale.sol`, extends `CiretaVault`: one action changes both contracts, as one transaction does |
| `DividendDistributor`, `VestingVault` | the contracts of those names |
| `Redemption` | `RedemptionManager.sol`, and the API's records beside it |
| `SaleBackend` | the database record of one sale, API requests, event listener; its chain is `Crowdfund` plus an event log, justified by the refinement of `Sale` |
| `Kyc` | applications, webhooks, worker, on-chain identity, expiry |
| `Auth` | accounts, tokens, blacklist, second factor |
| `Compliance` | compliance requests, the platform account's transactions, the token contract |
| `Issuance` | issuers, tokens, sales and their deployments |
| `Portfolio` | wallets with screening, off-chain vesting claims |
| `Platform` | RPC circuit breaker, submissions with nonce retries |
| `Gateway` | rate limit |
| `SumTheorems` | theorems about sums |
| `CiretaVaultProofs`, `SaleProofs`, `SaleBackendProofs`, `AuthProofs`, `KycProofs` | theorems about the modules of those names |
| `TokenVaultProofs` | theorems about `VestingVault`, `DividendDistributor` and `Redemption` |
| `OperationsProofs` | theorems about `Platform`, `Gateway`, `Portfolio`, `Issuance` and `Compliance` |
| `MC*` | instances for TLC |

Conventions. One variable per storage variable or table, under its own name; a
mapping is a function, a struct or a row a record. `require`/`revert` conditions
and HTTP refusals are guards: a call that is refused changes nothing and is no
step. `block.timestamp`, `block.number` and `datetime.now` are clocks that any
step may find advanced. Solidity's checked subtraction is covered by the type
theorems: an unchecked path would reach a number below 0. Token amounts are
scaled by `Scale` in place of 1e18. The commented *slips* in a module are
plausible mistakes of the code; each property is known to notice at least one.
Variables under "What happened, for the properties" are history: no guard reads
them.

**Requests and sessions.** In every backend module a request is a job in a slot:
what it reads is one step, what it commits another, and other requests run in
between. A job carries the fields it has read and, where the code writes back an
object, the fields it changed, so that a commit overwrites exactly those. A
request may die at any of its steps.

`SaleBackend`:

| code | actions |
|---|---|
| `contribute` | `ContributeVerified` or `ContributeUnverified` (duplicate check, `_verify_on_chain`), then `ContributeCommit` (from `FOR UPDATE` to the commit, all checks) |
| `finalize_sale` | `FinalizeRead` (no lock), `FinalizeConfirm` (the UPDATE of pending rows, which stay locked), `FinalizeCommit` (the status, flushed only now) |
| `claim_tokens`, `claim_refund` | `ClaimRead`, `RefundRead`, then `WriteCommit` |
| `otc_allocate` | `OtcAllocate` |
| `execute_withdrawal` | `WithdrawLock` (row locked), then `WithdrawPaid` or `WithdrawFailed` |
| any exception, disconnect, rollback | `GiveUp` |
| `poll_events` | `PollBegin`, per event name `PollEvent` with the listener's `WriteCommit`, `PollName`, `PollEnd` |

With `Faults` the node may not answer, Redis may be away, an exception may drop
the rest of an event's logs, and a transfer may be mined and its receipt lost.
The project pins web3 7, whose `get_logs` takes `from_block`; the code's
`fromBlock=` raises, so in that build every poll takes the exception branch.
The model keeps the handlers, as what a node that answers would lead to; the
branch without them is among its behaviours. A contribution is one transaction
with one amount. Refusals for KYC, screening and phase whitelists are not told
apart from `GiveUp`. One phase is modelled on the backend's side, so the
per-phase sum is the user's sum. The row starts `active`: an operator sets this,
no code of the backend does.

`Kyc`: `Webhook` and `CorporateWebhook` store the event and start
`handle_webhook` in the request's session; `Reviewed` is what a GREEN or RED
answer changes; `Transaction` sends the next of the identity's transactions
(deployment, claims topic by topic, registration), each of which may already be
on the chain or fail; the request then marks its event and commits. The worker
reads a batch with the attempts it had (`WorkerBegin`), takes its events one by
one through the same handler (`WorkerNext`, `WorkerProcessed`, `WorkerRaised`)
and commits once (`WorkerCommit`). `Review` is the provider; `Crash` loses a
session. The endpoint checks the same header against two different encodings of
the signature; the model lets webhooks through, which over-approximates it.

`Auth`: a token is what it encodes, user, type and expiry in seconds, since the
code adds nothing unique; `Blacklist` writes to Redis or, when a call fails, to
the process; `Accepted` is `decode_token`.

`Compliance`: `Request` (role and row), `Build` (nonce), `Send` (gas estimate and
the node's rules on nonces), `Mine` (the contract's function executes or
reverts), `Commit` (audit entry and row), `Die`. Holders and other agents move on
the chain in between.

## 4. What TLC checks

Passing runs:

| run | shows | bounds |
|---|---|---|
| `sale_direct` | escrow, proceeds, caps, refinement of `Crowdfund` | 2 phases, one whitelisted; price 2 against payments of 1 and 3, so allocations round; fee above and below its cap; block limit |
| `sale_vested` | nobody is overpaid, sale and vault agree, refund or tokens but not both, fractions accounted for | all vesting moments before, at and after the cliff and the end |
| `sale_liveness` | everyone who paid is settled in the end | without symmetry |
| `token_vaults` | vault, vesting vault, dividend distributor and redemption manager can pay all they owe; redemption records keep the status answered | cliff 1 and duration 3 (thirds do not divide the amounts); zero duration and a cliff behind the end, which the batch function lets through; batch of 1 against 2 epochs; 3 requests with ids fulfilled before they exist; two staff updates at a time |
| `backend_races` | sum, bounds, provenance, no late money, settled rows stay | 2 concurrent requests of any kind, faults, 2 hashes, users with and without a linked wallet |
| `backend_serial` | what holds when requests come one by one and nothing fails: the outcome fits the total, no row stays pending | 1 slot, chain of 4 blocks: enough for allocate, contribute, finalize, claim, and for the listener to write |
| `kyc` | no approval without GREEN, identity built in order, stored webhooks settled | one user, endpoint and worker at a time, two applications, one lost session or replay; a webhook fails three times |
| `auth` | ended tokens stay ended, lock after failures only, backup codes once, second factor usable | two requests at a time, a Redis that fails, tokens that expire while the run lasts, lock at 2 failures, 2 secrets with a batch of backup codes each |
| `operations` | the twelve invariants of `Compliance`, `Issuance`, `Portfolio`, `Platform`, `Gateway` | two desks or handlers at a time; 3 compliance actions and 1 foreign move; 2 deployments; 3 wallet rows; breaker with 3 failures in a window of 4 and 2 open; 3 submissions and 2 rivals against 3 retries; windows of 2 over 4 seconds |

`token_vaults` and `operations` hold parts that share no state. Their MC modules
have a variable `part`, chosen at the start, so that the parts' states add up and
do not multiply; every invariant is of one part's variables.

Each bound is named in its configuration (`MaxTime`, `MaxEpochs`, `MaxBlocks`,
`MaxRequests`, `MaxUpsets`, ...). They are the smallest at which each branch of
each action is taken, with two of everything that can collide: the rounding,
overlap and double-spend cases need two investors or two requests and amounts
that do not divide. `CHECK_DEADLOCK FALSE` stands where the bounds, or a system
with nothing left to do, stop the model.

Fairness. `sale_liveness`: weak fairness of `FinalizeSale` and of each investor's
`ClaimRefund`. Both are calls a person makes, so the result is "if the issuer
finalizes and investors ask, everyone is settled": no other party's action, no
pause and no KYC change can keep them from it. `kyc`: weak fairness of the
worker's steps, whose loop is started with the worker and runs every 30 s
(`tasks.py:424, started at 454`). `kyc_reapply` adds that requests end and that the provider
repeats a webhook that was not answered (strong fairness, as requests come and
go in the slot): even so the applicant is not answered.

Several properties except what the code does not guard: two requests *of the
same kind on the same object at the same time*. The history variables `raced`,
`walletRace`, `claimRace`, `overlapped`, `contested` and `drift` name these
cases, so that the property says what must hold outside them (and what still
holds inside: `claimed <= vested_amount`, `LockedAfterFailures`). What the code
does inside them is listed in section 5.

## 5. Where the code and its documents disagree

TLC refutes these; the document is quoted in `PROJECT.json`.

| run | what TLC finds |
|---|---|
| `backend_final` | two finalizations around a contribution: the later commit overwrites the other's final status, and both answer 200 |
| `backend_withdraw` | a withdrawal whose receipt is late is not recorded, and the retry pays again |
| `kyc_reapply` | a user who applies again has two application rows; every webhook from then on raises, becomes a dead letter, and a GREEN review never reaches the user |

`OutcomeFits` (a sale that reached its soft cap is not failed, a finalized one
has no pending row) is checked in `backend_serial`, where it holds, and proved
for one request at a time whatever fails; what breaks it is interleaving alone: finalize_sale's unlocked read, and a contribution that
commits between the UPDATE of the pending rows and the commit
(`sale_contribute_service.py:410`).

Read off the code while modelling it, without a run of their own:

*Contracts*
* an OTC allocation of an investor who also buys in a direct sale cannot be
  claimed, because the purchase sets `claimed` (`Sale.sol:259`, `:335`);
* no function of the sale calls `depositTokens()`, so `totalLocked` stays 0 and
  `getBackingRatio()` reverts after the first vault claim (`CiretaVault.sol:229`);
* a first batch of epochs that owes nothing makes `claim()` revert each time;
  `claimRange()` is the way out (`DividendDistributor.sol:112`);
* tokens that move between two snapshots of an epoch are counted twice
  (`DividendDistributor.sol:95`), hence the premise in `EpochsHonoured`;
* revoking a schedule leaves what had vested, unclaimed, in the contract
  (`VestingVault.sol:187`);
* a burn leaves the frozen amount, and recovery overwrites it
  (`CiretaToken.sol:366`): a wallet tokens were burnt from, or one that such a
  wallet was recovered into, may have more frozen than it holds, hence `burnt`
  in `FrozenWithinBalance`.

*Sale backend*
* `claim_tokens` does not look at the sale's status
  (`sale_contribute_service.py:475`);
* the listener only logs a `ContributionMade` it does not know
  (`event_listener_service.py:299`), moves on after an exception (`:223`) and
  matches claims and refunds by wallet over all sales (`:305`);
* a mined contribution counts twice against the maximum, since the chain's
  figure already holds it (`sale_contribute_service.py:314`).

*KYC and authentication*
* an older GREEN that arrives after a RED approves again; `kyc_expires_at` is
  never set; the back-off between retries is only logged;
* two tokens of one user and second are equal, so a refresh within the second of
  the last one returns the token it has just ended;
* the failure counter is not reset when a lock expires, so the next failure locks
  again; the in-memory blacklist is not shared between processes.

*Compliance, issuance, wallets*
* an unfreeze without a token never matches its freeze in the list of frozen
  addresses, and a wallet frozen, unfrozen and frozen again is missing from it
  (`admin_compliance.py:247`); recover_tokens ignores its target address; a
  reverted transaction is audited like an executed one;
* overlapping pause and unpause, or a pause before deployment, leave the row and
  the chain apart;
* two deployments of one token at a time: the later address stays; a revoked
  issuer can still deploy and create sales;
* two first links, or two changes of the primary wallet at a time, leave two
  primary wallets or none; two vesting claims at a time record one.

*Redemption, platform*
* no endpoint calls `update_fulfillment`, and no column links a record to a
  request on the chain, so delivered goods are not burnt by the API
  (`redemption_service.py:183`); any status may follow any other;
* `submit_transaction` tries 5 times, its docstring says 3
  (`web3_tx_service.py:50`); the half-open breaker lets every call through;
* the rate limit's burst, a tenth of the general limit, is added to every path's
  own limit; windows of clients that do not come back are never dropped.

## 6. What is proved

For every set of investors, amount, cap, fee, phase, vesting term, number of
concurrent requests and bound satisfying the named assumptions of the modules
(finite sets of people, natural amounts and durations), TLAPS checks:

* **Vault** (`CiretaVaultProofs`): `VaultTypeCorrect`, `VaultClaimsSound`,
  `VaultLockedIsHeld`, `VaultBackingKept`. The inductive invariant `VaultInv`
  adds to the type that the fraction supply is the sum of the balances, without
  which a burn could take the supply below zero, and the bounds themselves. The
  key lemmas are that the vested amount, a rounded-down product, never
  decreases as the clock and the allocation grow (`VestedMonotone`), so that
  `vested - claimedAmount` cannot underflow, and what a mint, a burn and a
  transfer do to a sum (`SumTheorems`).
* **Sale** (`SaleProofs`): `SaleTypeCorrect`, `SaleEscrowSound`,
  `SaleProceedsSound`, `SaleCapsDecide`, `SaleVestingStarts`,
  `SaleFinalIsFinal`, `RefundAffordable`, `SaleImplementsCrowdfund`. None of the
  money properties is inductive alone. `SaleInv` adds that only a failed sale
  has refunds, that an open one holds all it raised and has paid nobody, that a
  draft has raised nothing, and that the two ledgers of an investor's payments
  agree. Each action then has one lemma; actions that touch no money share one.
  The refinement follows from the same invariant: `contribute` is a pledge (and
  a settlement at the hard cap), `finalizeSale` settles, `claimRefund` refunds,
  and everything else, the vault included, is a stutter.
* **Sale backend** (`SaleBackendProofs`): all five properties of the run
  `backend_races`, now for any number of request slots, backers, hashes and
  polls: `BackendRaisedIsSum`, `BackendWithinBounds`, `BackendVerified`,
  `BackendNoLateMoney`, `BackendSettledStays`. `BackendInv` adds what the row
  locks are for: at most one withdrawal is under way and what it will record is
  still there (`OneWithdrawal`), the rows a finalization has updated are pending
  until it commits and no other finalization has them (`ConfirmsPending`); and
  that a request between its chain check and its commit carries a transaction
  that was mined as it says (`JobsGenuine`), which stays true because mined
  transactions do not change.
* **Sale, the tokens** (`SaleProofs`): `SaleNeverOverpays`, `SaleVaultMirrors`,
  `SaleRefundXorTokens`, `SaleFractionsAccounted`. `TokenInv` adds what each mode
  pays through (`PaidAsBooked`): a draft has paid nobody, a direct sale knows no
  fractions and has not paid who may still claim, a vested one has paid what the
  vault released. Refund or tokens then follows from the money invariant: only a
  failed sale refunds, and its vesting clock never started.
* **One request at a time** (`SaleBackendProofs`): `BackendSerialOutcome` and
  `BackendSerialFinal` assume `OneAtATime` (at most one slot; the listener still
  runs beside it, and calls may fail). `SerialInv` says that a finalization under
  way has decided on what is still so and confirms all that is pending. Without
  the hypothesis the second is what `backend_final` refutes.
* **Vesting vault** (`TokenVaultProofs`): `VestingSchedulesHonoured`. `VestInv`
  keeps every schedule's times in order and its claims within what has vested,
  and the tokens held at least the sum, over all beneficiaries and schedules, of
  what is due. `VestedAtBounds` covers the cliff behind the end and the duration
  of zero that the batch function lets through.
* **Dividend distributor** (`TokenVaultProofs`): `DividendEpochsHonoured`.
  `DivInv` adds that only registered balances are paid, so a claimed epoch's
  share never changes again. That rounding gives nothing away needs the sum of
  products to be the product of the sum (`SumScale`).
* **Redemption** (`TokenVaultProofs`): `RedemptionHeldIsOwed` and
  `RedemptionStatusAsAnswered`. For the contract the invariant adds that an id
  not handed out yet has no amount (`Unwritten`): ids can be settled before they
  are requested, and a request then reopens the slot. For the records it adds
  that the only update under way on an uncontested record has seen its current
  status (`SeenAsIs`).
* **Authentication** (`AuthProofs`): `AuthLockedAfterFailures` from counters that,
  in a row or in what a request has read of it, are never above the failures
  there were (`LocksEarned`); `AuthMfaUsable` from users with one request at a
  time (`AloneUnless`); `AuthBackupCodeOnce` from codes that are listed for one
  user, gone once spent, and new when a batch is enabled (`CodesOnce`);
  `AuthEndedStaysEnded` from tokens within the lifetime of their type and entries
  that outlive their token (`WithinLifetime`, `OnTheList`).
* **KYC** (`KycProofs`): `KycIdentityInOrder` and `KycInvestorsWereGreen`, for any
  number of users, events, retries and lost sessions. `KycInv` says of each
  session, the endpoint's and the worker's, that the rows it has read or changed
  are backed by an answer and an identity; it survives the other sessions'
  commits because answers, claims and events are only ever added (`StillFine`).
* **Chain access and rate limit** (`OperationsProofs`): `PlatformFailuresBounded`,
  since from the MAX_FAILURES-th failure on each came OPEN_DURATION after the one
  before (`Spread`); `PlatformGivesUpInACrowd`, since every further attempt has
  seen the account's count grow (`Crowded`); `GatewayLimitExact`, since a key's
  window is exactly its recent calls that were let through (`LimitInv`).
* **Wallets and claims** (`OperationsProofs`): `PortfolioWalletsInOrder` and
  `PortfolioTranchesAccounted`. Outside the noted races, what a request has read
  still holds when it commits (`UserInOrder`, `AddressInOrder`,
  `ClaimsInOrder`); inside them, a claim is bounded by what had vested when it
  read (`ClaimFits`).
* **Issuance** (`OperationsProofs`): `IssuanceSymbolsUnique` (`SymbolFree`: a symbol
  being created is not taken) and `IssuanceSaleSellsItsToken` (`SellInv`: a sale's
  deployment carries the token contract its row's token has; a token with sales
  is deployed and is not deployed again, unless deployments raced).
* **Compliance** (`OperationsProofs`): `ComplianceFrozenWithinBalance`,
  `ComplianceRevertsAreForeign` (what waits in the pool is still accepted:
  `RevertInv`), `CompliancePauseMirrored` (at most one pause is under way, and its
  reading is the row: `PauseFits`), `ComplianceNoSilentAction` (each copy of an
  executed action is written, lost or waiting: `LogInv`) and
  `ComplianceListedIsFrozen` (an executed freeze still holds, or its unfreeze can
  be found: `ListInv`). All rest on `CompTypes`, which says which desk the
  transaction in the pool belongs to and what a desk's stage means for its
  effect.
* **Sums** (`SumTheorems`): adding, changing at one point, bounding, zero,
  splitting, monotony, the sum of two functions and of a multiple.

The vault's lemmas are reused for the composed system: a sale's step changes the
vault by recording, minting, burning or starting, and each of these keeps
`VaultInv`.

Proving changed the model where it was wrong or hid something. The premise of
`FrozenWithinBalance` named the wallets an agent had touched; that a burn followed
by a recovery hands the excess on to another wallet, two direct moves where the
run has one, came out in the proof, and the history is now `burnt` and
`recovered`. Assumptions on constants that proofs turned out to need, and the
code meets, are now named (`AuthAssumption`: `_BLACKLIST_TTL`, the refresh
token's lifetime and 60 s, outlives access, MFA and refresh tokens; finite sets of
people). Where the code keeps a list only for its length or its end, the model has
a set (`windows`) or a suffix (`record_failure`).

Left to TLC: liveness under fairness (`EveryoneSettled`, `EventsSettle`), which
the prover does not handle, and the three runs that refute a document.

## 7. Reading order

`Crowdfund`, then `CiretaVault`, `Sale` and `SaleProofs` from its invariant
down; `SaleBackend` stands on `Crowdfund` alone. The other backend modules are
independent of each other.

## 8. What is left out

* UUPS upgrades, ownership and role administration: a caller with the role is
  any caller, its effects are what is modelled.
* Direct transfers of USDC to the sale contract (they would go to the issuer at
  success and stay in a failed sale), and contributions of zero.
* A batch of `VestingVault` names a beneficiary once.
* Two blocks of one timestamp: the clock may stand still between steps, which
  has the same effect.
* Several sales in one database: the listener matches wallets over all of them,
  which one sale cannot show.
* The compliance modules of the project token and the identity and claim
  registries: `Compliance` and `Kyc` use their answers (verified or not, transfer
  allowed or not) and not their storage.
* Factories, fee manager and registries on the chain: one write each, with no
  protocol behind it; `Issuance` models what the backend does around them.
* Off-chain dividends: the service reads an attribute its model class does not
  have, so its distribution cannot run to its end.
* Worker tasks that nothing schedules (`cron_jobs` is empty), the cache helper
  and the HTTP base client, which nothing calls.
* Settings, reports, notifications, e-mail, front ends and the subgraph: input
  and output, or one write from one request.
