# TLA+ specifications of YieldAnchor

This directory specifies the core of the YieldAnchor protocol: the YieldVault contract, the
indexer that follows it, the client that submits calls to it, the script that deploys it, the
script that exercises it on Testnet, and the web application with its wallet connection. TLC
checks each part on small instances; TLAPS proves the accounting of the contract and the
safety of the indexer, the client, the deployment, the round trip and the wallet connection for
every instance.
Paths below are relative to the repository.

## 1. The system

| Component | State it keeps | Operations | What is hard about it |
| --- | --- | --- | --- |
| YieldVault contract, `contracts/yield_vault/src/lib.rs` | configuration, one accounting record (principal, accrued yield, carried fraction, shares, time of the last accrual, paused), a share balance per holder | initialize, deposit, redeem, withdraw, accrue_yield, pause, unpause; conversion and liquidity views | three roundings that must all favour the vault, yield that accrues with time before every call, yield with no tokens behind it, checked arithmetic that still admits negative values |
| its 128-bit multiply-divide, same file 618-676 | registers of a loop | one call | carries, doublings and overflow without an intermediate product |
| Indexer, `services/indexer` | cursor and ledger in memory; `vaults`, `vault_events`, `indexer_checkpoints`, `pool_snapshots` in the database | start, poll, project, save the checkpoint | asynchronous requests that fail, crash and land late; a timer that overlaps; a window of retention |
| API, `services/api` | none | pool statistics, a vault, a list of its events | reads of a log that is written in pieces |
| Contract client, `packages/contract-clients` | none between calls; per call a transaction, per submission a poll count | build, simulate, sign, send, confirm | lost and late answers, expiry, an RPC behind the ledger, the vault moving between simulation and execution |
| Deployment, `scripts/deploy/deploy-yield-vault.ts`, `scripts/lib/testnet.ts`, `packages/contract-clients/src/deploy.ts` | a key file and a recorded contract id | fund, upload, create, initialize, verify, record | a failure between any two steps, late transactions of a run that gave up, others using the contracts |
| Testnet round trip, `scripts/testnet/round-trip.ts` | what it has read | deposit, accrue twice, redeem what is there, with checks | figures that are stale by the time they are compared or used |
| Wallet connection, `apps/web/src/components/wallet/FreighterWalletContext.tsx` | React state (key, installed, connecting, error), a reference to a running watcher | detect, handshake, watch, connect, disconnect | asynchronous activities that share one flag and one reference and cannot be cancelled |
| Pages, `apps/web/src/app/App.tsx` | the screen, a typed key, the pool figures | move between screens, connect, type a key, poll the API | an effect that moves the user while the wallet connects and disconnects on its own; answers that overtake each other |
| Database schema, shared packages | tables; none | | see section 7 |

They interact as follows. A page or a script calls the client; the client simulates and
submits through the RPC; the ledger executes the contract, which moves tokens of an external
SEP-41 asset and publishes events; the indexer fetches the events from the RPC and writes
them to the database, which the API reads and the page shows. The wallet signs, and tells the
page who the user is. The deployment script writes the contract id that the indexer, the round
trip and the page are configured from. Nothing flows back from the indexer to the contract.

What makes each part correct:

* vault: no call dilutes other holders; total and balances agree; nothing goes negative; views
  say what calls do; a funded vault can always be left; the events tell the whole story;
* indexer and API: the stored log has no holes, the cursor never passes an event that is not
  stored, every event arrives in the end, and a list of events has no hole; a start without a
  checkpoint breaks the first and the third, and each property names that exception;
* client: what it reports happened, a call takes effect at most once, calls made one after the
  other do not collide, a submission always returns;
* deployment: the recorded vault is one the script initialized, no funded key is lost, and a
  script that is started often enough succeeds;
* round trip: its checks raise no false alarm, and the redemption it sizes is executed;
* wallet and pages: no watcher outlives the connection it serves, the button comes back, the key
  shown is the wallet's, the screen follows the key, and the pool figures catch up.

## 2. Modules

| Module | Models | Source |
| --- | --- | --- |
| `VaultMath` | the results of the contract's checked arithmetic, and when they fit | lib.rs 10-16, 517-532, 610-637 |
| `MulDivLoop` | `mul_div_parts`, one action per half iteration | lib.rs 631-676 |
| `YieldVault` | the contract: one action per successful call, the clock, the operator's transfers | lib.rs 40-608 |
| `YieldVaultProperties` | its properties and the refinement mapping | |
| `SharePool` | what a share vault promises, abstractly | |
| `Indexer` | the watcher, its projection and its checkpoint, and the reads of the same tables; RPC and database external | indexer: watcher.ts, checkpoint-store.ts, decoder.ts, vault-repository.ts; api: vault-repository.ts |
| `PoolStats` | the figures of the pool from the table to the screen | indexer: watcher.ts; api: pool.ts; App.tsx |
| `VaultClient` | build and submit; network and vault external | client.ts, errors.ts |
| `DeployPipeline` | the deployment script with its library and the client's deployment helpers; network, Friendbot and file system external | deploy-yield-vault.ts, testnet.ts, deploy.ts |
| `RoundTrip` | the round trip; extends `YieldVault` | round-trip.ts |
| `FreighterWallet` | the wallet context; extension external | FreighterWalletContext.tsx |
| `WebApp` | the screens; extends `FreighterWallet` | App.tsx |
| `MCYieldVault`, `MCIndexer` | instances for TLC | |
| `VaultMathLemmas`, `MulDivLoopProofs`, `YieldVaultProofs`, `RoundTripProofs`, `IndexerProofs`, `VaultClientProofs`, `DeployPipelineProofs`, `WebAppProofs` | proofs | |

Conventions. An operator whose comment begins "Faulty variant" is the definition after it with
a plausible mistake; nothing uses it, and substituting it shows that a property can fail.
Variables called ghost in their declaration record history and influence nothing.

**YieldVault.** Soroban rolls a failed call back, its accrual included, so an action is a
successful call and every early return is a negated conjunct of its guard. `acct` is the
`Accounting` record, `shareOf` the `DataKey::Shares` entries, `token` the asset's balances,
`emitted` the events of the latest transaction. `redeem` and `withdraw` share `settle_redemption`
(`Settlable`, `PayOut`, `Settle`). i128 is `0 .. MaxI`, with -1 for every negative argument.
Rate and year are constants so that a small instance still carries fractions. The
administrator's authorization is in the choice of the actor; the contract keeps no other role.
Accruals that publish nothing, on a vault without principal, still move `lastTs`.

**Indexer.** `run` holds the executions of `poll`, each between two awaits: `fetch`, `vault`
(upsert of the metadata), `insert` (event rows), `save` (checkpoint), `snapshot` (the pool
figures, whose table is in `PoolStats`). `inFlight` is the guard;
more runs exist than the guard admits, so that its absence would show. A write whose answer was
an error, or was lost in a crash, stays in `stray` and may land at any later moment. An event
is its position in the contract's history `Feed`; a cursor is a position and its ledger.
A start that finds no checkpoint begins at the latest ledger, and what it passes over is never
asked for again. The ghost `skipped` collects these events, so that a property can tell them
from events lost in any other way (`StoredOrSkipped`). They need not be older than the stored
ones: a process that stores an event, dies before its first checkpoint and starts anew may
have stored 1 and 4 and passed over 2 and 3. A reader then finds a burn without its mint.
`GetVault` and `ListVaultEvents` are the answers of the API's repository in a state.

**PoolStats.** A snapshot is its position in `pool_snapshots`; 0 is no row. `request` holds the
requests that are open between page and API, whose two queries are two steps.

**VaultClient.** `built` is a transaction from `getAccount` to the end of the simulation, `sub`
a use of `signAndSend`. One transaction may be signed and sent by several submissions. A value
a call returns is represented by the vault state it depends on, so that a value from the
simulation and one from the execution are different.

**DeployPipeline.** `script` is the running script, at the await (or the file operation) it has
reached, with its locals. A file write empties the file and then fills it, in two steps.
`Interrupted` is an exception or a crash: for what either leaves behind they are the same.
`sent` are transactions that may still execute; a process that ends stops awaiting them.
Creation and initialization are two transactions, with `OthersAct` between them.
It is the TypeScript script that is modelled. The run has no injected key, so that every run of
the script reads or makes its own; the theorems hold for an injected one as well.

**RoundTrip.** The contract's own actions are the transactions of the script; each read is a
step, so that ledgers close and others crystallize yield between reading and using. A check that
fails is recorded in `failed`, as in the source, and the script goes on. The constants of the
source that are amounts of seven decimals are constants of the module. The script's check of the
final state assumes that it is the only holder; so does the model. Three assumptions say what
the amounts of the source have in common: they are far from the limits of i128
(`SizeAssumption`), a deposit earns a unit while the script waits (`WaitAssumption`; 1000 tokens
of seven decimals earn some 25 units a second) and the margin has no fewer units than seconds
(`MarginAssumption`; 1000 and 300). With a `DEPOSIT_AMOUNT` of a few base units the second one
is false, and the check that yield has accrued fails on a vault that works.

**FreighterWallet and WebApp.** `rendered` is the value of `isInstalled` the effects have run
for; the two effects that depend on it run, in their order, in one step. `running` are the
watchers that run, `ref` is `walletWatcherRef.current`. `WebApp` adds the screen, the typed key
and the effect `Navigate`; a click is possible once the effect has nothing to do (`Routed`).
The user does not switch accounts twice within one interval of a watcher (`SwitchAccount`).

## 3. Runs

| Run | Shows | Bounds |
| --- | --- | --- |
| `mul_div_loop` | the loop is exact, overflows only when its quotient does, and ends | every argument in -1..15 |
| `vault` | types, conservation, backing, principal, rounding, views, exit, accrual, shortfall, events, refinement of `SharePool` | 2 users with 3 units, i128 up to 9, rate 2/3 per second, 3 seconds, 1 unit of outside liquidity |
| `indexer` | no cursor ahead of the log, no hole in the log or in a list, the vault's row before its events, and that every event is stored, under failures, crashes and late writes; but for what a start without a checkpoint passes over | 4 events, 4 ledgers, pages and lists of 2, 2 failures, 1 crash, 1 late write |
| `client` | reports, single effect, fresh sequence numbers, termination | a deposit and a redemption, 2 submissions, 2 polls |
| `web` | one watcher, the button, the key, the screen | 2 accounts, 2 overlapping calls of connect, 2 watchers, 2 retries; a key, another text and blanks to type |
| `deploy` | the recorded vault, the key, completion | 2 keys, an administrator set or not, 2 contracts, 3 mishaps, 2 acts of others |
| `pool_stats` | the figures become, and stay, those of the last snapshot; older ones may be shown before | 3 requests open at a time, 3 snapshots, 2 failures |
| `round_trip` | no false alarm, and the margin suffices | 2 runs, deposits of 60 or 200, a yield of 1/20 a second, 7 seconds |
| `principal_fully_backed`, `restart_skips_nothing`, `null_when_disconnected`, `accrual_matches_rate` | a statement of the repository that the code does not keep, see section 5 | those of the run they belong to, or smaller |

Why the bounds are enough. The vault's instance contains fractions that complete a unit and ones
that do not, yields larger than the principal, withdrawals that round up to the whole supply,
liquidity below, at and above the claims, and overflowing sums and products; the proofs then
cover all instances. Two users are the fewest who can take from each other. The indexer's four
events include one that the decoder ignores and a burst longer than a page and than a list; a
third failure or a second crash only repeats a step from a state like one already reached, as
nothing counts them, and the proofs of its safety bound neither. In the client two submissions
are what it takes to send one transaction twice, or two in competition, and two polls give one
in the middle and a last one. In the wallet two calls of connect next to the handshake are what
shares the flag, two watchers are what could run side by side; the code's three retries differ
from two in number only. In the deployment a run that fails, one that fails because of what the
first left, and one that succeeds need two contracts and three mishaps. In the round trip the
second run finds a vault that a first has drained to its margin or has left half way; the two
deposits make both `RedeemableShares > 0` and its opposite happen, and seven seconds let ledgers
close at every point where it matters, beyond the margin included.

Symmetry is used for the vault's users only, whose run has no liveness property.
Deadlock is checked where the system cannot stop (`vault`, `client`, `pool_stats`); the loop
returns, the indexer's instance runs out of ledgers, the scripts come to their end, and a page
whose extension has gone is idle.

## 4. Fairness

* `MulDivLoop`: sequential code, a call that can step does.
* `Indexer!FairSpec`: the event loop runs what is ready, every request is answered in one way or
  the other (by its own timeout at the latest), the interval timer fires again and somebody
  restarts a process that has ended. No fairness for ledgers, crashes, failures or late writes.
* `VaultClient`: time passes and a request that was sent is answered. Nobody needs to sign, the
  network needs to apply nothing, and the RPC needs to ingest nothing.
* `DeployPipeline!FairSpec`: the operator starts the script while nothing is recorded, the
  script goes on, and the network and Friendbot execute what they have accepted and not dropped.
  Mishaps are bounded; none is required.
* `FreighterWallet`: React runs effects, the timers of handshake and watcher fire, and the
  extension answers as long as it is there, which includes the user's decision in its prompt.
  No button needs to be pressed, nothing says that a request succeeds. `WebApp` adds that
  React runs `Navigate`.
* `PoolStats`: the page's interval fires again and a request is answered or fails. Snapshots
  need not be taken, and failures are bounded.

## 5. Disagreements between the code and what is said of it

* `PrincipalFullyBacked` (docs/deployment/testnet.md:104): a redemption pays accrued yield out of
  the tokens deposited as principal by others. What does hold is `ShortfallIsUnfundedYield`.
* `RestartSkipsNothing` (database/migrations/002_create_protocol_tables.sql:50): a crash before
  the first checkpoint makes the next start anchor at the latest ledger. What does hold is that
  nothing else leaves a hole (`OnlyStartsLeaveHoles`) and that the log is one stretch of the
  history until such a restart happens (`LogIsContiguous`, proved).
* `NullWhenDisconnected` (FreighterWalletContext.tsx:31): a request for access that is open at
  the moment of disconnect sets the key again when it is answered.
* `AccrualMatchesRate` (scripts/testnet/round-trip.ts:60): the accrued yield that is read includes
  what fell due since the accrual, the time it is compared with does not. A ledger that closes
  in between fails the check on a correct vault.

Noticed while modelling, and in the models, without a run of their own:

* `ADMIN_ADDRESS` other than the deployer (scripts/deploy/deploy-yield-vault.ts): initialize
  needs the administrator's authorization and the script signs with the deployer's key only, so
  the transaction fails on chain after upload and creation (`Submittable`, `Succeeds`).
* A key file whose writing was cut short stops every later run, as it is not valid JSON
  (scripts/lib/testnet.ts); `DeploymentIsRecorded` names the case.
* Disconnecting with a text in the field of the typed key leaves the dashboard open for that text,
  be it a key or not (App.tsx, the effect compares what was typed only with the empty string);
  `ScreenFollowsKey` is stated for the key that the dashboard uses.
* The claim "vault claims >= token holdings" of the round trip (round-trip.ts:169) fails once
  somebody has supplied liquidity ahead of the yield, and `last_ledger` of the checkpoint
  (database/schema/README.md:60) is the latest ledger also after a full page, whose events end
  before it.
* `VaultSubmissionError` (packages/contract-clients/src/errors.ts:64) is raised, too, for a
  transaction that nobody has seen yet and that may execute.

## 6. What is proved

For every value of the constants, so for every number of users, events, runs, failures,
crashes and late messages:

* `MulDivLoopProofs`. The loop invariant (`LoopInv`) states that the partial sum and the terms
  still to be added make up the product and that remainders stay below the denominator; with
  the registers' ranges, and with the statement that a loop that failed had a quotient that does
  not fit, it is inductive. A failing sum or doubling is part of the product, which is what
  makes its overflow the quotient's. `LoopTypeCorrect`, `LoopResultExact`, `LoopOverflowExact`
  follow; they justify the closed forms of `VaultMath`.
* `YieldVaultProofs`. `IInv` says that the accounting record is `Sound` (in range, no share worth
  less than a unit, claims and shares run out together, no fraction without principal) and that
  the balances add up to the supply. Soundness alone is not inductive: a redemption subtracts
  shares from a supply it is never compared with. One lemma on each of accrual, deposit and
  settlement shows that they keep a record sound, one on adding and one on removing units of a
  holder carries the sum. `VaultTypeCorrect`, `VaultSharesConserved`, `VaultSharesBacked`,
  `VaultRemainder` follow. `VaultPrincipalOutlastsShares` comes last: the split of a payout
  charges its rounding to the principal, and still there is a unit of principal for every share,
  as the principal paid is the exact part rounded up, the shares burned are at least theirs
  rounded up, and what such a rounding leaves of a larger number is no less than of a smaller.
  Each call is then reduced to its effect on claims, supply and tokens; from the effects follow
  `VaultShortfall`, `VaultImplementsPool` (every step is a step of `SharePool` or a stutter) and,
  through the pool, `VaultPriceNeverFalls`.
  Views and calls: `VaultQuotesAreHonoured` compares the view's arithmetic with the call's, also
  where the accrual does not fit. `VaultAccrualScheduleIrrelevant` is an exact division
  (`YieldPartsExact`): two accruals in a row divide as one does. `VaultMaxRedeemableIsExact` rests
  on `LargestPayable`, that rounding up and stepping back hits the largest payable number, and
  `VaultFundedHolderCanExit` on the split of a payout never exceeding its parts.
  `VaultNoFreeRoundTrip` follows a deposit and a redemption, in both orders, through two
  roundings (`DepositThenRedeem`, `RedeemThenDeposit`). `VaultEventsExplainState` reads the log of
  each call back (`CallLog`) and compares it with the effect of the call.
  The lemmas about division and conversion are in `VaultMathLemmas`.
* `RoundTripProofs`. That no check fails is far from inductive: a check compares what was read at
  one stage with what is read at a later one, and ledgers and other callers come in between.
  `TripInv` says, for each stage, how every record still to be used relates to the vault as it is
  now: `StartSeen`, `DepositSeen`, `PositionHeld`, `YieldSeen`, `SizeSeen`, `RedemptionSeen`. Reads
  round the accrued yield, so it is followed exactly, in fractions of a unit
  (`AccruedFractions`, which crystallizing does not change); `OnlyHolder` says that the script's
  position is all of the vault, and `YieldBounded` bounds the yield by what the runs can have
  deposited, without which accruals could overflow. `TripInvariance` is its theorem.
  `TripImplementsVault` shows that the script does nothing to the vault but call it, which brings
  in the theorems about the vault. `TripMarginSuffices` follows with the arithmetic of the margin
  (`MarginCovers`): the shares left out for it are worth more than the yield that can be added.
  `TripChecksHold`: every check holds but perhaps `rate` and `rateAgain`, which section 5 is about,
  and `drained` and `recovered`. These two do depend on the amounts: shares are whole, sizing
  rounds by up to three of them, and a share that is worth a third of `MarginUnits` or more makes
  that too many tokens. `TripNoFalseAlarm` proves them, and so `NoFalseAlarm`, under the hypothesis
  `RedemptionAffordable`, that executed redemptions are of shares below that price and that the
  fee allowance covers the margin. In the source that is a price of 333 for a share that starts
  at one, and a margin of some 8500 units against an allowance of ten million; in the instance
  of `round_trip` TLC finds the hypothesis true in every state, as `NoFalseAlarm` is. It is a
  hypothesis and no consequence of the constants, as the rounding of each earlier run raises the
  price a little.
* `IndexerProofs`. That only starts leave holes is not inductive: it must be known of a run at each
  of its awaits what its batch and its next cursor are worth, and the same of every late write.
  `IInv` therefore consists of the types, the order of the chain (`Sorted`), what is in the
  database (`StoredOK`), what may still land (`StrayOK`) and what the process holds (`MemoryOK`:
  `Resumes` for its cursor, `Solo` for the guard, `RunOK` for each run). A page is shown to
  reach from its cursor to its own (`CursorOK` of the next cursor relative to the batch). From it
  follow `IndexerTypeCorrect`, `IndexerCursorNeverAhead`, `IndexerOnlyStartsLeaveHoles`,
  `IndexerLogIsContiguous`, `IndexerVaultRowFirst`,
  `IndexerListingHasNoHoles` and `IndexerCursorMovesForward`.
* `VaultClientProofs`. `CInv`: every envelope of a transaction has the one sequence number it
  was built with (`OneNumberPerCall`), the ledger has one result per number up to the account's
  (`LedgerInOrder`), of built transactions only (`NothingForged`), the RPC is behind it
  (`RpcBehind`), and what a submission reports the RPC knew (`ReportedIsKnown`).
  `ClientTypeCorrect`, `ClientReportsAreTrue`, `ClientEffectAtMostOnce` and
  `ClientNextCallIsFresh` follow.
* `DeployPipelineProofs`. `KeyInv` relates the key the script holds to the file it was read from
  or written to, from which `DeployKeyIsKept`; `VaultInv` says of a script past the creation
  that its contract exists, and past the verification that it has the script's administrator,
  which no later transaction changes (`AdminsStay`); `SentInv` ties the transaction the script
  awaits to the step it is at. `DeployRecordIsOurs` follows, over the types of `DeployTypeCorrect`.
* `WebAppProofs`. `WatcherIsHeld` needs that no watcher is held before the effects have seen the
  extension (`WatchInv`): a call of connect that could start one has an answer only afterwards.
  `WebTypeCorrect` needs that a request is made only while a retry is left.

Assumptions: those named `...Assumption` and `InitializedOnce` in the modules (the type has a
largest value, the denominator is positive, users are finitely many and differ from the vault,
the contract's initialize succeeds once, model values that stand for nothing are none of the
things they are compared with, and the three of the round trip that section 2 explains). TLC
evaluates them in the runs of those modules.

Only model-checked: all liveness (`Terminates`, `EveryEventIsIngested`, `EverySubmissionReturns`,
`ConnectingEnds`, `KeyFollowsWallet`, `ScreenFollowsKey`, `DeploymentIsRecorded`,
`FiguresCatchUp`), and `NoFalseAlarm` without the hypothesis of its theorem, which does not hold
of arbitrary amounts. Liveness under fairness and ENABLED are out of reach
of the prover, and so is induction over data; no module uses a recursive operator.

## 7. Not modelled

* The indexer without a database (nothing is kept then), its configuration and its log; of the
  decoder only whether it recognises an event.
* Single reads of the client (`simulateRead`), decoding of XDR values, `packages/stellar-utils`,
  schemas and constants: pure conversions without state.
* API: the transactions route, a read of a scaffold table that nothing writes; the server's set-up.
* Of the pages layout and wording; deposit and withdraw are stubs that show a message.
* Unmounting the wallet provider: it wraps the whole application.
* Metadata of the vault (name, symbol, decimals): checked at initialize, stored, read by nothing.
* Types and row-level security of the database schema.
* Transaction fees of the round trip, which its `FEE_ALLOWANCE` stands for.
* Contracts other than the vault: empty directories.
* `scripts/deploy/deploy-yield-vault.sh`, the deployment through the stellar CLI, which shares
  nothing with the TypeScript script: the CLI keeps and funds the key and sends the transactions;
  the script stops at the first error, verifies only that the vault is initialized, and writes
  its record line by line.
* Two hazards have no property: sums of principal and accrued yield that no longer fit in i128
  (the vault's arithmetic then refuses every call; no token has such a supply), and a request of
  the indexer that is never answered (the code sets no timeout; the fairness assumes the one of
  the HTTP client).

## 8. Plan

1. `VaultProjection`: the vault's events through the indexer's log, and the positions a reader
   derives from it at any moment, composed from the two modules; `VaultEventsExplainState` and
   `IndexerOnlyStartsLeaveHoles` are the lemmas it would rest on.
2. An abstract log that only grows, for the indexer to implement, and a proof that it does.
3. A bound on the price of a share after a number of round trips, which would turn the
   hypothesis of `TripNoFalseAlarm` into an assumption on the constants.

## 9. Running

    tlc -config MCYieldVault.cfg MCYieldVault.tla
    tlapm YieldVaultProofs.tla

and likewise for the other modules; `PROJECT.json` names each run with its configuration, and
for every definition the lines of the source it models.
