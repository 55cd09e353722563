# Verification of the delta-neutral yield vault

TLA+ models of the contracts, services and pages of this repository, the TLC
runs that check them on small instances, and TLAPS proofs of the properties that
matter most. `PROJECT.json` lists the runs, the theorems, the lines of the source
each definition stands for, a mutant of the code for every property, and the
hazards the properties are aimed at.

## The system

An ERC-4626 vault takes USDC and hands it to a strategy that buys WETH, lends
it, and hedges it with a perpetual short. A keeper rebalances it; fees are taken
by minting shares; a guardian can pause it or shut it down. A backend indexes the
events, stores snapshots, raises alerts and serves an API; a dashboard shows it
and sends depositors' transactions; a simulator replays the strategy off chain.

| Component | State | Operations | Interacts with |
|---|---|---|---|
| `DeltaNeutralVault` | idle cash, shares, cap, pricing window | deposit, mint, withdraw, redeem, redeemWithUnwind, accrueFees, pushToStrategy | strategy (NAV, liquidity, delivery), fee manager, emergency flags |
| `FeeManager` | rates, recipient, last accrual, high-water mark | accrue, setFees, setFeeRecipient | called inside the vault's transactions |
| `EmergencyController`, `AccessRegistry` | roles, two pauses, shutdown | pause and unpause, tripCircuitBreaker, emergencyUnwind | gates every entry; tells the strategy to unwind |
| `MockPerpetualMarket`, `PerpMath` | account, funding index, pool, insurance, open interest | trade, margin transfers, funding, ADL, liquidate | price feed; the adapter |
| `PerpAdapter` | mark entry, slippage ledger | depositMargin, withdrawMargin, trade | the venue and the strategy |
| `MockLendingProtocol`, `LendingAdapter` | index, scaled balances, debt; principal and interest | supply, withdraw, accrual | strategy |
| `OracleManager`, `MockAggregatorV3` | feeds with rounds, last good price, shutdown | read, poke, setFeed, setShutdown | everything that values or trades |
| `StrategyManager`, `PositionManager` | capital ledger, spot PnL | executeRebalance, unwindFor, withdrawLiquid, emergencyUnwind, snapshot | all venues |
| `RiskManager` | limits, peak share price, last level | checkpoint, validateRebalance | position manager, emergency controller |
| `RebalanceManager` | targets, bounds, cooldown, volatility | checkUpkeep, performUpkeep, observeVolatility | strategy, risk, vault |
| Keeper, indexer, snapshots, alerts | database rows, watermark | polling loops | the chain and the database |
| API | state cache, scenario cache, stored runs | HTTP requests, simulations | chain reader, database, simulator |
| Simulator | none that persists | engine, planner, scenarios, optimizer, Monte Carlo (the last not modelled) | the API |
| Frontend | query cache, wallet, local storage, forms | polls, buttons, transaction sequences | the API, the wallet, the chain |

### What is hard

* Contract calls are atomic, so concurrency on chain is the order of
  transactions: users, the keeper, admins, the guardian, third parties who
  liquidate, and prices move in every order between two calls.
* All money is integer arithmetic with a chosen rounding at each step. The
  properties about value are properties about the direction of every rounding.
* Three copies of one position (venue, adapter, strategy ledger) change at
  different moments, some behind the others' backs (ADL, liquidation).
* Values are cached or stored and used later: last good price, high-water mark,
  peak share price, mark entry, funding index; off chain the API's state, the
  queries of the pages and the plan that was previewed.
* Venues and feeds fail one by one, and the code degrades in a different way for
  each: a fallback, a best-effort leg, a revert.
* Off chain, reads are not atomic with the transactions they lead to, processes
  crash between two writes, requests overlap, and a user switches wallets or
  leaves the page in the middle of a sequence.

### What makes each component correct

* Vault and fees: nobody's call lowers the price of a share; a gain or a period
  is charged once; limits never promise what cannot be paid; nothing is priced
  on an untrusted NAV.
* Emergency: a shutdown is final; only an admin relaxes a pause.
* Perpetual venue: the collateral equals the claims; margin is explained by the
  statistics; a trade never makes itself liquidatable; time is priced at the
  rate that held.
* Lending: solvency towards every supplier. Oracle: no price the market never
  had, and one confirmed feed is enough.
* Strategy: the leaver bears the cost of leaving; the attribution explains the
  NAV to the last unit; an emergency can always be completed.
* Risk and rebalance: what was previewed is what is done; urgency is not held up;
  nothing is left to do afterwards; an alarm is about the market, not the oracle.
* Backend: rows reflect the chain; one active alert per key; answers are as
  fresh as promised; what is due is done. Views agree with the contracts.
* Frontend: a step never overtakes another; a panel says what happened; a
  failure is marked. Simulator: the same identities as on chain.

## Modules

State variables and actions carry the names of the source. In every module a call
that the code refuses or reverts is a step that is not enabled, and history
variables are named in a comment. Operators under a comment that begins with
"Mutant:" are plausible bugs; `PROJECT.json` pairs each with the property that
notices it. `MC...` modules hold values for TLC and put several components in one
run (see Runs), `...Proofs` modules hold theorems.

### Contracts

| Module | Models |
|---|---|
| `FixedPoint` | units and rounding helpers, with the lemmas on floors, ceilings and products every arithmetic proof cites |
| `PerpMath`, `PerpPosition` | `contracts/libraries/PerpMath.sol`; a position through any sequence of fills beside the cash that really moves |
| `PerpMarket` | the perpetual venue and the adapter in front of it |
| `EmergencyController` | roles and flags, one action per function with its caller |
| `Vault` | the fee manager as a record, and the vault, one action per entry point |
| `LendingMarket` | one reserve of the lending venue and the lending adapter |
| `OracleManager` | two feeds, validation, fallback, last good price, shutdown |
| `StrategyBook` | the books of the strategy, its adapters and the position manager: each step an operator from a book to a book |
| `StrategyManager` | the strategy's calls over that book, with what happens outside |
| `RebalancePlan`, `RebalanceManager` | the decision (operators), and upkeep, observation, targets and deposits around it |
| `RiskManager` | assessment, checkpoint, events, peak and breaker, and the risk page; composes `RebalanceManager` and `OracleManager` |

**PerpMarket.** `m` is the venue's storage, `balance` the collateral token it
holds, `wallet` the adapter's side, `adapter` the two ledgers of `PerpAdapter`. A
price of 0 stands for a feed that cannot be read: every path that calls
`markPrice` is then disabled, the ones that skip it stay enabled, as in
`_pendingIndex`. `openMarks` is the history of the marks the position was built at.

**Vault.** One transaction is one step, because the pricing window opens and
closes inside it. The strategy is the environment: `nav`, `liquid`, `dependent`
(it holds a position that needs a price), `healthy` (the oracle answers). Between
two transactions they move nondeterministically. The model takes two promises
from the strategy: `withdrawLiquid` returns up to what is liquid at no cost, and
`unwindFor` delivers at most what it is asked for while the NAV falls by at least
the delivery and at most the request; `QuotedIsDelivered` and `RemainingUndiluted`
of `StrategyManager` are these promises, checked there. `withdraw(0)` and
`redeem(0)`, which only accrue, are `AccrueFees`; `Holders` are owners and receivers
at once (allowances are the token's); a donation of cash is a NAV move to the
share price. `profit` and `emptied` are history.

**LendingMarket.** `r` is the `Reserve` with the pool's tokens as `r.cash`;
borrowers are a virtual debt, as in the source. `Accrued` is the reserve after
`_accrue`, which is also what every view projects. `net` is history.

**StrategyBook, StrategyManager.** A book is one record with the ledgers of the five
contracts; `ok` turns FALSE where the source reverts, and a step with `ok` FALSE is
not taken. The lending venue keeps exact balances here, its roundings being
`LendingMarket`'s subject, and the perpetual venue is as deep as the pool needs.
The emergency unwind tries each leg, and a leg whose venue does not answer or
whose bounds are missed leaves the book as it was, as the `try` blocks do.

**RebalanceManager.** The planner sees a snapshot of the book, the context and the
parameters; `performUpkeep` observes the volatility, plans again, trades through
`StrategyBook`, and passes the checks of `validateRebalance`. `upkept` is history:
what the last step did. The square root is that of OpenZeppelin, bit by bit.

**OracleManager.** A feed is its last round and the answer of the one before. A round
may be malformed or off the market, a feed down or in other decimals. What may go
wrong at once is bounded to one faulty round (`FaultAssumption`): the deviation
check compares consecutive rounds and promises nothing when two are wrong.

**RiskManager.** The rebalancer over the oracle. The venue marks at the first feed's
answer as it is, the strategy at the oracle's price: the two part while a round is
rejected, and the model keeps them apart. A checkpoint is a transaction of its own or
the end of an upkeep. On purpose left out of `RiskNext`, because other modules are
about it: an observation without an upkeep, changed targets, liquidity that is lent
out, pauses of the strategy, withdrawals, fees and the shutdown of the whole system;
funding does not accrue between two steps.

### Backend

| Module | Models |
|---|---|
| `Keeper` | the loop and the five calls of a tick: simulate, estimate, send, await the receipt, record |
| `Indexer`, `EventStore` | chunks of logs, rows, watermark; the abstract store they implement |
| `Snapshots` | fifty reads at one block, three tables, one transaction |
| `Alerts` | the sync of alert rows against conditions that change |
| `Views` | risk as contracts, API and alert rules each derive it; thinned series, trailing yields, drawdown, daily returns |
| `ApiCache` | concurrent requests, the cached state, the scenario cache, outages |
| `Reports` | views of one block and the pages drawn of them, EXTENDS `StrategyManager` |
| `Dashboard` | the history of rebalances, and what API and pages tell of the rebalancer (plan, history, summary, estimate), EXTENDS `RebalanceManager` |

In these modules an await is the end of a step: between two of them other processes
run, blocks are mined, a query fails or the process dies. The database is atomic
per statement, or per transaction where the code opens one. What a read returns
is reduced to the block, or the time, it is about.

### Simulator

`SimModel` (book, accrual, venues, triggers, plan, execution),
`SimEngine` (the loop over a path chosen point by point), `SimExperiments` (the
catalogue, custom requests, the grid search and the card that recommends a point;
points are four hours apart, scenario F, a random path, is left out, and of the
eighteen metrics of a run the five that are compared are kept). The source computes in floats;
the models in scaled integers whose products stay below 2^31, and the properties
allow for the truncation by a tolerance written in each.

### Frontend

`Wallet` (buttons, local storage, restoration beside wagmi's own reconnect pass),
`DepositorPage` (the runner of transaction sequences with its cached reads),
`SimForms` (both simulation cards, the lookup, the endpoints and the table of
stored runs), `Panels` (queries, polls, retries, the refresh after a transaction,
ranges, the banner). React and react-query are external: they are modelled from how
the components use them, and marked so in the map.

## Runs

Each run asks one group of questions. Components that share no state are
checked in one run by choosing at the start which of them moves: `subject` names
it, the others rest in their initial state. Nothing is lost by that, since a
behaviour of two independent components is an interleaving of one behaviour of
each; every property of such a run speaks of its own subject only.

| Run | Configuration, module | Question | Result |
|---|---|---|---|
| `perp_market` | `PerpMarket.cfg`, `MCPerpMarket` | Do the venue's books, its statistics and the adapter's entry stay consistent over every order of transactions, prices, rates and ticks, and is no accepted trade liquidatable at once? Is average-entry accounting worth the cash it stands for? | holds |
| `vault` | `Vault.cfg`, `MCVault` | Does any sequence of two holders' calls lower a share's price, charge a gain twice or promise what is not paid? | holds |
| `lending` | `LendingMarket.cfg`, `MCLendingMarket` | Does the pool stay solvent, pay what it shows as withdrawable, and do principal and interest explain the adapter's balance? Which calls relax a pause? Are the rows of the keeper true, and is what is due done after any finite number of failures? | holds; only an admin's |
| `strategy` | `Strategy.cfg`, `MCStrategyManager` | Does the profit and loss report explain the net asset value whatever is traded or fails, is what is quoted delivered, do the views agree, and does the emergency unwind come to its end? | holds |
| `rebalance` | `Rebalance.cfg`, `MCDashboard` | Is what a keeper is shown what its transaction does, does urgency come first, does a plan that is due work, and do history and costs tell it? | holds |
| `risk` | `Risk.cfg`, `MCRiskManager` | Does one faulty round get into a price that is served, do the checkpoints, events and the breaker tell one story, and is danger assessed as danger? | holds |
| `backend` | `Backend.cfg`, `MCBackend` | Do the tables hold each log once and each snapshot of one block, is every alert opened and resolved for a reason, do all of them keep up, and do the derived figures say what tables and contracts say? | holds |
| `offchain` | `Offchain.cfg`, `MCOffchain` | Is what the pages show, send and remember true while requests overlap, accounts switch and answers are lost, and does every sequence end? Does the simulated book add up, does the simulated keeper act as the contracts would, is every scenario survived and the best point the best? | holds |
| `vault_max_redeem` | `VaultMaxRedeem.cfg`, `MCVault` | Can everything `maxRedeem` promises be redeemed? | no: see Findings |
| `vault_phantom_fee` | `VaultPhantomFee.cfg`, `MCVault` | Are performance fees bounded by profits? | no: see Findings |
| `strategy_bad_debt` | `StrategyBadDebt.cfg`, `MCStrategyManager` | Are the bars of the profit page signed as they hit the net asset value? | no: see Findings |
| `rebalance_high_target` | `RebalanceHighTarget.cfg`, `MCDashboard` | Is nothing urgent right after a rebalance to a target the bounds admit? | no: see Findings |

Several properties are conjunctions, so that one pass over the states answers
all of them: `ReportsAgree` (`WaterfallIsThePage`, `AllocationIsWhole`, `PagesAgree`),
`CallsDeliver` (`RemainingUndiluted`, `HedgedAfterRebalance`, `RebalanceKeepsMargin`),
`DangerIsAssessed` (`LiquidatableIsEmergency`, `UrgentIsWarned`, `UnpricedIsShown`,
`EmergencyIsExplained`, all of the view the page gets),
`PagesHold` (one conjunct per page), and so on. Each conjunct is a definition of
its own with a comment that says what it claims.

### Bounds, and why they suffice

* Units are scaled where roundings are the subject: WAD is 100 and BPS 10 or 100,
  so that a rounding is a visible part of an amount and all its directions
  occur. Where thresholds are the subject (`rebalance`, `risk`, the simulator) ratios
  keep the source's 10,000 and the deployed parameters, and money is scaled.
* `perp_market`: sizes that open, grow, reduce, close and flip on both sides; prices
  that liquidate the leverage the deployed margin allows; price 0 for a dead
  feed; two parameter sets; both signs of funding; five transactions, enough to
  open, accrue, move, liquidate with bad debt and trade again. Positions alone:
  four fills of seven sizes and three prices against a grid of marks and margins.
* `vault`: two interchangeable holders, either of whom may receive the fees (hence
  the symmetry); one amount beside "everything"; a move of the NAV up and one
  down; a cap that binds; five transactions, enough to enter, gain, accrue,
  leave, empty and re-enter. `vault_max_redeem` uses larger amounts, where the two
  fee formulas differ by more than a rounding; `vault_phantom_fee` one transaction more.
* `lending`: the adapter and another supplier, two rate models, one of them without
  reserve factor (where the margin of solvency is the rounding alone), two
  utilisations, two amounts beside "everything", rates of tens of percent per
  tick. Roles: three accounts, all role assignments, no bound on the calls. Keeper: one
  failure anywhere in the tick and every order of its five calls, with time running up
  to one interval past; the chain may refuse those calls that can be refused
  (`Refusable`) and the oracle may be out, so that nothing is crystallised.
* `strategy`: four calls of the strategy and two changes outside; opening, growing,
  shrinking with a release of margin, closing; a price that more than doubles,
  which liquidates with bad debt; funding that eats the margin; each venue and
  the feed may fail.
* `rebalance`: three transactions and two changes outside. The prices are a small
  step (7%, inside the bands but recorded as volatility), a fall of 20% and a rise
  of 60%, beyond the liquidation of the target leverage; a change comes at once,
  inside the minimum interval, or a day later. The history's query asks for two rows
  (`HistoryLimit`, 1,000 in the source), so that a third one is pushed off the page.
  `rebalance_high_target` is the same with the highest target the bounds admit,
  `strategy_bad_debt` the instance of `strategy`.
* `risk`: four rounds, outages or migrations of two feeds for the oracle alone. For the
  risk manager two transactions, one change outside, one hour, and two rounds or
  outages: a rise the deviation check rejects until it is confirmed, after which
  the position is liquidatable, and the fall back.
* `backend`: three indexing processes (two loops and a builder of the history) over
  three blocks in chunks of two and every shape of block, one failure; two
  processes taking snapshots of three blocks; two processes syncing two alerts, two
  changes and one failure; five rows of history with even and
  uneven gaps; readings on and next to every threshold, up to two figures off.
* `offchain`: two requests at a time and three configurations, the first two of which
  differ by less than the thousand the scenario cache rounds to (`Rounded`); two
  demo wallets and the id of one that is no longer offered (`Gone`), two clicks on the
  four buttons, two simulation runs, one failure of node, database or API; the vault page
  is looked at once while the user switches and leaves (all buttons) and once while
  prices move (`deposit` and `unwind`). The faucet's button does not take part. The lookup
  asks for one id. The simulator: four prices and two rates per step, three steps of
  an hour or a month, its keeper every second step and fees once a day, more often than
  by default so that three steps meet them; the whole catalogue of scenarios and
  four custom ones; the grid of the optimizer.
* Runs stop at their bounds, hence `CHECK_DEADLOCK FALSE` there.

### Fairness

* `lending` (the keeper), `backend`: `index.ts` re-arms every loop with `setInterval` after each tick
  and every await settles (calls have time-outs), so a step of a loop that stays
  enabled is taken: `WF(KeeperStep)`, `WF(syncAlerts(p))`, `WF(takeSnapshot(p))`, and
  `WF(Run(p))` of an indexing process as long as it is active. Blocks are mined: `WF(Mine)`.
  Failures are bounded, so "after any finite number of failures" is what is shown.
* `strategy`: outages end and lent liquidity returns (`FeedReturns`, `LendingReturns`,
  `DexReturns`, `LiquidityReturns`), and a guardian repeats `emergencyUnwind` while there
  is something to unwind, which the code leaves to the guardian. No fairness is
  assumed of anyone else: contracts act only when called.
* `offchain`: every request is served (`Serve`, `ServeRun`), every promise of the wallet
  library and of a sequence settles (`Library`, `Restored`, `runStep`), the browser paints.
  Users are not fair: they may leave at any moment.

### Refinement

`EventStore` is what the rest of the backend believes of the tables: a set of logs
that only grows by logs of the chain, each of which comes to be held. `Indexer`
implements it under the mapping `emitted <- Emitted` (the logs of the chain that
concern the vault), `held <- Held` (the places of the stored rows). Insertions
repeated after a crash, and rows inserted by two processes, map to stutters; the
wipe of a rebuilt history happens before anything is stored. The safety half is
the theorem `IndexerImplementsStore`; with `WF(Hold)`, TLC checks the whole `StoreSpec`.

## Findings

1. `vault_max_redeem`: with a withdrawal fee, `maxRedeem` divides by `BPS - w` where the
   redemption charges `w / (BPS + w)`; redeeming the maximum reverts.
2. `vault_phantom_fee`: assets left behind by the last exit raise the price per
   virtual share above the high-water mark, and the next depositor pays a
   performance fee on it. `PerformanceFeesNeedProfit` shows this is the only way,
   the rounding of the mark aside: as long as the vault was never emptied with assets
   left, fees stay within the capped share of the profits.
3. `strategy_bad_debt`: `PnlView.tsx:32` draws absorbed bad debt as a cost, while the contract
   (`PositionManager.sol:131,137`), `README.md:116` and `docs/pnl-accounting.md:10` add it, and
   the page says its lines are "signed as they hit NAV". After a liquidation below zero,
   or while the short's equity is negative, the bars end lower than the figures of
   the API by twice the debt, under a badge that says Reconciled.
   `WaterfallIsThePage` says in every state that they miss by exactly that and nothing else.
4. `rebalance_high_target`: a liquidation distance below the warning (30% as deployed) makes a
   plan urgent, and the bounds admit a target of 3x, whose distance is 27%. So right
   after every rebalance to it the next plan is urgent again, passes the cooldown and
   is performed, if only with nothing left to trade, and so on at each tick of
   the keeper, where `docs/strategy.md` has 92 rebalances a year. This concerns targets
   from about 2.74x; the default is 2x.

Also seen, and followed by the models without a run of its own: closing a losing
position with `trade` or `simulateAdl` leaves an account of size 0 with negative margin,
which `liquidate` refuses, so the debt never reaches the insurance fund
(`PerpMarket.DebtOnlyWhileLiquidatable` states the expectation).
`level` in `views.ts` gives a metric without a value the level NORMAL; for the leverage of a
strategy whose equity is gone the contract says EMERGENCY. The states agree all the same,
because the collateral ratio is an emergency by then. `alerts.ts` compares with `<` where the
contract's limit is inclusive, so with the high limit equal to the critical one an alert
at the limit would be less than critical.

The rebalancing page says realised costs are "fees + slippage + gas" (`RebalancingView.tsx:130`),
but `realizedCost` is measured by what the contracts book and has no gas in it, unlike
the estimate beside it; and the page sums the rows it was given, at most the newest 1,000,
while the count on the overview is of all. `CostsAreTold` says what is then true:
the sum shown and the costs of the rows left out are together what the books bear.
At the deployed thresholds a leverage above about 2.74 is within the warning of a
liquidation, so beyond the hard limit of 3.5 urgency never rests on the leverage alone.

## Proofs

Theorems hold for every value of the constants that satisfies the named
assumptions: units and intervals are positive, sets of inputs contain what the
types of the source allow, ratios and caps are those of the source relative to
BPS. TLC evaluates each assumption in the runs. `FixedPoint` holds the arithmetic
lemmas the proofs share.

**`PerpMarketProofs`**: `TypeCorrect`, `ConservationHolds`, `MarginAttributionHolds`,
`OpenInterestHolds`, `MarkEntryHolds`, `NoRetroactiveFundingHolds`,
`NoSelfInflictedLiquidationHolds`, `AccountingHolds`, `PositionMathsAlways`.
A lemma for each piece a transaction is made of (settlement, fill, fee, penalty,
write-off) says how it changes the sum of the claims, the attribution and the
open interest; one lemma per action composes them. The ranges are inductive
because their guards (`CanSettle`, `CanFill`) are the source's `PoolInsolvent` checks.
The mark entry needs the invariant `MarkInv` over the stored entry and that a
floored weighted average lies between what it averages. The two action
properties rest on `SettlingKeepsEquity`, funding that is settled becomes margin and
leaves nothing pending, and on `ValidParams` being kept: initial margin is
at least maintenance margin, so what passes one check passes the other; what only
shrinks the position, as `simulateAdl` does (`AdlShrinks`), the venue does not check and the
property does not speak of.
`AccountingHolds` is about `PerpPosition`. A fill rounds a new average entry, which costs
at most a price unit per unit of size, and a profit it realises, at most one unit of
money. `PositionInv` adds these up over any number of fills; what is shown as unrealised
rounds once more.
`PositionMathsAlways` adds the other half of `PositionMathsHolds`,
`LiquidationPriceIsThreshold`. The margin above the requirement (`headroom`, before
rounding) is linear in the price. `isLiquidatable` reads it up to two units of money;
`liquidationPrice` rounds the entry notional and its divisor. `Band` is all of these over
`Slope`, the money a price unit is worth, and so a distance in prices.

**`ServiceProofs`** holds what is proved of the services around the vault: the lending
venue, the roles and the backend.
Of the lending venue, `TypeCorrect`, `SolvencyHolds`, `CallsMoveOwnMoneyHolds`,
`WithdrawableIsPayableHolds`, `InterestExplainsBalanceHolds`.
`LInv` strengthens `Solvency` to the claims before they are rounded, `totalScaled *
liquidityIndex <= cash * WAD`: the rounded claim alone says nothing of what the next
accrual multiplies. That the adapter's part is payable needs that scaled balances
add up to the scaled total. A sum over suppliers would be an induction, so
`BooksAdd` says it without one: there is a weight on the sets of suppliers that is
additive, is the balance on singletons and the total on the whole set; a call
changes it by adding the change to the sets that contain the caller. `EarningsInv`
bounds the rounding loss of the adapter's own calls by their number.
Of the roles, `RolesTypeCorrect`, `ShutdownClosesEntriesHolds` and `OnlySaferHolds`, over any set of
accounts. `ControlInv` is inductive given the types, and the action property follows action
by action.
Of the backend, `RowsTellTheTruth`, `KeeperTellsTheTruthHolds`,
`AlertsAreFoundedHolds`, `ResolvedStaysResolvedHolds`, `SnapshotsAreSoundHolds`,
`IndexerIsSoundHolds`, `IndexerImplementsStore`; for any number of processes, blocks and
failures.
Each invariant says, per process and place in its program, what the process knows
and what may have become of it meanwhile: `KInv` (a tick's outcome and rows at each
phase), `AInv` (what a sync has read are rows that exist, and every row names times
at which it was founded), `SInv` (the rows of an open transaction are of the block read,
and no other process has the same id), `IndexerInv` (stored rows are final rows of
logs of the chain, what is left to insert covers what the watermark will
pass, and a wipe precedes everything). That no call runs out of gas is
proved from `HeadroomCovers`, that 130% of the estimate cover what a call may take:
the source argues so in `gas.ts`, and it is a number about the EVM no model decides;
everything else of the keeper is proved without it.

**`VaultProofs`**: `TypeCorrect`, `PriceNeverFallsHolds`, `HighWaterMarkHolds`,
`FeesCrystalliseOnceHolds`, `MaxWithdrawIsPayableHolds`, `PerformanceFeesNeedProfitHolds`,
`FeesNeedProfit`.
`VInv` is the types and "before the first accrual there are no shares", without
which a first deposit could be followed by an accrual that charges the whole age
of the chain. `PriceNeverFalls` cross-multiplies the two prices; each entry point
reduces to a lemma on one rounding, the fee shares being part of the supply on
both sides. `FeesCrystalliseOnce` needs the mark after fees to be at least the
floor of the price after fees.
`PerformanceFeesNeedProfit` alone is not inductive, since a gain that has not been charged
yet is not in it. `CoverInv` also counts, as already paid, the fees on every unit by which
the assets exceed the shares at the mark. A gain of the strategy raises that excess
by no more than the profit, an accrual turns it into fees, and an entry or exit adds to
it what it has left to the shares. The mark is a rounded price, so an accrual leaves
less than a WAD-th of a unit of money per share unit uncounted; as long as the supply is at most a
WAD, a million shares as deployed, this is less than one unit and nothing is charged
twice. `FeesNeedProfit` says for k WADs that it is at most k - 1 units per
transaction. The supply of the run stays within its WAD.

**`BookProofs`**, **`StrategyProofs`**: `ReconcilesAlways`, `TypeCorrect`, `QuotedIsDeliveredHolds`,
`ReportsAgreeAlways`, `HedgedAfterRebalanceHolds`.
`BookProofs` holds the lemmas on the operators of `StrategyBook`, which the rebalancer's
proofs cite as well.
The report's residual is a fact about two dozen counters in five contracts. The
invariant `Balanced` says it in one linear equation: cash, principal, margin and
cost basis, less all that says where it came from, is zero. Every operator from a book
to a book keeps it, whichever branch it takes and whichever venue
fails; roundings are unknown integers that appear on both sides. From `Balanced`
and how the snapshot falls back to the last checkpoint the report follows.
`TypeCorrect` is about signs: the models compute with integers where Solidity would
revert on an underflow, so it has to be shown that no accepted call gets there. A
second lemma for every operator, `Tidy`, says that a book whose call does not
revert has no negative amount if it had none before, and no WETH in the strategy
if there was none; the calls besides leave no USDC there. A single step of the
emergency unwind only satisfies the first half (`Signed`): a sale that fails leaves the
WETH it was for. `SignsInv` combines both with `paused`. With nothing in the float and
the loan's balance natural, the amount quoted is what the lending venue pays out.
`ReportsAgree` folds over the four slices of the allocation, the lines of a group and the
fourteen bars of the waterfall. All are of a fixed length and are unrolled, the last by writing
its running totals down; what remains is arithmetic on the books, whose amounts `SignsInv`
keeps from being negative. The waterfall is proved of every state, with the twice drawn
bad debt (Finding 3) as the only difference.
`HedgedAfterRebalanceHolds` follows both legs through each stage of a rebalance. The hedging
trade closes the gap, or the gap was below the smallest trade, and what comes after it,
releasing margin and parking the float, moves neither leg.

**`RiskProofs`**: `ActsForAReasonHolds`, `HistoryIsTrueHolds`, `UpkeepAsShownHolds`,
`CostsAreToldAlways`, `OracleServesTheMarketHolds`, `CheckpointsHoldAlways`, `DangerIsAssessedHolds`.

* `RebInv`: the rebalancer's books are balanced (the invariant of `StrategyProofs`, whose
  lemmas hold for every plan) and what a plan reads is numbers. `PlanForms` says which
  forms a plan may have after the filters; with the triggers that fired, danger has
  urgent forms only, which no filter removes, and margin moves in those that resize.
  Urgency needs a trigger: a leverage beyond the hard limit fires one when it is also
  beyond the band of the target (`bandEnd`), which for a target the bounds admit may end
  above the limit. `beyond` says so, and the theorem needs no assumption on the targets.
* `HistoryInv`: the newest trade of the records is `lastRebalanceAt`, which the cooldown
  of the next plan is counted from; hence the cadence of all of them.
* `UpkeepAsShown` is an action property: an observation made now projects to itself
  (`ObservationKeepsVol`), so the plan is the same before and after it.
* `CostsInv`: the page adds the costs of a history of any length, which is a fold. The proof
  does not compute it: the induction is along the behaviour. The fold's equation has a
  solution for the records there are, and every solution ends in the costs the
  books bear, those of the rows the page was given and of the rows it was not taken
  together. A new row starts the fold from its own cost, which moves every solution by
  that cost, and once the page is full hands its last row over to the other sum
  (`RowInFront`); a liquidation, a deposit or a sweep touches neither.
* `OracleInv`: a faulty answer, since faulty rounds come one at a time, follows an answer
  of the market it is compared with; `FaultAssumption`, that faults are farther from the
  market than the deviation bound, then rejects it.
* `CheckpointInv` is `CheckpointsHold` with types: the levels are levels whatever the
  metrics are, an assessment right after a checkpoint finds what the checkpoint stored,
  since the peak it took is the larger one already and nothing else it depends on
  was stored, and an event appended to a chain that ends at the stored state makes
  a chain again.
* `MarketInv` joins `RebInv` and `OracleInv`: what the books see is healthy when the oracle
  is, and the last good price is one of the market. An account below its maintenance
  margin has a collateral ratio below 100%, the planner's limits are the assessment's
  thresholds, and the worst level is at least each of them. `SharpConfig` says what of
  the configuration that needs: a maintenance margin, a critical ratio of at least
  100% (`_setConfig` would accept less), and thresholds below the number that stands for
  `type(uint256).max`. `MetricsAreFinite` says that of the metrics themselves, and that the
  liquidation price was not divided by zero, where the contract reverts. The run
  assumes `SharpConfig` of its configuration, and
  `MetricsAreFinite` is true in every state of it (add it to the invariants of
  `Risk.cfg` to see).

**`PagesProofs`**: `PagesAreTrue`, `PagesAlwaysRemember`, and for each page alone
`ServedAnswersHold`, `WalletStaysDisconnected`, `SequencesHold`, `RunsAreStored`,
`PanelsTellTheTruth`, and of the API's views `ViewsAgreeAlways`; for any number of requests, users, runs and queries, any amounts
and prices, and any lifetimes of the caches.

* `ApiInv`: heights seen rise with time, so a request that has read at a tick has seen a
  block at least as high as any earlier one; a cache entry names the tick it is of, and
  `Serves` says what a request knows at each place in its handler. `StillServes` says that
  time and blocks only add to that.
* `WalletInv`: a connector is remembered only while no disconnect is in force.
* `PageInv`: `Follows` ties a sequence to its transactions: every step before the
  current one has a transaction, and it succeeded. `Tells` ties the panel to the sequence
  it shows, and a sequence that has ended no longer patches it. The bound of an unwind is
  computed from a cached price, so each sequence carries the lowest price since its
  click.
* `FormsInv`: each request in flight names the row it wrote, if any, and each row the
  request that wrote it, which is why a row is not inserted twice and what a card shows
  as saved is in the table.
* `PanelsInv`: what a fetch that was sent after the second invalidation is answered with has
  the transaction, because by then the API's cache has expired: `PanelsAssumption` says
  `Late >= StateTtl`, 2.5 s in `tx.ts` against the 1.5 s of `service.ts`. An answer is of the
  key it was asked with, and a key that was shown keeps its data.

No page writes what another reads, so `PagesInv`, the conjunction of the five, is inductive
for the pages next to one another: `PagesSpec`, which is the part of the run's
specification that is about them.

`ViewsAgreeAlways` is the half `ViewsAgree` of `ReportsHold`: contract, API views and alerts
derive the risk from a reading three times, and agree for every reading, the metrics that
have no value included. It needs thresholds in which these three cannot differ:

* `SharpThresholds`: high below critical, since the alert compares strictly where the
  contract's limit is inclusive; limits below the number that stands for infinity; a
  critical collateral ratio of at least 100%. An infinite leverage, which the view shows as
  NORMAL, is then told by its collateral ratio.
* `ShortsHaveMargin`: no short is so small that its maintenance margin is rounded away,
  for then that ratio would be infinite too.

`MCBackend` assumes both of the values the run has.

Only model-checked:

* liveness under fairness, out of the prover's reach: `WorkGetsDone`,
  `EmergencyEmptiesStrategy`, `LoopsKeepUp`, `PagesSettle`, the liveness of `StoreSpec`;
* of `CallsDeliver`, whose part `HedgedAfterRebalance` is proved, the other two:
  `RemainingUndiluted`, whose four units of rounding fit the run's scale, and
  `RebalanceKeepsMargin`, which needs bounds on roundings against fees and the initial margin
  rate. The bounds for every scale are long products;
* `PlansWork` and `EstimateCoversCost`, the properties of the simulator
  (`SimulationHolds`) and what the keeper's act is worth (`KeeperActsRightly`), which
  compare two results of long integer computations at deployed parameters;
* `SeriesAreTrue`, the other half of `ReportsHold`: it sums and maximises over a series of any
  length that is given at once, not built step by step, so that the induction would be over
  data.

## Plan

An abstract delivery specification for the two promises the vault takes from
the strategy would replace the two properties that state them now.

## Not modelled

* Deployment scripts (straight-line wiring; they give the initial states and the
  constants), shared type declarations, the scripted market driver and demo (the
  models quantify over what they may do).
* `setConfig`, `setBounds`, `setParams` and other setters of parameters that a run keeps
  at the deployed values; the second asset of the lending venue; feeds in other
  decimals; the price impact that grows with the size of a swap.
* In the browser, a wallet that replaces or cancels a transaction: `waitForTransactionReceipt`
  (`tx.ts:87-88`) then answers with the receipt of the other transaction, and the sequence
  goes on. Mock connectors never refuse to connect.
* Of the simulator's policy, the mode that resets the hedge in full and the limit by the
  available reserve.
* Reorganisations of the chain, which the indexer does not handle either.
* The random path generator, Monte Carlo statistics and the normal distribution;
  headline yields; lists that are plain queries.
* Charts, layout, formatting and the wording of messages.
