# Precog and its deployment in TLA+

The repository holds two programs. **Precog v5** (`contracts/precog` and beside it) takes deposits of
ERC20 tokens into *token pools*. A depositor receives IPCOG, a non-transferable
share; a middleware service trades with the tokens off chain and sends back
withdrawals and profit. Everything in the contracts turns around three clocks:
deposits start to count at the next *funding* time, withdrawals leave at the
next *defunding* time (a first one after a longer delay), and profit is shared
per *trading cycle*, in proportion to token x seconds ("units"). Beside the pools
there is **staking** (`contracts/staking`): PCOG is staked in a pool that lets
*reward controllers* pay interest, or share a fixed rate per second.

The **deployment tooling** (`@openzeppelin/upgrades-core` and
`@openzeppelin/truffle-upgrades`, kept in the tree as sources, `migrations/` and
`deploy/`) puts such contracts on a chain, behind proxies that can be upgraded,
and remembers in files what is where. What is hard there is not arithmetic but
processes that share a file, die between two awaits and are run again.

This directory models the core of both, checks it with TLC on small instances
and proves what matters most with TLAPS for every instance.

    tlc -config account.cfg MCPrecogV5        # a run: see the table below
    tlapm PrecogV5_proofs.tla                 # the proofs

## 1. The systems

### Precog

| component | state | operations | talks to |
|---|---|---|---|
| `PrecogV5` | none (roles, lock) | deposit, requestWithdrawal, withdraw, turnOn/OffWhitelist | all below |
| `PrecogInternal` | none | increase / decrease of an investment, first touch of a cycle, calendar update, profit walk | storage, core |
| `PrecogStorage` | per token: cycles, units per cycle, liquidity, profits, whitelist; per account: investments, profit info, trading info | getters and setters for operators | - |
| `PrecogCore` | cycle and fee configuration; per token: limits, durations and apply times | setters, setCycleConfiguration, update*Duration | internal, storage |
| `PrecogVault` | its token balance | takeInvestment, forceWithdraw, withdrawRemainder... | internal, storage, core |
| `WithdrawalRegister` | register [amount, deadline] and first-withdrawal flag per account; token balance | register, claim, modify | called by PrecogV5 |
| `IPCOG` | balances, supply, holders | mint, burn (transfer always reverts) | called by PrecogV5 |
| `PrecogProfit` | its token and PCOG balance | sendProfit, takeProfit | internal, storage, exchange |
| `PrecogFactory` | none | add / remove a pool | storage, core, IPCOG |
| `StakingPool`, `StakingFactory` | per account: stake, deadline, reward debts; totals, settings | stake, unstake, claimReward, setters, createPool | its controllers, the price feed; shares nothing with the token pools |
| `APRRewardController` | per account: amount, last time, stored reward; rate, check points, disable time | stake, unstake, verifyRewards (of the pool), updateReward (of anybody), setters | - |
| `FlexibleRewardController` | the same with a debt; reward per share, now and at each check point, end of the round | the same, updateRewardInfo starts a round | - |
| `Faucet`, PCOG and proxies, exchange and price feed, mocks | small | - | - |

One transaction runs alone: concurrency is the order of transactions of users,
the middleware, the administrator and anybody (the calendar update is public),
and how they fall relative to block time. What is hard about it:

* one user action writes four contracts, and the next one branches on what it
  finds: a deposit behaves in four ways depending on a pending withdrawal;
* the storage lags behind block time. The calendar is extended when somebody
  calls, views predict later cycles, and a cycle far ahead can be "opened" by a
  request before the present ones are;
* a cycle receives the units of the liquidity once, at first touch; every later
  change must correct each cycle that was already opened;
* deadlines survive what they were made for: a register is topped up, claimed in
  parts, cancelled by deposits and used again;
* the middleware moves tokens in its own time, so a claim may have to wait;
* most arithmetic of the pools is `unchecked`;
* a stake is kept three times, by the pool and by two controllers, in two units
  whose price changes, and every unstake needs that none of the three refuses;
* interest and shares are settled lazily, by anybody, at rates and limits that
  change between settlements.

### The deployment tooling

| component | state | operations | talks to |
|---|---|---|---|
| store of `upgrades-core` (`impl-store.ts`, `deployment.ts`, `manifest.ts`, `provider.ts`) | the manifest file of a network, its lock file | fetchOrDeploy, fetchOrDeployAdmin, with or without merging an import | the chain (JSON-RPC) |
| storage comparison (`storage/*.ts`, `levenshtein.ts`) | none | assertStorageUpgradeSafe | layouts of the manifest and of the compiler |
| validation (`validate/*.ts`, `truffle-upgrades/utils/validations.ts`) | none | validateArtifacts, assertUpgradeSafe | the build directory |
| proxy operations (`truffle-upgrades`) | proxies of the manifest | deployProxy, upgradeProxy, prepareUpgrade, forceImport, the beacon operations, changeProxyAdmin | store, checks, chain |
| deployment scripts (`migrations/`, `deploy/staking_deploy.ts`) | the config file of a network, contracts on the chain | migrations 2 and 8, the staking script | chain |
| `migrate-oz-cli-project.ts` | network files of the old CLI, manifests, an export file | one conversion | the directory the plugin uses |

What is hard: several processes and one file; the wait for a transaction is
outside the lock; a process dies while it holds the lock, between a deployment
and its record, or in the middle of a write; a transaction is dropped or
reverted after its address was recorded; a development chain starts again while
the manifest stays; checks that read a proxy long before they upgrade it;
conversions done in place; and two pure calculations (edit distance of layouts,
reachability of unsafe code) whose mistakes would only be seen by a user who
has lost data.

### What makes a component correct

* accounts: IPCOG = invested + registered; a pending request can be taken back
  in full; a promised deadline does not move; a first request waits;
* pool: liquidity = sum of the investments; tokens = sum of IPCOG; units of a
  cycle = sum of the units of the accounts;
* calendar: cycles are contiguous, predictions do not depend on how far the
  calendar is stored;
* profit: what is paid out is at most what was sent; shares as in the units;
* staking: a stake can leave, and is there; it earns for the time it was there,
  its part and no more;
* store: one deployment per implementation and network, none forgotten, no
  address lost; what a call returns is in the file; every call ends;
* comparison: what is accepted keeps the data in place; the report is the
  cheapest one; appending is always accepted;
* validation: what passes has no unsafe code that the author did not allow;
* proxies: registered proxies can be compared and upgraded, and upgrades are
  compatible with what they replace;
* scripts: a file names only contracts that are complete, and a second run
  leaves what the first one recorded.

## 2. The modules

    PrecogV5Library      time and profit arithmetic (closed forms)
      PrecogInternal     investments, units, profit walk: operators on a "book"
        PrecogV5         the pool: state, one action per handler, properties
          PrecogProfit       the pool with its profits; MCPrecogProfit for TLC
          PrecogRefinement   INSTANCE PrecogLedger: what the pool promises
            MCPrecogV5       bounds, fairness, initial states for the runs
              MCDocumented   what docs and tests say and the code does not do
      TradingCycleLoop   the calendar loop itself, to justify the closed forms
    StorageCompare       the comparison of layouts; MCStorageCompare for TLC
    Validations          the validation of a project; MCValidations for TLC
      MCChecks           these three calculations side by side, for TLC
    ImplStore            the deployment store
      MCImplStore        fairness and symmetry for the runs
        MCStoreDocumented  what its comments say and the code does not do
    ProxyUpgrades        the operations on proxies; MCProxyUpgrades their instances
    DeployScripts        the deployment scripts
    LegacyMigration      the conversion of OpenZeppelin CLI projects
      MCScripts          these three side by side, for TLC
    StakingPool          a staking pool with a controller of each kind;
                         MCStakingPool for TLC
    Proofs:
      SumTheorems              sums over finite sets, induction over finite subsets
      PrecogV5_proofs          cycles and integer division; the accounts of a pool
        PrecogPool_proofs      its money, types, first requests, windows and units; the ledger
          PrecogProfit_proofs  its profits
      TradingCycleLoop_proofs  the calendar loop
      ImplStore_proofs, StakingPool_proofs
      Tools_proofs             the operations on proxies; the deployment scripts; validation;
                               the conversion of old projects

`MCChecks` and `MCScripts` put programs that share no state into one run: a
variable `subject`, chosen at the start, says which of them a behaviour runs,
and the others keep their first value. Where two models meet, one stands in for
the other by its promise: `ProxyUpgrades` takes from `ImplStore` that a version
has one contract once it is recorded, from `StorageCompare` a relation
`Compatible`, from `Validations` the set `HasUpgradeTo`.

**PrecogV5** models one pool from the block that added it (`now = 0`). Pools of
different tokens share no state the modelled handlers write. A transaction is
one step, and a reverting one is no step. The correspondence of state:

| variable | code |
|---|---|
| `now` | `block.timestamp`, counted from the pool's creation |
| `cycleConfiguration`, `feeConfiguration`, `limits`, `cyclesChangedInfo` | the mappings of PrecogCore |
| `tradingCycles`, `units`, `liquidity`, `whitelist` | `tradingCycles`, `totalUnits(ForWhitelists)TradingCycle` with `isUpdateUnitTradingCycle`, `liquidity(Whitelist)`, `isInWhitelist` |
| `investmentsOf`, `accountTradingInfo`, `accountProfitInfo` | the mappings of the same names |
| `register`, `isNotFirstWithdrawal` | WithdrawalRegister |
| `ipcog`, `holders` | IPCOG |
| `tokens` | ERC20 balances of vault, register, core, profit contract and middleware |

and of actions: `Deposit`, `RequestWithdrawal`, `Claim` (withdraw, not
emergency) and `ForceWithdraw` (withdraw, emergency) of a user,
`UpdateCurrentTradingCycle(n)` of anybody, with or without a limit,
`TakeInvestment` and `SendRequestedWithdrawal` of the middleware (the latter is
a plain transfer, external to the contracts), `Tick` for time. Each action is
the whole transaction, calendar update and profit update included. Operators
keep the names of the functions they stand for; `CurrentCycles` is the calendar
a handler sees after its own update, `tradingCycles` what a handler sees that
does not update it (`ForceWithdraw`).

Abstractions: amounts and times are unbounded integers, and a unit counter that
the code would wrap is a negative number (`TypeOK` says which amounts never get
there); a map entry that was never written reads 0, as in Solidity; the
`withdraw` recipient does not matter, tokens that leave to wallets leave the
model; wallets hold and have approved what is needed; events, roles and reentrancy
locks are left out. Whitelisting is carried in the data and in every operator,
but no action turns it on yet; profits are carried in `PrecogV5` too, where none
is sent: `PrecogProfit` adds that.

**PrecogProfit** composes the pool with PrecogProfit.sol: the PCOG balance, and
`SendProfit` of the middleware, `TakeProfit(a, to)` of an account and
`UpdateProfit(a)` of anybody, interleaved with every action of the pool. The
money of a profit comes with the call; what the exchange gives for it is a free
choice (0 when nothing is exchanged). The order of `sendProfit` is kept: the
total of the cycle is read before the calendar is updated, the whitelist's units
and the last cycle after.

**PrecogLedger** is the promise to a holder with no cycles, units, vault or
fees: an amount invested, an amount owed, one due time that is fixed while
anything is owed, payment only after it. **PrecogRefinement** maps the pool to
it (`invested` = last investment, `owed`/`due` = register, `shares` = IPCOG).

**TradingCycleLoop** runs the loop of `_updateCurrentTradingCycle` and
`_calculateTradingCycleByTimestamp` one round at a time, for a calendar that
starts with a cycle of any length and a configured length and apply time that
may differ: the closed forms (`NthCycle`, `CyclesUntil`) used by the pool and
by the proofs are its result.

**ImplStore** models `fetchOrDeploy` and `fetchOrDeployAdmin` over one manifest.
`manifest` and `lock` are the two files, `txs` the chain, and `pc`, `call`,
`data` (the copy of the manifest), `dep` (the deployment in use) the local
variables of each process. A step goes from one await that others can overtake
to the next: `Begin`, `Acquire` or `GiveUp` (the lock's retries ran out),
`Validate` (the stored deployment, with the branches of
`validateStoredDeployment`), `Deploy` or `DeployFails`, `Record` (clash check,
lens, write, release), `Succeed`, `FindInvalid` or `TimeOut` (the wait outside
the lock) and `Remove`. `Crash` can come anywhere, in `Record` and `Remove` with
a torn file. The chain includes, reverts or drops a transaction at any time,
and `Reset` starts a development chain again. Contracts that others deployed
(`Foreign`, to be imported) have code from `DeployForeign` on, which may come at any
time or never, and lose it in a `Reset`, so an import can be of an address without
code. An entry has the address and the hash of one transaction, or an imported address
and no transaction (`Deployment`). Abstractions: a lock file becomes
stale only after its process died (a living process touches it every few
seconds; one that was suspended for longer is not modelled); an address is the
nonce it was made with, a hash the nonce and the number of the chain's start; a
dropped transaction stays dropped; whether the network is a development network
is chosen at the start. `orphans` is a history variable: what a crash or an error
between sending and writing left behind.

**StorageCompare** models `StorageLayoutComparator` and the matrix of
`levenshtein.ts` as a recursive function over the two lists; `Propose` is one
`assertStorageUpgradeSafe`, whose layout is the next original when it passes, so
a run checks chains of upgrades. The reference is where the compiler puts a
value: `Cells` lays out a type in bytes, slot by slot. The cache is left out
since it changes no result; slots and enum sizes are scaled (`SlotBytes`,
`BitsPerByte`: 32 and 8 in the code); types nest to `Depth`; a call that throws
ends there. The wording of the report is left out.

**Validations** models the reading of artifacts source by source (`Visit`), the
dropping of sources with missing imports, `validate` and the collection of
errors over ancestors and libraries, and the exceptions of a call. The code finds
parents and libraries by the number that the compiler gave them. So a project says for each source
from which compiler run its artifacts are (`run`), and for each run how it numbered
contracts and sources (`id`): unique within a run, free between runs. `FromIds` is the table from
numbers to names that `validate/run.ts` builds; where two runs used one number for two
contracts it has several candidates, and the one that stays depends on the order of the files
in the directory, which is left open. `NamesResolve` says that a contract's code is looked up without
such a choice. `named` gives the contract whose artifact has a contract's name, since of two
contracts of one name one artifact is left. What the
searches in the syntax tree find in a contract's own code is given.

**ProxyUpgrades** has an action per read or write of the chain or manifest of
the operations of the plugin, which several processes run; `Fail` ends a call
anywhere. An implementation is its version. The administrator who imports a
proxy names the right contract and, if any, the right kind; an upgrade takes
effect when it is mined; of `unsafeAllow` the calls have what matters here, whether it
allows `missing-public-upgradeto` (`allow`); `Starts` are the chains and manifests that earlier
calls leave. Initializer calls, `transferProxyAdminOwnership` (it changes no
state the model has) and the update of old layouts are left out.

**DeployScripts** has one state machine for three scripts: go on to the next key
that is not in the config (`From`), deploy, set up, write. `Write` keeps which
keys each script collects (`Remembers`). Then come the setters of PrecogStorage
and the pools of the staking script. `Stop` can come at any await and cut the
write of the file. Arguments that do not depend on other contracts are left out.

**LegacyMigration** reads all files, converts the data before it writes any,
writes the manifests one by one, the export, and deletes the rest; `Interrupt`
can come anywhere, `AddMigratedProxy` is the plugin at work on the new manifests. A type
name of the CLI is what its text spells: the mappings and arrays around a type, and
the struct, enum or elementary type inside; labels and the contents of the export are
left out. The reference for the layouts (`SameLayout`) follows the variables of both
formats side by side into the members of their structs.

**StakingPool** models one pool as `createPool` makes it, with one controller of
each kind. `pool`, `userStaking`, `totalStaked`, `stakersCount` and
`userRewardDebt` are the pool's storage, `apr` and `flexible` that of the
controllers; the operators on these two records are the controllers' functions,
and `Stake`, `Unstake`, `ClaimReward` the pool's transactions with every call
they make. `Settle` is the public `updateReward`, `StartRound` and
`SetInterestRate` are the middleware's `updateRewardInfo`, and the rest are the
setters. A reverting call is no step, so that reverts are guards: below zero
(`CanUpdateInterest`, `CanUpdateReward`), without a check point
(`HasCheckPoint`), or for want of tokens (`Send`). `Distribute` is the closed form
of the loop over days. Outside the contracts are `SetPrice` (the exchange behind
the price feed), `Fund` (rewards come by plain transfers to the pool) and `Tick`.
`least`, `most`, `share` and `paid` are history: what the accounts were entitled
to, second by second, and what they were paid. The token of the interest is PCOG
or another one, that of the shared reward is another one. setPool keeps the
controllers, as it does when it is given none.

## 3. The runs

| run | question | instance |
|---|---|---|
| `account` | does one account's data stay consistent through every history, with fees? `TypeOK`, `AccountBacking`, `PendingIsReversible`, `WindowIsBounded`, `DeadlineIsKept`, `FirstRequestWaits` | 1 account, amounts 1..3, first delay 4 = trading cycle, funding = defunding = 2, 5 transactions to time 9 |
| `pool` | do shared liquidity and tokens add up, does the pool implement the ledger, and is every registered amount settled? `LiquidityBacking`, `Solvency`, `ImplementsLedger`, `RegisterIsSettled` | 2 accounts, funding = defunding = 1, trading = first = 2, fees 1/3, 3 transactions before time 5, time to 7, with fairness |
| `returning` | for accounts past their first withdrawal: are units conserved, and does PrecogProfit hold what everybody can take? `UnitConservation`, `ProfitIsCovered` | 2 accounts, deposits of 2, funding = defunding = 2, trading 4, 4 transactions to time 7 |
| `profit` | does everybody get the share of every settled cycle, once? `ProfitMatchesShares`, `SettledUnitsAreFinal` | 2 accounts, durations 1, 1, 1, 2, amounts 1, 3 transactions to time 5 |
| `deploy` | is every deployment made once and remembered, and does every call end? `CopiesAreCurrent`, `NothingIsForgotten`, `OneDeployment`, `ReturnedIsRecorded`, `CallsEnd` | 2 processes, 1 version and the admin, live network, torn writes, 2 transactions |
| `import` | do merges, imports and resets keep the manifest right? `TypeOK`, `AddressesAreUnique`, `MergeKeepsAddresses`, `RemovedOnlyIfInvalid` | 2 processes, 1 version and the admin, 2 foreign contracts with or without code, live and development network, 1 transaction, 1 reset |
| `scripts` | do the tools stay consistent when they are stopped, interleaved and run again? `RecordedAreComplete`, `StorageKnowsConfig`; `ProxiesAreKept`, `LayoutsAreKept`; `RegisteredHaveLayouts`, `UpgradesAreCompatible`, `UupsStaysUpgradeable` | 3 scripts started 3 times with 4 config files; a migration of 3 networks with 9 contents, run 3 times; 2 processes with 2 calls on proxies, 3 versions, 11 starts, up to 3 contracts |
| `checks` | are the pure calculations right? `EditsAreMinimal`, `AcceptedKeepsData`, `AppendingPasses`; `PassedIsSafe`, `DroppedIsIncomplete`; `StopsAtTimestamp`, `PredictionIsStable` | a catalogue of 42 types in layouts of 0 to 3 variables, 4 options; projects of 3 contracts from one or two compiler runs, or with two of one name; calendar durations 1..5, times to 14 |
| `staking` | can a stake leave, and does it earn what it should? `StakesCanLeave`, `InterestIsForStakedTime`, `SharesArePaid` | 2 accounts, stakes of 2 taken out in parts, fees and penalties of 1/2 or none, 2 prices, 2 interest rates in thirds, days of 2 seconds, times 2 to 5; 3 changes of stakes, 1 of a setting, 2 other calls |
| `lost_deposit`, `lost_address`, `late_stake` | end in a counterexample: section 4 | funding 1 < defunding; migrations 8 and 2; as `staking` |

For the pools "transactions" counts steps that change an investment; claims,
calendar updates, transfers and time are free. `CHECK_DEADLOCK FALSE`
everywhere, because time and the number of starts, calls and transactions are
bounded and the pure calculations end.

Why the bounds suffice for the cases of interest.

* With a trading cycle of 4 and a defunding duration of 2 a first request made in
  cycle 0 falls in cycle 1 or 2, so that deposits meet it in an earlier cycle and
  in the same one; amounts 1 and 3 with requests of 1 and 2 give every branch of
  `_processHandleIncreaseInvestment` (no pending, less, equal, more). Five
  transactions make deposit - request - cancel - request - claim - request
  possible (claims are not counted), and time 9 lets two deadlines pass. In `pool`
  deposits of 3 with a limit of 4 reach `maxFunding` and `maxFundingPool`, and a
  fee of a third makes rounding visible. `returning` starts accounts after a first
  withdrawal (`ReturningInit`: one empty investment in the present cycle, flag
  set), because it is there that unit conservation holds (see 4). In `profit` a
  trading cycle of 2 and time 5 let the profits of cycles 0 and 1 be sent, in cycle
  1 or later, and three transactions let the investments of the two accounts start
  at different times and one of them be changed or taken back between two payouts;
  4 PCOG among units such as 1 and 2 make the division inexact.
* Two processes are enough for every pair of steps of the store to interleave, and
  a process can begin again after each call, so a removal can meet a third
  deployment; two transactions are a deployment and its repetition, or one for each
  field. In `import` two foreign contracts are the least with which an entry can
  have two addresses besides its own, and with which one process can find its import
  without code while another one records an import that has some; one transaction
  with one reset is enough for an address to come back with another contract; the same instance with larger
  numbers of transactions takes too long, which is why the theorems of section 5
  matter here.
* Of the calls on proxies the second falls between any two steps of the first; `v2` is
  the version without `upgradeTo`, and `v3` does not follow `v1`, so that both
  checks can be wrong. The starts cover each kind of proxy, registered or not,
  with or without layouts, under the tool's admin or another.
* Three starts let a run that stopped, one that stopped later and one that ends
  follow each other; the four config files name nothing, one and two contracts. The
  files to migrate include those that the script rejects in each of its ways, and structs
  nested within `Depth` = 5.
* A composite type is followed by a variable that it would overwrite if it grew;
  value types of one and two bytes in slots of two fill and overflow a slot; the
  lists of three variables allow an insertion, a removal and a move. In the
  projects every relation of three contracts (import, parent, library, and a cycle
  of imports) occurs with every order of imports, one source or none missing, one
  unsafe construct, and a library used at up to three places. Where the third source is of
  a second compiler run, that run has numbers of its own (`Fresh`), has those of two contracts and
  their sources exchanged (`Exchanged`), which the check along imports finds if there is an import,
  or has those of the contracts alone exchanged (`Edited`), which it does not look at. In the projects with
  two contracts of one name the one whose artifact was overwritten is the unsafe one.
* In `staking` a round of three seconds spans a check point and a whole day of two, so
  that settlements store rewards per share for check points; three changes of stakes
  let two accounts join at different times and one of them leave in part or join
  again; interest of 1 or 2 thirds of the stake per second is rounded in most settlings, which
  anybody can start, and the rate of 12 is divisible by every total that occurs, so that
  parts are exact; the pool starts with enough of the reward token for every claim and penalty,
  because what happens without it is a claim that waits. Interest is paid in a token
  other than PCOG; `drained_stakes` has PCOG.

Symmetry of accounts, processes and, in `import`, foreign contracts is used where no
liveness is checked.

Fairness of `pool`: weak fairness of `Tick` (blocks are mined), of
`TakeInvestment` and of `SendRequestedWithdrawal` (the middleware does both
periodically as its job: `takeInvestment` is restricted to it and the register
has no other source of tokens), and strong fairness of each user's claim of a
positive amount (a user whose claim is possible again and again makes it some
day; other claims may empty the register in between, so weak fairness would not
do). The contracts cannot force any of this; the property says that nothing
else is needed, in particular no deposit or request and no particular order.

Fairness of `deploy`: weak fairness of the steps of each process (its event loop
goes on) and of `LockExpires` (the lock's file is compared with the clock). Nothing
is assumed of the chain, which may never mine a transaction, of the users, or of
how often processes die. `CallsEnd` holds because the wait has a time-out; with
`CanWaitForever` (`timeout: 0`) it does not.

Every property of a passing run fails for at least one plausible change of a
modelled definition; those are the `Mutant...` operators beside them.

## 4. Disagreements between code and documentation

Three runs end in a counterexample (`findings` in `PROJECT.json`):

* `lost_deposit` (`MCDocumented`) - with funding duration < defunding duration
  (accepted by `setCycleConfiguration`) a deposit that cancels a request can be
  dropped by `_processIncreaseInvestment`. The trace goes through the branch for a deposit of
  more than is registered (Precogv5.sol:112-134, the lost call at 119): the registered amount is given back at the
  register's deadline, whose cycle is before the last investment's, nothing is stored for it, and
  the investment with the request is popped.
* `lost_address` (`DeployScripts`) - migration 8 writes the address of PCOG and its
  next write drops it; the next run deploys PCOG again.
* `late_stake` (`MCStakingPool`) - `FlexibleRewardController.stake` takes the debt from
  the amount before the stake (line 83), so a stake that comes later is paid for the
  rounds before it as well: more is promised than the rounds have. The comparisons of
  `test/staking/3_flexible.test.ts` that would show it are not awaited.

More of them are kept as configurations that end in a counterexample; run them as
`tlc -config <name>.cfg <module>`:

| configuration | module | what the code does, and where |
|---|---|---|
| `stale_units` | `MCDocumented` | a first request opens a cycle ahead of time; a deposit made later but invested earlier is missing from its total units, so shares add up to more than one (PrecogInternal.sol:220) |
| `claim_at_deadline` | `MCDocumented` | a claim at the deadline reverts (WithdrawalRegister.sol:94), the interface allows it (IWithdrawalRegister.sol:81) |
| `empty_claim` | `MCDocumented` | `withdraw(0)` ends the first-withdrawal delay (WithdrawalRegister.sol:103, IContractStructure.sol:62) |
| `cancelled_request` | `MCDocumented` | cancel and request again in one block: no delay at all (Precogv5.sol:110) |
| `late_cancel` | `MCDocumented` | a cancelled request leaves the force-withdraw window open until the old deadline, for deposits that are already invested (PrecogInternal.sol:464) |
| `late_decrease` | `MCDocumented` | with the default durations and a first withdrawal pending: in the second of the register's deadline a request is for that deadline, a deposit for the next funding time, which can be in the next cycle. When the deposit comes first, and what can be forced out of it has been, the request is merged into the later investment (PrecogInternal.sol:405), which gets the earlier id; the units of the later cycle stay and belong to nobody, and the totals are not "of users in each trading cycle" (PrecogStorage.sol:97) |
| `overpaid` | `MCPrecogProfit` | the same history with profits: two investments of one cycle are both paid, and PrecogProfit owes more PCOG than it has |
| `merge_unmined` | `MCStoreDocumented` | "If merging, wait for the existing deployment to be mined" (deployment.ts:117): nobody awaits that promise |
| `removed_with_it` | `MCStoreDocumented` | an entry whose deployment failed is removed together with the addresses that were merged into it (impl-store.ts:81) |
| `not_removed` | `MCStoreDocumented` | an error says "(Removed from manifest)" when another process has replaced the entry meanwhile (deployment.ts:215) |
| `drained_stakes` | `MCStakingPool` | when interest is paid in PCOG, it is paid out of the stakes, and the last account cannot leave (StakingPool.sol:144); the tests transfer PCOG to the controller, which never spends it (test/staking/2_apr.test.ts:35) |
| `no_exit` | `MCStakingPool` | after the disable time no account can unstake: unstake settles twice, and the second time the last reward time is beyond the end (APRRewardController.sol:81) |
| `dev_merge` | `MCStoreDocumented` | a merge into a field that clashes on a development network drops its addresses (impl-store.ts:171) |

The passing runs stay clear of the first two of `MCDocumented` by their constants
(the defaults of the constructor have equal funding and defunding durations;
`returning` has no first requests; in `profit` the first delay
equals the funding duration, so that a request opens no cycle beyond those a deposit
reaches) and of `empty_claim` by claiming positive amounts. `ProfitIsCovered` needs the
units of a cycle to be those of its accounts, so it is stated, checked and proved for
accounts that have claimed before, as `UnitConservation` is: `overpaid` refutes it
otherwise. `FirstRequestWaits` is stated for an account that
never had a register; `EveryFirstRequestWaits` is the stronger reading that
`cancelled_request` refutes. `late_cancel` refutes `OnlyBeforeFunding`; what does hold, first
requests included, is `WindowIsBounded` (run `account`): deposits that take requests back hand
their times on, but a window is never open for longer than one of the configured durations from now.

Met while reading, without a run of their own; the models keep the behaviour:

* A process that imports an address without code finds it invalid and removes the field
  again. If another process has by then recorded an import that has code, that one goes: the entries
  are compared by transaction, and imports have none (`impl-store.ts:81`, `undefined ===
  undefined`). On a development chain that starts again it takes no mistake of the user:
  the contracts that were imported lose their code. `RemovedOnlyIfInvalid` names this case (`ImportFailed`).
* Ids of the syntax tree are unique within one compiler run, but the table of `validate/run.ts:146`
  is one for all, and the check of `validations.ts:134` compares ids along imports only. When
  unrelated sources of two runs share ids, or when the ids of sources agree and those of
  contracts do not, a parent or a library is looked up as another contract and its errors are
  not seen. The same comes of two contracts with one name. `PassedIsSafe` therefore says of the contract's own code what it says of the
  rest only under `NamesResolve`.
* A UUPS proxy that is not registered is upgraded as a transparent one when the next version
  lacks `upgradeTo`, also when another process imports it as UUPS
  between that call's look at the manifest and its transaction
  (`proxy-kind.ts:45-51`); `UupsStaysUpgradeable` speaks of what was registered when the call looked.
* `storage/report.ts:133` compares the tail of an array type with `dyn`, the
  identifiers have `dyn_storage`; functions beside a type of another kind make the
  comparison throw, and a user-defined value type is always reported
  (`compare.ts:294`); a variable that names its own type in `retypedFrom` is not
  compared at all (`compare.ts:106`).
* `_burn` counts a holder down whenever the balance is 0 afterwards (`IPCOG.sol:174`), also for a
  `withdraw` of 0 by an account that never held any.
* `validations.ts:124-132` keeps or drops a source depending on the order of the
  artifacts, and does not end when the sources to drop import each other in a
  cycle; `validations.ts:165` skips most of the placeholders of a library.
* `overrides.ts:52-57` adds to the array that the caller passed; `opts.kind` is
  written into the caller's object and stays for the next call
  (`proxy-kind.ts:45-51`), while the checks use a copy made before
  (`deploy-impl.ts:44`).
* Two upgraders of one proxy compare with the same implementation
  (`upgrade-proxy.ts:27`): `UpgradesAreCompatible` leaves this case out and says so.
  A UUPS proxy that was never registered is imported as transparent when its
  present implementation lacks `upgradeTo`.
* The staking script makes two more pools every time it runs
  (`staking_deploy.ts:195`); a script that dies in `writeFileSync` leaves a config
  file that no later run can read.
* A second run of the conversion overwrites the export file of the first and the
  new manifest of an unknown network; of contracts with one bytecode hash only the
  last address is kept; the labels of mappings are damaged by the removal of
  contract names.
* `scripts/auto-test.js` calls functions that the contracts no longer have.
* When a period is set, the first stake of every account reverts in the APR
  controller (its staked time is 0, before the check point:
  `BaseRewardController.sol:47`), and a new stake after a check point earns the time
  since that check point. A new interest rate counts from the last settlement, also
  for the time before it (`APRRewardController.sol:68`);
  `InterestIsForStakedTime` therefore speaks of the lowest and highest rate.
* The first round of `_updateRewardAtDailyCheckPoint` moves the key by its own length
  and the later ones by a day (`FlexibleRewardController.sol:45`), so most check points
  find no entry and read 0; a round that starts late counts from the last settlement
  (`SharesArePaid` is stated while no period is set).
* Every settling rounds the interest down to the token's smallest unit
  (`APRRewardController.sol:68`), and anybody may settle any account in any block: with
  short spans and a token of few decimals little or nothing is left of the interest.
  The lower bound of `InterestIsForStakedTime` is that of the time staked less one unit for each settling.

## 5. What is proved

### The accounts

`PrecogV5_proofs` proves, for every set of accounts and amounts, every limit,
fee and cycle length that satisfy `CycleAssumption` and `AmountAssumption`, and
under `Aligned == FundingCycle = DefundingCycle` (the default configuration;
without it `lost_deposit` is a counterexample):

* `AccountTypes_Safe` - types of the account storage and calendar: no amount
  goes below zero;
* `AccountBacking_Safe` - IPCOG = invested + registered;
* `PendingIsReversible_Safe` - the invariant that makes the former inductive;
* `DeadlineIsKept_Safe` - an action property, from the same invariant.

The argument. `AccountBacking` alone is not inductive: a deposit with a pending
request pops the last investment or adds to it at the register's deadline, and
whether the amount arrives depends on which cycle that deadline is in. The
invariant `IInv` adds what the code relies on without saying so. Let F be the
id of the cycle that a deposit made now would reach (`FundingId`). The last
investment of an account is never after F + 1. If it is after F, there is a
pending request (`PendingRequest`): the investment before it is in F or earlier
and holds exactly the amount before the request, the register unlocks in the
cycle of the last investment, and no amount is available for forced
withdrawal. For an account in its deadline the unlock cycle is at most the last
investment's, and at most F once the first withdrawal is over. `CalendarInv`
says that the calendar consists of cycles of the configured length, so ids of
cycles are quotients of times by `TradingCycle` (`IdsAreQuotients`), and
the first part of the module reduces every question about cycles to facts about
integer division, proved there once. The rest has one lemma per action
(`DepositStep`, `RequestStep`, `ClaimStep`, `ForceWithdrawStep`, `TickStep`,
`CalendarStep`, and `SameAccount` for what leaves an account alone), each split
by the cases of the code, and combines them in `StepKeepsIInv`. TLC checks the
same invariant (`PendingIsReversible` with `TypeOK`) in run `account`.

### The pool

`PrecogPool_proofs` proves of the pool as a whole, for every finite set of accounts
(`AccountAssumption`: there are finitely many addresses) and again all amounts, limits, fees and cycles:

* `Solvency_Safe` - the tokens of vault, middleware and register are the IPCOG of
  all accounts. It needs no `Aligned`: a pool that loses a deposit from an
  account's investment still has its tokens;
* `LiquidityBacking_Safe` - the liquidity is the sum of the investments;
* `TypeOK_Safe` - the whole storage keeps its types: no balance, and not the
  liquidity, goes below zero;
* `FirstRequestWaits_Safe` - an action property: a first request waits;
* `ImplementsLedger_Correct` - every step is a step of `PrecogLedger` or changes
  nothing the ledger sees;
* `WindowIsBounded_Safe` - a deposit can be forced out for one configured duration
  from now at most, for everybody, first requests that deposits take back included;
* `UnitConservation_Safe` - of `ReturningSpec`, whose
  accounts have all claimed before: the units of an opened cycle are the sum of what
  the accounts earn there.

All but the first under `Aligned`; `FirstRequestWaits_Safe` also under
`0 \notin WithdrawAmounts`, since `empty_claim` refutes it otherwise; the last from
`ReturningInit`, since `stale_units` refutes it for first requests.

The arguments. *Sums.* `SumTheorems` proves that `SumFunction` of a finite function is
what one expects: of functions that differ at one place (`SumOfChange`), of multiples,
of zeros, of what is not negative. It is proved by induction over the subsets of
the domain, in a form that the provers can use: the library's principles take the
formula as an operator, `NatSetInduction` and `SubsetInduction` take the *set* of
what satisfies it, and follow from the least counterexample (`WFMin`). *Money.* An
action changes one account; what its IPCOG changes by is what tokens move by, because
the branches of `_processHandleIncreaseInvestment` split the amount of a deposit
without loss (`DepositSplit`). *Liquidity.* The same with the invested amount, but there `IInv` is
needed: outside of it an investment is dropped. *Types.* `StorageInv` adds that the
model's pool has no whitelist and no shared profit, so that units and profit records stay
natural numbers; that a forced withdrawal finds its tokens follows from
`Solvency`, the liquidity's sign from `LiquidityBacking`. *First
requests.* `FirstInv` says that an account without a register has no pending request,
and, at the very first time, nothing but a deposit that is too new to be requested
back; otherwise a request at time 0 would be recorded with deadline 0, which the code
takes for none. *Windows.* A window is copied from the last investment, that from the register's
deadline or a new time, and back. `WindowInv` says of all three that they are `Soon`, one duration
from now at most; no step copies a time from anywhere else or adds two durations (`DepositKeepsWindow`,
`WithdrawKeepsWindow`), and time only brings them closer (`SoonFacts`). *Ledger.* One lemma per action; an amount moved is one of
`MovedAmounts`, because a deposit may arrive in part.

*Units.* `UnitsInv` says of an account that has claimed before (`LateInv`) that its
deposits and its requests both take effect at the next funding time, so its last
investment is never after the cycle that a deposit reaches (F above), and of the calendar
that it is one row of cycles of equal length (`StoredRow`). `CountInv`: for some m with
`Len(tradingCycles) - 1 <= m <= F` the cycles 0 .. m are those that are opened, each has
the sum of what the accounts earn in it, and no account's last change is after m. A deposit or request changes
what one account earns in one cycle by as much as the total (`CountedChange`); opening the
cycles up to F gives each of them liquidity x length, which is what the accounts earn
there by `LiquidityBacking`, because none of them changes after m; a forced
withdrawal hits the cycle F only. TLC found `UnitsInv` to hold in the instance of
`returning`, `FirstInv` in that of `account`, before they were proved.

### The profits

`PrecogProfit_proofs` proves of `ReturningProfitSpec`, the pool with its profits whose
accounts have all claimed before, under `Aligned` and for all amounts, profits, prices
of PCOG and fees:

* `ProfitMatchesShares_Safe` - what the accounts took and can take is their share of every
  settled cycle (of all together, since `takeProfit` may pay to another account);
* `ProfitIsCovered_Safe` - PrecogProfit has the PCOG for what all accounts can take;
* `SettledUnitsAreFinal_Safe` - an action property: nothing changes the units of a
  settled cycle.

The argument. *The walk.* The rounds of the loop of `_calculateProfit` are a function on
numbers (`ProfitWalk`), so a property that one round keeps holds after all of them, by
induction on their number (`WalkSteps`). The property is that the record has grown
by what the cycles it has passed give (`EarnedBetween`), and that `lastInvestmentId`
is where the investment of the cycle `lastProfitId` is found (`ProfitStepEarns`). It
needs the ids of the investments to grow strictly (`LatestInOrder`): this is what
`overpaid` breaks, and what `UnitsInv` gives for accounts that have claimed before.
At the end the walk has reached the last settled cycle, wherever it began (`WalkEarns`), and
`CalculateProfitPays` says that the record is then what it was and the shares since.
*The pool.* `PoolInv` collects what was proved of the pool, and `PlainPool`: nobody is
on the whitelist, in the lists or in the units. `SettledInv`: settled cycles are stored in the
calendar, have ended by the clock, and their profits are natural numbers. Every change
of an investment takes effect at the next funding time, after the last cycle that has
ended, so no step changes what somebody earns in a settled one (`SettledStays`).
*The accounts.* `InfosInv`: every account's record is where the walk can go on
(`Reaches`), and the accounts' balances, what each has and is still to get less its
shares, add up to 0. Deposits, requests and forced withdrawals update the
profit after they changed the list, which is why the walk has to meet the old list's entry for
every settled cycle (`StoringKeepsReached`). *The money.* `PcogInv`: the profits of the settled cycles
are no more than what is there and what was taken. The shares of a cycle are rounded down, and
with the units adding up to the total (`CountInv` of the pool) they are at
most its profit (`SharesOfOneCycle`); summed over cycles and accounts
(`SharesAreCovered`) this leaves enough. No `ProfitIsCovered` without
`ProfitMatchesShares`: that nobody was paid twice is the other half.

### The calendar loop

`TradingCycleLoop_proofs` proves for all durations, apply times, timestamps and limits:

* `LoopStopsAtTimestamp` - when the loop of `_updateCurrentTradingCycle` stops, it has
  run as often, and its last cycle is the one, that the closed forms say which
  `PrecogV5` uses in place of the loop;
* `PredictionsAreStable` - what is predicted for a later time does not depend on how
  many of the cycles have been pushed.

The argument. The end of the k-th cycle is a *mark* (`Mark`): old lengths until the
time the new length applies from, then new ones. Marks grow strictly (`MarksAreOrdered`), so
a time lies between exactly two of them (`RoundsUntil`, `RoundsAreUnique`), and the marks
counted from the k-th cycle are those counted from the first, k further on
(`LaterMarks`). `LoopInv` is that the last cycle is the one with as many marks before it as were pushed.

### The deployment store

`ImplStore_proofs` proves, for any number of processes, versions, imported
contracts, transactions and resets, with crashes, torn writes and stale locks
(from `StoreAssumption`, which says that the names of fields, owners and missing
entries are distinct):

* `StoreTypeCorrect` - the types of manifest, chain and processes: an entry has the
  address and the hash of one transaction, or an imported address and no transaction, also after
  merges of what others deployed;
* `CopiesStayCurrent` - the copy that a process has in hand inside `lockedRun` is
  the file, but for its own field;
* `AddressesAreKept` - on a live network an entry that stays loses no address;
* `AddressesStayUnique` - no two fields have one deployed address; on a development
  network an imported one can stay with two, because a clash clears one field only;
* `OnlyInvalidAreRemoved` - only an entry whose deployment failed is removed, or one
  that clashes on a development network, or an import without a transaction for another
  import of the field in which some process found no code (section 4). Imports may have code or
  not, and may lose it when the chain starts again;

and, under the hypothesis `Networks = {FALSE}` (live networks only, stated in the
theorems, since a chain that starts anew forgets its transactions):

* `DeploymentsAreRemembered` - a deployment that may still succeed is in the file,
  or about to be written, or lost by a process that died or found a clash between
  sending and writing;
* `DeployedOnce` - a field is not deployed again while an earlier deployment of it
  may succeed;
* `ReturnedStaysRecorded` - what a call returns is in the file when it returns,
  here without imports (`Foreign = {}`): with them an entry can be removed under a
  call that waits, as in `removed_with_it`.

The argument. The first invariant `IInv` is a property of each process alone:
`HasLocals` (the variables it will use are there), `HoldsLock` (inside `lockedRun`
it owns the lock file, so nobody else writes) and `ReplacesNothing` (on a live
network what it is about to set is empty, or it merges). A step of one process
leaves the others' part alone as soon as it does not touch the files, or could
only do so because it owned the lock or nobody did: `OthersKeep`, `StepOfOne` and
`StepThatEnds` say this once, and each action needs only its own process. The
second invariant `LiveInv` follows the transactions: an entry's own address and
hash belong together and to its field (`EntriesAreOwn`, `InHandIsOwn`), a process
that comes to remove an entry has seen its transaction fail (`InvalidHasFailed`),
and every transaction alive is the one its entry was made with, or in hand, or an
orphan (`AliveAreKept`). `OneDeployment` alone is not inductive: that a second
deployment is never started needs to know that an empty field has no transaction
alive, which is `AliveAreKept`, and that removals hit only failed ones, which is
`InvalidHasFailed`. TLC found both invariants to hold on small instances, with
imports and torn writes, before they were proved.

The properties of single entries have invariants of their own on top of the first.
`AddressInv`: an entry lists its own address and imported ones, and a process that is
about to record has cleared its field and has one address (`FindsOne`), so a new
deployment cannot meet an older one, and a clash is cleared before it is written.
`SoundInv`: what a process has in hand has a transaction of the chain it looks at, and a
failed transaction does not come back (`SoundStays`), so what `FindInvalid` saw fail is
still failed when `Remove` reads the file again. `WaitsForKept`: while a call waits without
the lock for a deployment that may succeed, an entry keeps its address (`KeptStays`, from
`SoundInv`, `LiveInv` and `AddressInv` together).

### Staking

`StakingPool_proofs` proves, for any accounts, amounts, fees, rates, prices, rounds,
check points and times (from `StakingAssumption`; amounts and fees are natural
numbers, the base of the fees is not 0):

* `StakesStayKnown` - the flexible controller has the same amount for every account
  and the same total as the pool, so no unstake is cut to less than was asked for;
* `StakesStayBacked` - when interest is paid in another token, the pool holds all
  that is staked;
* `StakesStayFree` - under the same condition, without periods and before the disable
  time, every stake can be taken out at its deadline, and all of them are there. Its
  hypothesis is that no unstake fee is above the whole: `setPool` does not check the
  rate, and with a higher one `amount - fee` in `unstake` would revert.

The argument. The controllers' functions work on records of which the invariant
knows little: `IsController` says that the fields and the amounts of the accounts are
there. Settling touches neither amounts nor total, however many days it distributes
(`UpdateRewardKeepsStakes`), so each function of the controller changes them exactly
as its name says. `UnstakeStep` needs both properties at once: that the controller
does not cut the amount follows from `StakesAreKnown` and the pool's own check.
`StakesStayFree` takes more: `ExitInv` says that no reward time is ahead of the clock, so
that the controller's subtractions cannot go below zero and its update does not revert,
and that the total is the sum of the stakes (`SumTheorems` again), of which the account's is
a part. TLC checks it in run `staking`.

### The operations on proxies

`Tools_proofs` proves, for any processes, versions, relation `Compatible`, calls and chains
that `StartAssumption` allows (every proxy has an implementation or a beacon that is
there, what is registered is on the chain and has its layout):

* `RegisteredHaveLayouts_Safe` - the implementation behind a registered proxy has its
  layout in the manifest;
* `UpgradesAreCompatible_Safe` - an action property: no upgrade puts an incompatible
  version behind a proxy that still has the implementation it was compared with;
* `UupsStaysUpgradeable_Safe` - an action property: a UUPS proxy that was registered as
  one when the call read the manifest is upgraded to a version without `upgradeTo` only by a
  caller who allows `missing-public-upgradeto`. Of a UUPS proxy that was not registered then, or as another
  kind, nothing is shown: it can lose `upgradeTo`, also when it is registered
  between that read and the transaction.

The argument. `ProxyInv` says of the chain that a contract has an implementation or a
beacon that is there (`ContractsOK`), of the manifest that it names contracts of the chain (`ManifestOK`),
and of each call in progress what it has established so far (`CallInv`): its target is a
proxy or beacon of its kind (`NamesTarget`), what it deployed is recorded
with a layout before a transaction or an entry refers to it (`RecordsImpl`), when it gets to
upgrade it has compared the version it read with the one it brings, or was told to skip
that (`ComparesLayouts`), and what it checked of the kind is what the manifest said then
(`KeepsKind`). A call's part depends on its own record and on facts that no other process
takes back: contracts stay and keep their type, layouts stay. So a step of one process keeps
the others' part, and `UpgradesAreCompatible` follows from `ComparesLayouts` alone at the one
action that upgrades. `RegisteredHaveLayouts` is inductive only with `RecordsImpl`: between the
check and the entry in the manifest other calls may come.

### The deployment scripts

Also `Tools_proofs`, for any scripts, starts and contracts given in the config files that have
no needs themselves (`GivenAssumption`):

* `RecordedAreComplete_Safe` - a contract in the file is the one its key says, is set up
  and was built from the contracts of the file;
* `StorageKnowsConfig_Safe` - after a run of migration 8 the storage knows the contracts of
  the file.

The argument. What the file names is complete because the scripts write last: `ScriptInv`
has that the file is complete, that the step reached and the local variables belong together
(`StepOK`, `LocalsOK`), that the addresses in hand are those of the file for the keys
before the present one, whichever run made them (`FileFollows`), and that the storage has been
told the addresses up to the present setter and no others (`StorageFollows`). `StorageKnowsConfig` for the present
run alone would not do: the file can name contracts of earlier runs that stopped before
the setters, and holds because the setters run for every key in every run. TLC checked
`ScriptInv` on the instance of `scripts` before it was proved.

### The validation

Also `Tools_proofs`, for any project of which `ValidationAssumption` holds (its contracts are
finitely many, parents and libraries are among them, an artifact is named for its contract, and
a compiler run gives different things different ids), with artifacts of any compiler runs, any order in
which the sources are visited, and any choice between ids that collide:

* `PassedIsSafe_Safe` - what passes has no unsafe construct in its own code that the caller did
  not allow; and under `NamesResolve` (the ids by which its ancestors and libraries are looked up stand
  for one name each) neither has any code of its proxy, and a UUPS implementation can be upgraded
  again unless that is allowed too. `OneRunResolves` says when that is so: all artifacts come from one
  run of the compiler and contracts have different names;
* `DroppedIsIncomplete_Safe` - a source is dropped only if its imports lead to one that is
  missing, and the dropping fails to end only in a cycle of imports.

The argument. *What can be reached.* `Reachable` follows the edges of a graph as many
rounds as there are contracts and sources. `Iteration` shows that such a recursive function
exists, and `GrowReaches` that the rounds are enough: a round that adds nothing is the last, and
one that adds something needs an element with edges of its own. So what is reached is the
least set that holds the start and is closed (`IsReached`), which is all that the rest uses.
*Dropping.* An edge of `dependencies` is an import turned round (`AreImports`). A source
that is reached along these edges from one with an unknown path reaches that
path along imports (`DroppedImports`), and a source that is reached from itself imports
itself (`ComingBackIsCyclic`). *Passing.* `ValidationInv` has that the validation
was made of the output as it is. Under `NamesResolve` an id of a contract that is left leads to
its name or to nothing (`LookUp`). If no name that a call collects is undefined, nothing
of the contract's code was in a dropped source: then what is inherited is all the
ancestors, and the set that is collected is closed under the libraries of the sources too
(`UsedHasCode`). That an unlinked library is noticed takes only that the scan finds one placeholder
where there are some (`PlaceholdersAreFound`), however many of them it skips.

### The conversion of old projects

Also `Tools_proofs`, for any networks, files, stops and runs. Of the files that the CLI left
`MigrationAssumption` says that none is a manifest of the plugin, and that the types
of a contract are an object's entries, one for each name.

* `ProxiesAreKept_Safe` - no proxy of the CLI is lost, nor one that the plugin adds on a public
  network, but to a write that was cut short;
* `LayoutsAreKept_Safe` - every implementation in a new manifest is one that the CLI knew under
  its hash, and its layout is read as before, however deep (`Depth`) structs nest.

The argument. *Files.* `MigrationInv` says for each network what its files can be: what
the CLI left, torn, or a manifest made of it (`PublicFile`, `UnknownFiles`). It is
inductive because of what the script holds between reading and writing: a new
manifest is made of the old file, and the file of a public network has not changed since
(`IsConverted`), as the plugin refuses files of the CLI; so the write loses no
proxy that the plugin added. Only networks whose new manifest is still held may
lack proxies where the plugin looks (`HasProxies`), which is then true of none when the project
file is deleted. *Layouts.* The made-up number of a struct or an enum is its
place in the list, so different types get different names (`NewNamesAreDistinct`), and under
the new name stands what was made of the type (`DeclarationsAreKept`). A reader who
starts at the variables only meets names that the contract uses, each with the new
name it was given (`MetTypesAreUsed`), and these look alike (`NewNamesLookAlike`). TLC checked
`MigrationInv` on the instance of `scripts` before it was proved.

### Only model-checked

* `ProfitMatchesShares` and the other profit properties from `ProfitInit`, for accounts
  with first requests: only within the bounds of `profit`, and `ProfitIsCovered` not at all,
  since it is false (`overpaid`).
* `EditsAreMinimal`, `AcceptedKeepsData`, `AppendingPasses` of `StorageCompare`: the matrix
  and the types are recursive over the data, and the proof would be an induction over
  them.
* `InterestIsForStakedTime` and `SharesArePaid` of staking. Interest is rounded down at every
  settling, and the property allows less than a unit for each (`RoundedOff`). Shares are exact
  in the instances (`Precision` divides every product): with rounding an account may lose less than a
  unit there too, so for all constants the lower bound does not hold and no theorem states it.
* Liveness under fairness (`RegisterIsSettled`, `CallsEnd`) and `ENABLED`
  (`ClaimableAtDeadline`) are out of the prover's reach.

## 6. Plan

Done: the pool with its profits, ledger and calendar; the deployment store, the
comparison of layouts, the validation, the operations on proxies, the deployment
scripts and the conversion of old projects; staking; the proofs above. Left, in this
order:

1. **PrecogWhitelist**: `turnOnWhitelist`, `turnOffWhitelist`; whitelist
   liquidity and units are those of the listed accounts, and their profit in the
   pool's token (`WhitelistProfit`) is covered as well.
2. **PrecogCore**: `setCycleConfiguration`, limits and fees as actions;
   predictions made before a change still hold, requests and registers agree on
   deadlines, apply times never move backwards. A run with a change in each
   phase of a cycle.
3. **PrecogFactory**: add, remove and re-add a pool, the vault's remainder.
4. **Faucet**: the list of supported tokens against the flags.
5. Proofs: the upper bound of `InterestIsForStakedTime`; the profits of
   accounts with first requests, for which `ProfitMatchesShares` may hold although
   `ProfitIsCovered` does not.

## 7. Not modelled, and why

* The whitelist switches, changes of the configuration, the removal and
  re-adding of pools, and the faucet: the plan above.
* Of staking: `setPool` with other controllers (ids of rewards are positions in that
  list), pools with any number of controllers, the setters of the factory and the
  views. No function pauses a pool.
* PCOG and its proxies and `common/`: standard library code. Roles appear as who
  takes which action.
* The middleware exchange and price feed wrap external services; the exchange is a
  nondeterministic amount in `PrecogProfit`.
* Of the tooling: the wording of reports and errors, the extraction of layouts and
  the search for unsafe constructs in the syntax tree (long walks over the
  compiler's output, given as data), the parsing of type identifiers, the upgrade
  of old validation data and of manifests of older formats of `upgrades-core`, and
  the network configuration files.
* Migrations 1, 3 to 7 and 9: 3 to 7 pass arguments that the constructors no
  longer take, 1 and 9 deploy one contract and keep no state.
* `mock/`, `configs/`, `test/` and `scripts/auto-test.js` (a console client of an
  older version) keep no state of the running system. Tests were read for what they
  say about the program.
