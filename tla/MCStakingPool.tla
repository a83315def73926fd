--------------------------- MODULE MCStakingPool ---------------------------
(***************************************************************************)
(* Small instances of StakingPool for TLC.                                 *)
(***************************************************************************)
EXTENDS StakingPool, TLC

\* Bounds: changes of stakes, other transactions, and those that change settings
CONSTANTS MaxStakes, MaxSettings, MaxCalls, Funds
ASSUME {Funds, MaxStakes, MaxSettings, MaxCalls} \subseteq Nat

VARIABLES stakes, changes, calls

mcVars == <<vars, stakes, changes, calls>>

SettingsNow ==
    <<settings, price, apr.period, apr.dailyCheckPoint, apr.disableTime,
      flexible.period, flexible.dailyCheckPoint>>

\* Somebody has sent the pool what it pays rewards with.  Other rates, prices
\* and pools come by the calls that set them.
MCInit ==
    /\ CreatePool([PCOG |-> 0, WBTC |-> Funds]) /\ stakes = 0 /\ changes = 0 /\ calls = 0
    /\ apr.interestRate = 1 /\ price = <<1, 1>> /\ pool.stakingPeriod = 1

MCNext ==
    /\ StakingNext
    /\ stakes' = stakes + IF userStaking' = userStaking THEN 0 ELSE 1
    /\ changes' = changes + IF SettingsNow' = SettingsNow THEN 0 ELSE 1
    /\ calls' = calls + IF <<stakes, now>>' = <<stakes, now>> THEN 1 ELSE 0
    /\ stakes' <= MaxStakes /\ changes' <= MaxSettings /\ calls' <= MaxCalls

MCSpec == MCInit /\ [][MCNext]_mcVars

Settings(period, fee, penalty) ==
    [quota |-> 2, stakingPeriod |-> period, stakeFeeRate |-> fee, unstakeFeeRate |-> fee,
     penaltyRate |-> penalty]

MCPools == {Settings(0, 0, 0), Settings(1, 1, 1)}
MCPrices == {<<1, 1>>, <<2, 1>>}

AccountSymmetry == Permutations(Accounts)
=============================================================================
