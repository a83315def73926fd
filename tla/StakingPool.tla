---------------------------- MODULE StakingPool ----------------------------
(***************************************************************************)
(* PCOG staking: one StakingPool with the two reward controllers that a    *)
(* deployment gives it.  The first, an APRRewardController, pays interest  *)
(* on what an account has staked; the second, a FlexibleRewardController,  *)
(* shares a rate per second among all stakes until the end of a round.     *)
(*                                                                         *)
(* A transaction is one step, and one that reverts is no step: an unsigned *)
(* subtraction that would go below zero, a check point that is not defined *)
(* and a transfer of more than the pool holds are guards.  Wallets have    *)
(* what they stake.  What an account was entitled to and what it was paid  *)
(* is recorded in variables that no action reads.                          *)
(***************************************************************************)
EXTENDS Integers, FiniteSets, FiniteSetsExt

CONSTANTS
    Accounts,
    StakeAmounts, UnstakeAmounts, ClaimAmounts, MinimumAmounts, FundAmounts,
    Pools,              \* settings an administrator gives the pool
    AprTokens,          \* "PCOG", "WBTC": the token that interest is paid in
    Prices,             \* WBTC for PCOG, as pairs <<out, in>>
    InterestRates, RewardRates, Durations,
    Periods, CheckPoints, DisableTimes,
    HundredPercent,     \* 10000 in the code
    InterestBase,       \* 365 days * PRECISION_FACTOR
    Precision, RewardPrecision, Day,
    Unlimited,          \* type(uint).max
    StartTime, MaxTime  \* bound: the last block time

ASSUME StakingAssumption ==
    /\ IsFiniteSet(Accounts)
    /\ {HundredPercent, InterestBase, Precision, RewardPrecision, Day, StartTime} \subseteq Nat \ {0}
    /\ MaxTime \in Nat /\ Unlimited \in Nat /\ StartTime <= MaxTime /\ MaxTime < Unlimited
    /\ AprTokens \subseteq {"PCOG", "WBTC"}
    /\ StakeAmounts \union UnstakeAmounts \union FundAmounts \subseteq Nat
    /\ Periods \union CheckPoints \union DisableTimes \subseteq Nat
    /\ \A p \in Pools : p.stakeFeeRate \in Nat
    /\ \A p \in Prices : p[1] \in Nat /\ p[2] \in Nat \ {0}

VARIABLES
    now, price, aprToken,
    pool, minimumStakeAmount, userStaking, totalStaked, stakersCount, userRewardDebt,
    apr, flexible,      \* the controllers
    tokens,             \* what the pool holds
    least, most, share, \* history: interest at the lowest rate before the disable
                        \* time, less what settling rounds off; at the highest rate
                        \* ever; part of the shared reward
    paid                \* history: claims and penalties

Rewards == {"apr", "flexible"}
settings == <<pool, minimumStakeAmount, aprToken>>
stakingVars == <<userStaking, totalStaked, stakersCount, userRewardDebt>>
entitlements == <<least, most, share>>
vars == <<now, price, settings, stakingVars, apr, flexible, tokens, entitlements, paid>>

----------------------------------------------------------------------------
(* BaseRewardController.  A stake earns until the check point of its day. *)

LatestCheckPoint(c, timestamp) ==
    IF c.period = Unlimited THEN Unlimited
    ELSE ((timestamp - c.dailyCheckPoint) \div Day) * Day + c.period + c.dailyCheckPoint

HasCheckPoint(c, timestamp) == c.period = Unlimited \/ timestamp > c.dailyCheckPoint

----------------------------------------------------------------------------
(* APRRewardController *)

RewardTime(c, user) ==
    Min({LatestCheckPoint(c, user.stakedTime), now, c.disableTime})

\* updateReward does not revert.
CanUpdateInterest(c, a) ==
    /\ HasCheckPoint(c, c.users[a].stakedTime)
    /\ c.users[a].lastRewardTime <= RewardTime(c, c.users[a])

Interest(c, a) ==
    LET user == c.users[a]
    IN user.storedReward
           + (user.amount * (RewardTime(c, user) - user.lastRewardTime) * c.interestRate)
                 \div InterestBase

\* History: an update that adds time rounds less than a unit off.
RoundedOff(a) ==
    IF apr.users[a].amount > 0 /\ apr.users[a].lastRewardTime < RewardTime(apr, apr.users[a])
    THEN InterestBase - 1 ELSE 0

InterestIsSettled(a) ==
    /\ least' = [least EXCEPT ![a] = @ - RoundedOff(a)]
    /\ UNCHANGED <<most, share>>

\* Mutant: the time is not moved on.
MutantUpdateInterest(c, a) == [c EXCEPT !.users[a].storedReward = Interest(c, a)]

UpdateInterest(c, a) ==
    [c EXCEPT !.users[a].storedReward = Interest(c, a),
              !.users[a].lastRewardTime = Min({LatestCheckPoint(c, c.users[a].stakedTime), now})]

AprStake(c, a, amount) ==
    [UpdateInterest(c, a) EXCEPT !.users[a].amount = @ + amount,
                                 !.users[a].stakedTime = now,
                                 !.totalStaked = @ + amount]

\* Mutant: more is taken away than there is, which reverts.
MutantRemovable(c, a, amount) == amount

\* The price may have changed since the stake.
Removable(c, a, amount) == Min({amount, c.users[a].amount})

AprUnstake(c, a, amount) ==
    [UpdateInterest(c, a) EXCEPT !.users[a].amount = @ - Removable(c, a, amount),
                                 !.totalStaked = @ - Removable(c, a, amount)]

\* verifyRewards returns Interest(c, a).
AprVerify(c, a) == [UpdateInterest(c, a) EXCEPT !.users[a].storedReward = 0]

----------------------------------------------------------------------------
(* FlexibleRewardController *)

DeltaTime(f) == Min({f.endTime, now}) - f.lastRewardTime

PerShare(f, seconds) == (seconds * f.rewardPerSec * Precision) \div f.totalStaked

CanUpdateReward(f) ==
    (DeltaTime(f) = 0 \/ f.totalStaked = 0) \/ f.dailyCheckPoint <= f.lastRewardTime

\* _updateRewardAtDailyCheckPoint and what updateReward adds for the rest of
\* the time: a first round to the next check point and whole days after it.
\* The first round moves the check point on by its own length only.
Distribute(f) ==
    LET first   == Day - ((f.lastRewardTime - f.dailyCheckPoint) % Day)
        delta   == DeltaTime(f)
        rounds  == IF delta < Day THEN 0 ELSE 1 + (delta - first) \div Day
        Key(k)  == f.lastRewardTime + first + (IF k = 1 THEN 0 ELSE first + (k - 2) * Day)
        Acc(k)  == f.accRewardPerShare
                       + (IF k = 0 THEN 0 ELSE PerShare(f, first) + (k - 1) * PerShare(f, Day))
        rest    == delta - (IF rounds = 0 THEN 0 ELSE first + (rounds - 1) * Day)
        written == {Key(k) : k \in 1 .. rounds}
    IN [f EXCEPT
           !.accRewardPerShare = Acc(rounds) + PerShare(f, rest),
           !.accRewardsPerShare =
               [t \in DOMAIN @ \union written |->
                   IF t \in written THEN Acc(CHOOSE k \in 1 .. rounds : Key(k) = t) ELSE @[t]],
           !.lastRewardTime = @ + delta]

UpdateReward(f) ==
    IF DeltaTime(f) = 0 THEN [f EXCEPT !.rewardPerSec = IF now > f.endTime THEN 0 ELSE @]
    ELSE IF f.totalStaked = 0 THEN [f EXCEPT !.lastRewardTime = @ + DeltaTime(f)]
    ELSE Distribute(f)

AccRewardAt(f, user) ==
    LET checkPoint == LatestCheckPoint(f, user.stakedTime)
    IN IF now < checkPoint THEN f.accRewardPerShare
       ELSE IF checkPoint \in DOMAIN f.accRewardsPerShare THEN f.accRewardsPerShare[checkPoint]
       ELSE 0

\* Mutant: only what the last action has left is stored.
MutantStoredReward(f, user) == user.storedReward

\* storedReward + _getPendingReward(user)
StoredReward(f, user) ==
    user.storedReward
        + IF user.amount = 0 THEN 0
          ELSE Max({0, (user.amount * AccRewardAt(f, user)) \div Precision - user.rewardDebt})

Debt(f, amount) == (amount * f.accRewardPerShare) \div Precision

\* updateReward and the reward of the account do not revert.
CanUpdateShares(f, a) ==
    /\ CanUpdateReward(f)
    /\ f.users[a].amount > 0 => HasCheckPoint(f, f.users[a].stakedTime)

\* The debt is that of the amount before.
FlexibleStake(old, a, amount) ==
    LET f == UpdateReward(old)
        user == old.users[a]
    IN [f EXCEPT !.users[a] = [amount       |-> user.amount + amount,
                               rewardDebt   |-> Debt(f, user.amount),
                               storedReward |-> StoredReward(f, user),
                               stakedTime   |-> now],
                 !.totalStaked = @ + amount]

FlexibleUnstake(old, a, amount) ==
    LET f == UpdateReward(old)
        user == old.users[a]
    IN [f EXCEPT !.users[a] = [amount       |-> user.amount - Removable(f, a, amount),
                               rewardDebt   |-> Debt(f, user.amount),
                               storedReward |-> StoredReward(f, user),
                               stakedTime   |-> user.stakedTime],
                 !.totalStaked = @ - Removable(f, a, amount)]

\* verifyRewards returns FlexibleReward(f, a).
FlexibleReward(f, a) == StoredReward(UpdateReward(f), f.users[a]) \div RewardPrecision

FlexibleVerify(old, a) ==
    LET f == UpdateReward(old)
    IN [f EXCEPT !.users[a].storedReward = 0,
                 !.users[a].rewardDebt = Debt(f, old.users[a].amount)]

----------------------------------------------------------------------------
(* StakingPool *)

\* _handleCountStakers
Stakers(old, new) ==
    IF old = 0 /\ new # 0 THEN stakersCount + 1
    ELSE IF old # 0 /\ new = 0 THEN stakersCount - 1 ELSE stakersCount

Part(amount, rate) == (amount * rate) \div HundredPercent

\* getAmountOut of the price feed, which answers an amount of PCOG with itself
InAprToken(amount) ==
    IF aprToken = "PCOG" THEN amount ELSE (amount * price[1]) \div price[2]

\* What a transaction sends, per token.
Sends(stake, aprReward, flexibleReward) ==
    [t \in {"PCOG", "WBTC"} |->
        (IF t = "PCOG" THEN stake ELSE 0) + (IF t = aprToken THEN aprReward ELSE 0)
            + (IF t = "WBTC" THEN flexibleReward ELSE 0)]

Send(sent) ==
    /\ \A t \in DOMAIN tokens : sent[t] <= tokens[t]
    /\ tokens' = [t \in DOMAIN tokens |-> tokens[t] - sent[t]]

Stake(a, offered) ==
    LET amount == offered - Part(offered, pool.stakeFeeRate)
        old    == userStaking[a].amount
    IN /\ offered >= minimumStakeAmount
       /\ amount >= 0
       /\ amount + old <= pool.quota
       /\ CanUpdateInterest(apr, a) /\ CanUpdateShares(flexible, a)
       /\ apr' = AprStake(apr, a, InAprToken(amount))
       /\ flexible' = FlexibleStake(flexible, a, amount)
       /\ stakersCount' = Stakers(old, old + amount)
       /\ userStaking' =
              [userStaking EXCEPT ![a] = [amount   |-> old + amount,
                                          deadline |-> now + pool.stakingPeriod]]
       /\ totalStaked' = totalStaked + amount
       /\ tokens' = [tokens EXCEPT !["PCOG"] = @ + amount]
       /\ InterestIsSettled(a)
       /\ UNCHANGED <<now, price, settings, userRewardDebt, paid>>

\* Both controllers take the stake out and pay off the reward.
CanUnstake(a, amount) ==
    /\ Part(amount, pool.unstakeFeeRate) <= amount /\ amount <= userStaking[a].amount
    /\ CanUpdateInterest(apr, a)
    /\ Removable(apr, a, InAprToken(amount)) <= apr.users[a].amount
    /\ CanUpdateInterest(AprUnstake(apr, a, InAprToken(amount)), a)
    /\ CanUpdateShares(flexible, a)

Unstake(a, amount) ==
    LET c       == AprUnstake(apr, a, InAprToken(amount))
        f       == FlexibleUnstake(flexible, a, amount)
        old     == userStaking[a].amount
        early   == now < userStaking[a].deadline
        Penalty(reward) == IF early THEN Part(reward, pool.penaltyRate) ELSE 0
        reward  == [apr |-> Interest(c, a), flexible |-> FlexibleReward(f, a)]
    IN /\ CanUnstake(a, amount)
       /\ \A r \in Rewards : Penalty(reward[r]) <= reward[r]
       /\ apr' = AprVerify(c, a)
       /\ flexible' = FlexibleVerify(f, a)
       /\ userRewardDebt' = [userRewardDebt EXCEPT ![a] =
              [r \in Rewards |-> @[r] + reward[r] - Penalty(reward[r])]]
       /\ stakersCount' = Stakers(old, old - amount)
       /\ userStaking' = [userStaking EXCEPT ![a].amount = @ - amount]
       /\ totalStaked' = totalStaked - amount
       /\ Send(Sends(amount, Penalty(reward["apr"]), Penalty(reward["flexible"])))
       /\ paid' = [paid EXCEPT ![a] = [r \in Rewards |-> @[r] + Penalty(reward[r])]]
       /\ InterestIsSettled(a)
       /\ UNCHANGED <<now, price, settings>>

ClaimReward(a, r, amount) ==
    LET reward  == IF r = "apr" THEN Interest(apr, a) ELSE FlexibleReward(flexible, a)
        claimed == Min({amount, userRewardDebt[a][r] + reward})
    IN /\ \/ /\ r = "apr" /\ CanUpdateInterest(apr, a)
             /\ apr' = AprVerify(apr, a)
             /\ Send(Sends(0, claimed, 0))
             /\ InterestIsSettled(a)
             /\ UNCHANGED flexible
          \/ /\ r = "flexible" /\ CanUpdateShares(flexible, a)
             /\ flexible' = FlexibleVerify(flexible, a)
             /\ Send(Sends(0, 0, claimed))
             /\ UNCHANGED <<apr, entitlements>>
       /\ userRewardDebt' = [userRewardDebt EXCEPT ![a][r] = @ + reward - claimed]
       /\ paid' = [paid EXCEPT ![a][r] = @ + claimed]
       /\ UNCHANGED <<now, price, settings, userStaking, totalStaked, stakersCount>>

----------------------------------------------------------------------------
(* Calls of the controllers themselves: anyone settles, the middleware     *)
(* changes rates and starts rounds, an administrator sets limits.          *)

OnApr(c) == apr' = c /\ UNCHANGED flexible
OnFlexible(f) == flexible' = f /\ UNCHANGED apr

Settle ==
    \/ \E a \in Accounts :
           CanUpdateInterest(apr, a) /\ OnApr(UpdateInterest(apr, a)) /\ InterestIsSettled(a)
    \/ CanUpdateReward(flexible) /\ OnFlexible(UpdateReward(flexible)) /\ UNCHANGED entitlements

SetInterestRate(rate) == OnApr([apr EXCEPT !.interestRate = rate])

\* updateRewardInfo of the flexible controller
StartRound(rate, duration) ==
    /\ CanUpdateReward(flexible)
    /\ OnFlexible([UpdateReward(flexible) EXCEPT !.rewardPerSec = rate,
                                                 !.endTime = now + duration,
                                                 !.lastRewardTime = now])

SetDailyCheckPoint(value) ==
    \/ OnApr([apr EXCEPT !.dailyCheckPoint = value])
    \/ OnFlexible([flexible EXCEPT !.dailyCheckPoint = value])

SetPeriod(value) ==
    \/ OnApr([apr EXCEPT !.period = value])
    \/ OnFlexible([flexible EXCEPT !.period = value])

\* The flexible controller never reads its own.
SetDisableTime(value) == value > now /\ OnApr([apr EXCEPT !.disableTime = value])

ControllerCall ==
    /\ \/ Settle
       \/ /\ \/ \E rate \in InterestRates : SetInterestRate(rate)
             \/ \E rate \in RewardRates, duration \in Durations : StartRound(rate, duration)
             \/ \E value \in CheckPoints : SetDailyCheckPoint(value)
             \/ \E value \in Periods : SetPeriod(value)
             \/ \E value \in DisableTimes : SetDisableTime(value)
          /\ UNCHANGED entitlements
    /\ UNCHANGED <<now, price, settings, stakingVars, tokens, paid>>

SetPool(p) ==
    /\ pool' = p
    /\ UNCHANGED <<now, price, aprToken, minimumStakeAmount, stakingVars,
                   apr, flexible, tokens, entitlements, paid>>

SetMinimumStakeAmount(value) ==
    /\ minimumStakeAmount' = value
    /\ UNCHANGED <<now, price, aprToken, pool, stakingVars,
                   apr, flexible, tokens, entitlements, paid>>

----------------------------------------------------------------------------
(* Around the contracts: the price changes, somebody sends the pool tokens *)
(* to pay rewards with, and time passes.                                   *)

SetPrice(p) ==
    /\ price' = p
    /\ UNCHANGED <<now, settings, stakingVars, apr, flexible, tokens, entitlements, paid>>

Fund(token, amount) ==
    /\ tokens' = [tokens EXCEPT ![token] = @ + amount]
    /\ UNCHANGED <<now, price, settings, stakingVars, apr, flexible, entitlements, paid>>

Staked == SumFunction([a \in Accounts |-> userStaking[a].amount])

PartOfRate(a) ==
    IF now < flexible.endTime /\ Staked > 0
    THEN (flexible.rewardPerSec * userStaking[a].amount) \div Staked
    ELSE 0

Tick ==
    /\ now < MaxTime
    /\ now' = now + 1
    /\ least' = [a \in Accounts |->
          least[a] + IF now < apr.disableTime THEN apr.users[a].amount * Min(InterestRates) ELSE 0]
    /\ most' = [a \in Accounts |-> most[a] + apr.users[a].amount * Max(InterestRates)]
    /\ share' = [a \in Accounts |-> share[a] + PartOfRate(a)]
    /\ UNCHANGED <<price, settings, stakingVars, apr, flexible, tokens, paid>>

----------------------------------------------------------------------------

Zero == [a \in Accounts |-> 0]
ZeroRewards == [a \in Accounts |-> [r \in Rewards |-> 0]]

\* createPool
CreatePool(sent) ==
    /\ now = StartTime /\ price \in Prices /\ aprToken \in AprTokens
    /\ pool \in Pools /\ minimumStakeAmount = 0
    /\ userStaking = [a \in Accounts |-> [amount |-> 0, deadline |-> 0]]
    /\ totalStaked = 0 /\ stakersCount = 0 /\ userRewardDebt = ZeroRewards
    /\ \E rate \in InterestRates :
          apr = [period |-> Unlimited, dailyCheckPoint |-> 0, disableTime |-> Unlimited,
                 interestRate |-> rate, totalStaked |-> 0,
                 users |-> [a \in Accounts |-> [amount |-> 0, lastRewardTime |-> 0,
                                                storedReward |-> 0, stakedTime |-> 0]]]
    /\ flexible = [period |-> Unlimited, dailyCheckPoint |-> 0,
                   rewardPerSec |-> 0, endTime |-> 0, lastRewardTime |-> 0,
                   accRewardPerShare |-> 0, totalStaked |-> 0,
                   users |-> [a \in Accounts |-> [amount |-> 0, rewardDebt |-> 0,
                                                  storedReward |-> 0, stakedTime |-> 0]],
                   accRewardsPerShare |-> <<>>]
    /\ tokens = sent
    /\ least = Zero /\ most = Zero /\ share = Zero /\ paid = ZeroRewards

StakingInit == CreatePool([PCOG |-> 0, WBTC |-> 0])

UserCall ==
    \E a \in Accounts :
        \/ \E amount \in StakeAmounts : Stake(a, amount)
        \/ \E amount \in UnstakeAmounts : Unstake(a, amount)
        \/ \E r \in Rewards, amount \in ClaimAmounts : ClaimReward(a, r, amount)

AdminCall ==
    \/ \E p \in Pools : SetPool(p)
    \/ \E value \in MinimumAmounts : SetMinimumStakeAmount(value)

Surroundings ==
    \/ \E p \in Prices : SetPrice(p)
    \/ \E token \in DOMAIN tokens, amount \in FundAmounts : Fund(token, amount)
    \/ Tick

StakingNext == UserCall \/ ControllerCall \/ AdminCall \/ Surroundings

StakingSpec == StakingInit /\ [][StakingNext]_vars

----------------------------------------------------------------------------
(* Properties *)

NoPeriods == apr.period = Unlimited /\ flexible.period = Unlimited

\* The flexible controller, which keeps amounts and a total of its own, agrees
\* with the pool on every stake: no unstake is cut to less than was asked for.
StakesAreKnown ==
    /\ flexible.totalStaked = totalStaked
    /\ \A a \in Accounts : flexible.users[a].amount = userStaking[a].amount

\* The pool holds what is staked while it pays no interest in the staked token.
StakesAreBacked == aprToken # "PCOG" => totalStaked <= tokens["PCOG"]

\* The total is that of the accounts, and the pool holds it.
StakesAreHeld == totalStaked = Staked /\ Staked <= tokens["PCOG"]

StakesAreReleased ==
    \A a \in Accounts :
        NoPeriods /\ CanUpdateReward(flexible) => CanUnstake(a, userStaking[a].amount)

\* While interest is paid in another token, no period limits rewards and the
\* disable time is not past, a stake can be taken out when its deadline is
\* reached, and all of them together: whatever the price has done since, and
\* whatever fees, penalties and rewards were paid, no controller refuses (but
\* for a check point in the future) and the tokens are there.
StakesCanLeave ==
    aprToken # "PCOG" /\ now <= apr.disableTime => StakesAreHeld /\ StakesAreReleased

\* Claims, penalties, what the pool still owes and what the controller would
\* add now: the interest of the time that a stake was there, between what the
\* lowest rate gives before the disable time and what the highest gives.  Each
\* update that adds time rounds down and loses less than a unit of the token.
\* Since anybody can settle, and in every block, that can be all the interest of
\* an amount that earns less than a unit between two blocks.
InterestIsForStakedTime ==
    \A a \in Accounts :
        LET interest == paid[a]["apr"] + userRewardDebt[a]["apr"] + Interest(apr, a)
        IN NoPeriods /\ CanUpdateInterest(apr, a) =>
               /\ least[a] - RoundedOff(a) <= interest * InterestBase
               /\ interest * InterestBase <= most[a]

SharedReward(a) ==
    paid[a]["flexible"] + userRewardDebt[a]["flexible"] + FlexibleReward(flexible, a)

\* Each account gets at least its part of every second of a round, however the
\* accounts join, leave, claim and settle, and across rounds.
SharesArePaid ==
    \A a \in Accounts : NoPeriods /\ CanUpdateShares(flexible, a) => share[a] <= SharedReward(a)

\* As the test has it: an account gets its part of the reward, and no more.
OnlySharesArePaid ==
    \A a \in Accounts : NoPeriods /\ CanUpdateShares(flexible, a) => SharedReward(a) <= share[a]
=============================================================================
