------------------------- MODULE StakingPool_proofs -------------------------
(***************************************************************************)
(* Proofs about the staking pool for any accounts, amounts, fees, rates,   *)
(* prices, rounds and times: what it and its flexible controller know of a *)
(* stake, and that the staked tokens are there.                            *)
(***************************************************************************)
EXTENDS StakingPool, SumTheorems, TLAPS

----------------------------------------------------------------------------
(* The inductive invariant. *)

\* Where a controller, or the pool, keeps the amount of an account.
HasAmounts(users) ==
    Accounts \subseteq DOMAIN users /\ \A a \in Accounts : "amount" \in DOMAIN users[a]

\* A flexible controller, as far as the stakes go.
IsController(f) == {"users", "totalStaked"} \subseteq DOMAIN f /\ HasAmounts(f.users)

Shapes ==
    /\ pool \in Pools
    /\ DOMAIN tokens = {"PCOG", "WBTC"}
    /\ aprToken # "PCOG" => tokens["PCOG"] \in Int
    /\ totalStaked \in Int
    /\ IsController(flexible)
    /\ HasAmounts(userStaking)
    /\ \A a \in Accounts : userStaking[a].amount \in Nat

IInv == Shapes /\ StakesAreKnown /\ StakesAreBacked

----------------------------------------------------------------------------
(* What the operators leave alone. *)

\* The smaller of two numbers.
LEMMA MinOfTwo ==
    ASSUME NEW x \in Int, NEW y \in Int, x <= y
    PROVE  Min({x, y}) = x
  <1>1. \A z \in {x, y} : x <= z
    OBVIOUS
  <1>2. \A z \in {x, y} : (\A u \in {x, y} : z <= u) => z = x
    OBVIOUS
  <1> QED
    BY <1>1, <1>2 DEF Min

\* Settling distributes rewards and leaves the stakes as they are.
LEMMA UpdateRewardKeepsStakes ==
    ASSUME NEW f, IsController(f)
    PROVE  /\ DOMAIN UpdateReward(f) = DOMAIN f
           /\ UpdateReward(f).users = f.users
           /\ UpdateReward(f).totalStaked = f.totalStaked
  <1>1. /\ DOMAIN Distribute(f) = DOMAIN f
        /\ Distribute(f).users = f.users
        /\ Distribute(f).totalStaked = f.totalStaked
    BY DEF Distribute, IsController
  <1> QED
    BY <1>1 DEF UpdateReward, IsController

\* Staking and unstaking change the stake of one account.
LEMMA StakeKeepsController ==
    ASSUME NEW f, IsController(f), NEW a \in Accounts, NEW amount
    PROVE  /\ IsController(FlexibleStake(f, a, amount))
           /\ FlexibleStake(f, a, amount).totalStaked = f.totalStaked + amount
           /\ FlexibleStake(f, a, amount).users[a].amount = f.users[a].amount + amount
           /\ \A b \in Accounts \ {a} : FlexibleStake(f, a, amount).users[b] = f.users[b]
  <1> DEFINE u == UpdateReward(f)
             user == [amount       |-> f.users[a].amount + amount,
                      rewardDebt   |-> Debt(u, f.users[a].amount),
                      storedReward |-> StoredReward(u, f.users[a]),
                      stakedTime   |-> now]
  <1>1. DOMAIN u = DOMAIN f /\ u.users = f.users /\ u.totalStaked = f.totalStaked
    BY UpdateRewardKeepsStakes
  <1>2. FlexibleStake(f, a, amount) =
            [u EXCEPT !.users[a] = user, !.totalStaked = @ + amount]
    BY DEF FlexibleStake
  <1>3. "amount" \in DOMAIN user /\ user.amount = f.users[a].amount + amount
    OBVIOUS
  <1> QED
    BY <1>1, <1>2, <1>3 DEF IsController, HasAmounts

LEMMA UnstakeKeepsController ==
    ASSUME NEW f, IsController(f), NEW a \in Accounts, NEW amount \in Nat,
           f.users[a].amount \in Nat, amount <= f.users[a].amount
    PROVE  /\ IsController(FlexibleUnstake(f, a, amount))
           /\ FlexibleUnstake(f, a, amount).totalStaked = f.totalStaked - amount
           /\ FlexibleUnstake(f, a, amount).users[a].amount = f.users[a].amount - amount
           /\ \A b \in Accounts \ {a} : FlexibleUnstake(f, a, amount).users[b] = f.users[b]
  <1> DEFINE u == UpdateReward(f)
             user == [amount       |-> f.users[a].amount - amount,
                      rewardDebt   |-> Debt(u, f.users[a].amount),
                      storedReward |-> StoredReward(u, f.users[a]),
                      stakedTime   |-> f.users[a].stakedTime]
  <1>1. DOMAIN u = DOMAIN f /\ u.users = f.users /\ u.totalStaked = f.totalStaked
    BY UpdateRewardKeepsStakes
  <1>2. Removable(u, a, amount) = amount
    BY <1>1, MinOfTwo DEF Removable
  <1>3. FlexibleUnstake(f, a, amount) =
            [u EXCEPT !.users[a] = user, !.totalStaked = @ - amount]
    BY <1>2 DEF FlexibleUnstake
  <1>4. "amount" \in DOMAIN user /\ user.amount = f.users[a].amount - amount
    OBVIOUS
  <1> QED
    BY <1>1, <1>3, <1>4 DEF IsController, HasAmounts

\* Paying off a reward changes no amount.
LEMMA VerifyKeepsController ==
    ASSUME NEW f, IsController(f), NEW a \in Accounts
    PROVE  /\ IsController(FlexibleVerify(f, a))
           /\ FlexibleVerify(f, a).totalStaked = f.totalStaked
           /\ \A b \in Accounts : FlexibleVerify(f, a).users[b].amount = f.users[b].amount
  <1> DEFINE u == UpdateReward(f)
             debt == Debt(u, f.users[a].amount)
             v == [u EXCEPT !.users[a].storedReward = 0]
  <1>1. DOMAIN u = DOMAIN f /\ u.users = f.users /\ u.totalStaked = f.totalStaked
    BY UpdateRewardKeepsStakes
  <1>2. FlexibleVerify(f, a) = [v EXCEPT !.users[a].rewardDebt = debt]
    BY DEF FlexibleVerify
  <1>3. /\ DOMAIN v = DOMAIN f /\ v.totalStaked = f.totalStaked
        /\ DOMAIN v.users = DOMAIN f.users
        /\ \A b \in Accounts : /\ DOMAIN v.users[b] = DOMAIN f.users[b]
                               /\ v.users[b].amount = f.users[b].amount
    BY <1>1 DEF IsController, HasAmounts
  <1>4. /\ DOMAIN FlexibleVerify(f, a) = DOMAIN v
        /\ FlexibleVerify(f, a).totalStaked = v.totalStaked
        /\ DOMAIN FlexibleVerify(f, a).users = DOMAIN v.users
        /\ \A b \in Accounts :
               /\ DOMAIN FlexibleVerify(f, a).users[b] = DOMAIN v.users[b]
               /\ FlexibleVerify(f, a).users[b].amount = v.users[b].amount
    BY <1>2, <1>3 DEF IsController, HasAmounts
  <1> QED
    BY <1>3, <1>4 DEF IsController, HasAmounts

\* What a call of the flexible controller that is not about a stake changes.
SameStakes == IsController(flexible') /\ flexible'.totalStaked = flexible.totalStaked
                  /\ \A a \in Accounts : flexible'.users[a].amount = flexible.users[a].amount

\* The pool's part of the invariant, over a step that only settles and pays.
LEMMA SameStakesKeepIInv ==
    ASSUME IInv, SameStakes, UNCHANGED <<aprToken, userStaking, totalStaked>>, pool' \in Pools,
           DOMAIN tokens' = DOMAIN tokens,
           aprToken # "PCOG" => tokens'["PCOG"] \in Int /\ tokens'["PCOG"] >= tokens["PCOG"]
    PROVE  IInv'
  <1>1. Shapes'
    BY DEF IInv, Shapes, SameStakes
  <1>2. StakesAreKnown'
    BY DEF IInv, StakesAreKnown, SameStakes
  <1>3. StakesAreBacked'
    BY DEF IInv, Shapes, StakesAreBacked
  <1> QED
    BY <1>1, <1>2, <1>3 DEF IInv

LEMMA UnchangedIsSame ==
    ASSUME IInv, UNCHANGED flexible
    PROVE  SameStakes
  BY DEF IInv, Shapes, SameStakes

----------------------------------------------------------------------------
(* One lemma per action. *)

LEMMA PartIsInteger ==
    ASSUME NEW x \in Int, NEW y \in Int
    PROVE  Part(x, y) \in Int
  <1>1. HundredPercent \in Nat \ {0}
    BY StakingAssumption
  <1>2. x * y \in Int
    OBVIOUS
  <1> QED
    BY <1>1, <1>2 DEF Part

\* Every call keeps the invariant, the ones of accounts first.
LEMMA StakeStep ==
    ASSUME IInv, NEW a \in Accounts, NEW offered \in StakeAmounts, Stake(a, offered)
    PROVE  IInv'
  <1> DEFINE amount == offered - Part(offered, pool.stakeFeeRate)
             old == userStaking[a].amount
  <1>1. amount \in Nat
    <2>1. offered \in Int /\ pool.stakeFeeRate \in Int
      BY StakingAssumption DEF IInv, Shapes
    <2>2. Part(offered, pool.stakeFeeRate) \in Int
      BY <2>1, PartIsInteger
    <2>3. amount >= 0
      BY DEF Stake
    <2> QED
      BY <2>1, <2>2, <2>3
  <1> HIDE DEF amount
  <1>2. /\ flexible' = FlexibleStake(flexible, a, amount)
        /\ userStaking' = [userStaking EXCEPT ![a] = [amount   |-> old + amount,
                                                      deadline |-> now + pool.stakingPeriod]]
        /\ totalStaked' = totalStaked + amount
        /\ tokens' = [tokens EXCEPT !["PCOG"] = @ + amount]
        /\ pool' = pool /\ aprToken' = aprToken
    BY DEF Stake, amount, settings
  <1>3. /\ IsController(flexible')
        /\ flexible'.totalStaked = flexible.totalStaked + amount
        /\ flexible'.users[a].amount = flexible.users[a].amount + amount
        /\ \A b \in Accounts \ {a} : flexible'.users[b] = flexible.users[b]
    BY <1>2, StakeKeepsController DEF IInv, Shapes
  <1>4. /\ HasAmounts(userStaking')
        /\ userStaking'[a].amount = old + amount
        /\ \A b \in Accounts \ {a} : userStaking'[b] = userStaking[b]
    BY <1>2 DEF IInv, Shapes, HasAmounts
  <1>5. Shapes'
    <2>1. \A b \in Accounts : userStaking'[b].amount \in Nat
      BY <1>1, <1>4 DEF IInv, Shapes
    <2>2. /\ DOMAIN tokens' = {"PCOG", "WBTC"}
          /\ aprToken' # "PCOG" => tokens'["PCOG"] \in Int
          /\ totalStaked' \in Int /\ pool' \in Pools
      BY <1>1, <1>2 DEF IInv, Shapes
    <2> QED
      BY <1>3, <1>4, <2>1, <2>2 DEF Shapes
  <1>6. StakesAreKnown'
    BY <1>2, <1>3, <1>4 DEF IInv, StakesAreKnown
  <1>7. StakesAreBacked'
    BY <1>1, <1>2 DEF IInv, Shapes, StakesAreBacked
  <1> QED
    BY <1>5, <1>6, <1>7 DEF IInv

LEMMA UnstakeStep ==
    ASSUME IInv, NEW a \in Accounts, NEW amount \in UnstakeAmounts, Unstake(a, amount)
    PROVE  IInv'
  <1> DEFINE f == FlexibleUnstake(flexible, a, amount)
  <1>1. amount \in Nat /\ userStaking[a].amount \in Nat /\ amount <= userStaking[a].amount
    BY StakingAssumption DEF IInv, Shapes, Unstake, CanUnstake
  <1>2. /\ flexible' = FlexibleVerify(f, a)
        /\ userStaking' = [userStaking EXCEPT ![a].amount = @ - amount]
        /\ totalStaked' = totalStaked - amount
        /\ pool' = pool /\ aprToken' = aprToken
    BY DEF Unstake, settings
  <1>3. \E penalty, shared :
            tokens' = [t \in DOMAIN tokens |-> tokens[t] - Sends(amount, penalty, shared)[t]]
    BY DEF Unstake, Send
  <1>4. flexible.users[a].amount \in Nat /\ amount <= flexible.users[a].amount
    BY <1>1 DEF IInv, StakesAreKnown
  <1>5. /\ IsController(f)
        /\ f.totalStaked = flexible.totalStaked - amount
        /\ f.users[a].amount = flexible.users[a].amount - amount
        /\ \A b \in Accounts \ {a} : f.users[b] = flexible.users[b]
    BY <1>1, <1>4, UnstakeKeepsController DEF IInv, Shapes
  <1> HIDE DEF f
  <1>6. /\ IsController(flexible')
        /\ flexible'.totalStaked = flexible.totalStaked - amount
        /\ flexible'.users[a].amount = flexible.users[a].amount - amount
        /\ \A b \in Accounts \ {a} : flexible'.users[b].amount = flexible.users[b].amount
    BY <1>2, <1>5, VerifyKeepsController
  <1>7. /\ HasAmounts(userStaking')
        /\ userStaking'[a].amount = userStaking[a].amount - amount
        /\ \A b \in Accounts \ {a} : userStaking'[b] = userStaking[b]
    BY <1>2 DEF IInv, Shapes, HasAmounts
  <1>8. /\ DOMAIN tokens' = {"PCOG", "WBTC"}
        /\ aprToken' # "PCOG" => tokens'["PCOG"] = tokens["PCOG"] - (amount + 0 + 0)
    BY <1>2, <1>3 DEF IInv, Shapes, Sends
  <1>9. Shapes'
    <2>1. \A b \in Accounts : userStaking'[b].amount \in Nat
      BY <1>1, <1>7 DEF IInv, Shapes
    <2>2. totalStaked' \in Int /\ pool' \in Pools
      BY <1>1, <1>2 DEF IInv, Shapes
    <2>3. aprToken' # "PCOG" => tokens'["PCOG"] \in Int
      BY <1>1, <1>2, <1>8 DEF IInv, Shapes
    <2> QED
      BY <1>6, <1>7, <1>8, <2>1, <2>2, <2>3 DEF Shapes
  <1>10. StakesAreKnown'
    BY <1>2, <1>6, <1>7 DEF IInv, StakesAreKnown
  <1>11. StakesAreBacked'
    BY <1>1, <1>2, <1>8 DEF IInv, Shapes, StakesAreBacked
  <1> QED
    BY <1>9, <1>10, <1>11 DEF IInv

\* A reward is paid in another token than the one that is staked.
LEMMA ClaimStep ==
    ASSUME IInv, NEW a \in Accounts, NEW r \in Rewards, NEW amount, ClaimReward(a, r, amount)
    PROVE  IInv'
  <1>1. SameStakes
    <2>1. CASE flexible' = flexible
      BY <2>1, UnchangedIsSame
    <2>2. CASE flexible' = FlexibleVerify(flexible, a)
      BY <2>2, VerifyKeepsController DEF IInv, Shapes, SameStakes
    <2> QED
      BY <2>1, <2>2 DEF ClaimReward
  <1>2. UNCHANGED <<aprToken, userStaking, totalStaked>> /\ pool' \in Pools
    BY DEF ClaimReward, settings, IInv, Shapes
  <1>3. \E interest, shared :
            tokens' = [t \in DOMAIN tokens |-> tokens[t] - Sends(0, interest, shared)[t]]
    BY DEF ClaimReward, Send
  <1>4. DOMAIN tokens' = DOMAIN tokens
    BY <1>3
  <1>5. aprToken # "PCOG" => tokens'["PCOG"] = tokens["PCOG"] - (0 + 0 + 0)
    BY <1>3 DEF IInv, Shapes, Sends
  <1>6. aprToken # "PCOG" => tokens'["PCOG"] \in Int /\ tokens'["PCOG"] >= tokens["PCOG"]
    BY <1>5 DEF IInv, Shapes
  <1> QED
    BY <1>1, <1>2, <1>4, <1>6, SameStakesKeepIInv

LEMMA ControllerStep ==
    ASSUME IInv, ControllerCall
    PROVE  IInv'
  <1>1. SameStakes
    <2>1. CASE flexible' = flexible
      BY <2>1, UnchangedIsSame
    <2>2. CASE flexible' = UpdateReward(flexible)
      BY <2>2, UpdateRewardKeepsStakes DEF IInv, Shapes, SameStakes, IsController, HasAmounts
    <2>3. CASE \E rate \in RewardRates, duration \in Durations : StartRound(rate, duration)
      <3>1. PICK rate \in RewardRates, duration \in Durations : StartRound(rate, duration)
        BY <2>3
      <3>2. flexible' = [UpdateReward(flexible) EXCEPT !.rewardPerSec = rate,
                                                       !.endTime = now + duration,
                                                       !.lastRewardTime = now]
        BY <3>1 DEF StartRound, OnFlexible
      <3> QED
        BY <3>2, UpdateRewardKeepsStakes
           DEF IInv, Shapes, SameStakes, IsController, HasAmounts
    <2>4. CASE \E value : \/ flexible' = [flexible EXCEPT !.dailyCheckPoint = value]
                          \/ flexible' = [flexible EXCEPT !.period = value]
      BY <2>4 DEF IInv, Shapes, SameStakes, IsController, HasAmounts
    <2> QED
      BY <2>1, <2>2, <2>3, <2>4
         DEF ControllerCall, Settle, SetInterestRate, SetDailyCheckPoint, SetPeriod,
             SetDisableTime, OnApr, OnFlexible
  <1>2. UNCHANGED <<aprToken, userStaking, totalStaked, tokens>> /\ pool' \in Pools
    BY DEF ControllerCall, settings, stakingVars, IInv, Shapes
  <1>3. aprToken # "PCOG" => tokens'["PCOG"] \in Int /\ tokens'["PCOG"] >= tokens["PCOG"]
    BY <1>2 DEF IInv, Shapes
  <1> QED
    BY <1>1, <1>2, <1>3, SameStakesKeepIInv

\* An administrator, the price, time, and somebody who sends the pool tokens.
LEMMA OtherStep ==
    ASSUME IInv, AdminCall \/ Surroundings
    PROVE  IInv'
  <1>1. /\ UNCHANGED <<aprToken, userStaking, totalStaked, flexible>>
        /\ pool' \in Pools
    BY DEF AdminCall, SetPool, SetMinimumStakeAmount, Surroundings, SetPrice, Fund, Tick,
           settings, stakingVars, IInv, Shapes
  <1>2. \/ tokens' = tokens
        \/ \E token \in DOMAIN tokens, amount \in FundAmounts :
               tokens' = [tokens EXCEPT ![token] = @ + amount]
    BY DEF AdminCall, SetPool, SetMinimumStakeAmount, Surroundings, SetPrice, Fund, Tick
  <1>3. DOMAIN tokens' = DOMAIN tokens
    BY <1>2
  <1>4. aprToken # "PCOG" => tokens'["PCOG"] \in Int /\ tokens'["PCOG"] >= tokens["PCOG"]
    <2>1. CASE tokens' = tokens
      BY <2>1 DEF IInv, Shapes
    <2>2. CASE \E token \in DOMAIN tokens, amount \in FundAmounts :
                   tokens' = [tokens EXCEPT ![token] = @ + amount]
      <3>1. PICK token \in DOMAIN tokens, amount \in FundAmounts :
                     tokens' = [tokens EXCEPT ![token] = @ + amount]
        BY <2>2
      <3>2. amount \in Nat
        BY StakingAssumption
      <3> QED
        BY <3>1, <3>2 DEF IInv, Shapes
    <2> QED
      BY <1>2, <2>1, <2>2
  <1> QED
    BY <1>1, <1>3, <1>4, UnchangedIsSame, SameStakesKeepIInv

----------------------------------------------------------------------------
(* The invariant holds. *)

\* The invariant holds from the first state on.
LEMMA InitIsSafe ==
    ASSUME StakingInit
    PROVE  IInv
  <1>1. /\ pool \in Pools /\ totalStaked = 0
        /\ tokens = [PCOG |-> 0, WBTC |-> 0]
        /\ userStaking = [a \in Accounts |-> [amount |-> 0, deadline |-> 0]]
        /\ flexible = [period |-> Unlimited, dailyCheckPoint |-> 0,
                       rewardPerSec |-> 0, endTime |-> 0, lastRewardTime |-> 0,
                       accRewardPerShare |-> 0, totalStaked |-> 0,
                       users |-> [a \in Accounts |-> [amount |-> 0, rewardDebt |-> 0,
                                                      storedReward |-> 0, stakedTime |-> 0]],
                       accRewardsPerShare |-> <<>>]
    BY DEF StakingInit, CreatePool
  <1>2. IsController(flexible) /\ StakesAreKnown
    BY <1>1 DEF IsController, HasAmounts, StakesAreKnown
  <1>3. HasAmounts(userStaking) /\ \A a \in Accounts : userStaking[a].amount \in Nat
    BY <1>1 DEF HasAmounts
  <1>4. DOMAIN tokens = {"PCOG", "WBTC"} /\ tokens["PCOG"] = 0
    BY <1>1
  <1> QED
    BY <1>1, <1>2, <1>3, <1>4 DEF IInv, Shapes, StakesAreBacked

LEMMA StepIsSafe ==
    ASSUME IInv, [StakingNext]_vars
    PROVE  IInv'
  <1>1. CASE UserCall
    BY <1>1, StakeStep, UnstakeStep, ClaimStep DEF UserCall
  <1>2. CASE ControllerCall
    BY <1>2, ControllerStep
  <1>3. CASE AdminCall \/ Surroundings
    BY <1>3, OtherStep
  <1>4. CASE UNCHANGED vars
    BY <1>4 DEF vars, settings, stakingVars, IInv, Shapes, StakesAreKnown, StakesAreBacked
  <1> QED
    BY <1>1, <1>2, <1>3, <1>4 DEF StakingNext

LEMMA Invariance == StakingSpec => []IInv
  <1>1. StakingInit => IInv
    BY InitIsSafe
  <1>2. IInv /\ [StakingNext]_vars => IInv'
    BY StepIsSafe
  <1> QED
    BY <1>1, <1>2, PTL DEF StakingSpec

\* The pool and its flexible controller agree on what every account has staked
\* (StakingPool.sol:128, FlexibleRewardController.sol:82, 97).
THEOREM StakesStayKnown == StakingSpec => []StakesAreKnown
  <1>1. IInv => StakesAreKnown
    BY DEF IInv
  <1> QED
    BY <1>1, Invariance, PTL

\* When interest is paid in another token, no fee, penalty, reward or claim is
\* paid with staked tokens: the pool holds all of them (StakingPool.sol:129-131).
THEOREM StakesStayBacked == StakingSpec => []StakesAreBacked
  <1>1. IInv => StakesAreBacked
    BY DEF IInv
  <1> QED
    BY <1>1, Invariance, PTL

----------------------------------------------------------------------------
(* That a stake can be taken out needs more: what the interest controller  *)
(* keeps of an account, and that the total is the sum of the stakes.       *)

\* What the interest controller knows of an account.
IsUser(user) ==
    /\ {"amount", "lastRewardTime", "storedReward", "stakedTime"} \subseteq DOMAIN user
    /\ user.amount \in Int /\ user.stakedTime \in Nat
    /\ user.lastRewardTime \in Int /\ user.lastRewardTime <= now

IsAprController(c) ==
    /\ {"period", "dailyCheckPoint", "disableTime", "users"} \subseteq DOMAIN c
    /\ {c.period, c.dailyCheckPoint, c.disableTime} \subseteq Nat
    /\ Accounts \subseteq DOMAIN c.users
    /\ \A a \in Accounts : IsUser(c.users[a])

\* No reward is settled ahead of time, and nothing is staked but by accounts.
ExitInv ==
    /\ now \in Nat /\ now <= MaxTime
    /\ price[1] \in Nat /\ price[2] \in Nat \ {0}
    /\ IsAprController(apr)
    /\ totalStaked = Staked

\* The smallest of two numbers, and of three.
LEMMA MinOfTwoIsLeast ==
    ASSUME NEW x \in Int, NEW y \in Int
    PROVE  Min({x, y}) \in {x, y} /\ Min({x, y}) <= x /\ Min({x, y}) <= y
  <1>1. \E m \in {x, y} : \A u \in {x, y} : m <= u
    OBVIOUS
  <1>2. Min({x, y}) \in {x, y} /\ \A u \in {x, y} : Min({x, y}) <= u
    BY <1>1 DEF Min
  <1> QED BY <1>2

LEMMA MinOfThree ==
    ASSUME NEW x \in Int, NEW y \in Int, NEW z \in Int
    PROVE  Min({x, y, z}) \in {x, y, z}
  <1>1. PICK m \in {x, y} : \A u \in {x, y} : m <= u
    OBVIOUS
  <1>2. \E n \in {x, y, z} : \A u \in {x, y, z} : n <= u
    <2>1. CASE m <= z
      BY <1>1, <2>1
    <2>2. CASE ~(m <= z)
      BY <1>1, <2>2
    <2> QED BY <2>1, <2>2
  <1> QED BY <1>2 DEF Min

\* A change of what the controller knows of one account.
LEMMA UserChange ==
    ASSUME NEW c, IsAprController(c), NEW d, NEW a \in Accounts,
           DOMAIN d = DOMAIN c, d.period = c.period,
           d.dailyCheckPoint = c.dailyCheckPoint, d.disableTime = c.disableTime,
           DOMAIN d.users = DOMAIN c.users,
           \A b \in Accounts \ {a} : d.users[b] = c.users[b],
           IsUser(d.users[a])
    PROVE  IsAprController(d)
  <1>1. \A b \in Accounts : IsUser(d.users[b])
    BY DEF IsAprController
  <1> QED BY <1>1 DEF IsAprController

\* The check point that limits a reward is a time.
LEMMA CheckPointIsInt ==
    ASSUME NEW c, IsAprController(c), NEW t \in Nat
    PROVE  LatestCheckPoint(c, t) \in Int
  <1>1. Day \in Nat \ {0} /\ Unlimited \in Nat
    BY StakingAssumption
  <1>2. c.period \in Nat /\ c.dailyCheckPoint \in Nat
    BY DEF IsAprController
  <1>3. (t - c.dailyCheckPoint) \div Day \in Int
    BY <1>1, <1>2
  <1>4. ((t - c.dailyCheckPoint) \div Day) * Day \in Int
    BY <1>1, <1>3
  <1> QED BY <1>1, <1>2, <1>4 DEF LatestCheckPoint

\* What of the controller decides whether a reward can be settled.
SameLimits(d, c) ==
    /\ DOMAIN d = DOMAIN c /\ DOMAIN d.users = DOMAIN c.users
    /\ d.period = c.period /\ d.dailyCheckPoint = c.dailyCheckPoint
    /\ d.disableTime = c.disableTime

\* Settling moves the time of an account on, to now at most.
LEMMA UpdateInterestKeepsUsers ==
    ASSUME NEW c, IsAprController(c), NEW a \in Accounts, now \in Nat
    PROVE  /\ IsAprController(UpdateInterest(c, a))
           /\ SameLimits(UpdateInterest(c, a), c)
           /\ UpdateInterest(c, a).users[a].amount = c.users[a].amount
           /\ UpdateInterest(c, a).users[a].stakedTime = c.users[a].stakedTime
           /\ UpdateInterest(c, a).users[a].lastRewardTime =
                  Min({LatestCheckPoint(c, c.users[a].stakedTime), now})
  <1> DEFINE stored == Interest(c, a)
             time == Min({LatestCheckPoint(c, c.users[a].stakedTime), now})
             v == [c EXCEPT !.users[a].storedReward = stored]
             w == [v EXCEPT !.users[a].lastRewardTime = time]
  <1>1. UpdateInterest(c, a) = w
    BY DEF UpdateInterest
  <1>2. IsUser(c.users[a])
    BY DEF IsAprController
  <1>3. time \in Int /\ time <= now
    <2>1. LatestCheckPoint(c, c.users[a].stakedTime) \in Int
      BY <1>2, CheckPointIsInt DEF IsUser
    <2>2. ASSUME NEW x \in Int PROVE Min({x, now}) \in Int /\ Min({x, now}) <= now
      <3>1. now \in Int
        OBVIOUS
      <3>2. Min({x, now}) \in {x, now} /\ Min({x, now}) <= now
        BY <3>1, MinOfTwoIsLeast, Zenon
      <3> QED BY <3>1, <3>2
    <2> QED BY <2>1, <2>2
  <1> HIDE DEF stored, time
  <1>4. /\ SameLimits(v, c)
        /\ \A b \in Accounts \ {a} : v.users[b] = c.users[b]
        /\ DOMAIN v.users[a] = DOMAIN c.users[a]
        /\ v.users[a].amount = c.users[a].amount
        /\ v.users[a].stakedTime = c.users[a].stakedTime
        /\ v.users[a].lastRewardTime = c.users[a].lastRewardTime
    BY <1>2 DEF IsAprController, IsUser, SameLimits
  <1>5. {"period", "dailyCheckPoint", "disableTime", "users"} \subseteq DOMAIN v
        /\ Accounts \subseteq DOMAIN v.users /\ "lastRewardTime" \in DOMAIN v.users[a]
    BY <1>2, <1>4 DEF IsAprController, SameLimits, IsUser
  <1> HIDE DEF v
  <1>6. /\ SameLimits(w, v)
        /\ \A b \in Accounts \ {a} : w.users[b] = v.users[b]
        /\ DOMAIN w.users[a] = DOMAIN v.users[a]
        /\ w.users[a].amount = v.users[a].amount
        /\ w.users[a].stakedTime = v.users[a].stakedTime
        /\ w.users[a].lastRewardTime = time
    BY <1>5 DEF SameLimits
  <1> HIDE DEF w
  <1>7. IsUser(w.users[a])
    BY <1>2, <1>3, <1>4, <1>6 DEF IsUser
  <1>8. SameLimits(w, c) /\ \A b \in Accounts \ {a} : w.users[b] = c.users[b]
    BY <1>4, <1>6 DEF SameLimits
  <1>9. IsAprController(w)
    BY <1>7, <1>8, UserChange DEF SameLimits
  <1> QED BY <1>1, <1>4, <1>6, <1>8, <1>9 DEF time

\* What staking and settling do to what the controller knows of the account.
LEMMA AprStakeKeepsUsers ==
    ASSUME NEW c, IsAprController(c), NEW a \in Accounts, now \in Nat, NEW x \in Int
    PROVE  IsAprController(AprStake(c, a, x))
  <1> DEFINE u == UpdateInterest(c, a)
             v == [u EXCEPT !.users[a].amount = @ + x]
             w == [v EXCEPT !.users[a].stakedTime = now]
             z == [w EXCEPT !.totalStaked = @ + x]
  <1>1. AprStake(c, a, x) = z
    BY DEF AprStake
  <1>2. IsAprController(u) /\ IsUser(u.users[a])
    BY UpdateInterestKeepsUsers DEF IsAprController
  <1> HIDE DEF u
  <1>3. /\ SameLimits(v, u)
        /\ \A b \in Accounts \ {a} : v.users[b] = u.users[b]
        /\ IsUser(v.users[a])
    BY <1>2 DEF IsAprController, IsUser, SameLimits
  <1>4. IsAprController(v)
    BY <1>2, <1>3, UserChange DEF SameLimits
  <1> HIDE DEF v
  <1>5. /\ SameLimits(w, v)
        /\ \A b \in Accounts \ {a} : w.users[b] = v.users[b]
        /\ IsUser(w.users[a])
    BY <1>3, <1>4 DEF IsAprController, IsUser, SameLimits
  <1>6. IsAprController(w)
    BY <1>4, <1>5, UserChange DEF SameLimits
  <1> HIDE DEF w
  <1>7. IsAprController(z)
    BY <1>6 DEF IsAprController
  <1> QED BY <1>1, <1>7

\* No more is taken out than there is, whatever the price has become.
LEMMA AprUnstakeKeepsUsers ==
    ASSUME NEW c, IsAprController(c), NEW a \in Accounts, now \in Nat, NEW x \in Int
    PROVE  /\ Removable(c, a, x) <= c.users[a].amount
           /\ IsAprController(AprUnstake(c, a, x))
           /\ SameLimits(AprUnstake(c, a, x), c)
           /\ AprUnstake(c, a, x).users[a].lastRewardTime =
                  Min({LatestCheckPoint(c, c.users[a].stakedTime), now})
  <1> DEFINE u == UpdateInterest(c, a)
             y == Removable(c, a, x)
             v == [u EXCEPT !.users[a].amount = @ - y]
             z == [v EXCEPT !.totalStaked = @ - y]
  <1>1. AprUnstake(c, a, x) = z
    BY DEF AprUnstake
  <1>2. /\ IsAprController(u) /\ IsUser(u.users[a]) /\ SameLimits(u, c)
        /\ u.users[a].lastRewardTime =
               Min({LatestCheckPoint(c, c.users[a].stakedTime), now})
    BY UpdateInterestKeepsUsers DEF IsAprController
  <1>3. y \in Int /\ y <= c.users[a].amount
    BY MinOfTwoIsLeast DEF Removable, IsAprController, IsUser
  <1> HIDE DEF u, y
  <1>4. /\ SameLimits(v, u)
        /\ \A b \in Accounts \ {a} : v.users[b] = u.users[b]
        /\ IsUser(v.users[a])
        /\ v.users[a].lastRewardTime = u.users[a].lastRewardTime
    BY <1>2, <1>3 DEF IsAprController, IsUser, SameLimits
  <1>5. IsAprController(v)
    BY <1>2, <1>4, UserChange DEF SameLimits
  <1> HIDE DEF v
  <1>6. IsAprController(z) /\ SameLimits(z, v) /\ z.users = v.users
    BY <1>5 DEF IsAprController, SameLimits
  <1> HIDE DEF z
  <1> QED BY <1>1, <1>2, <1>3, <1>4, <1>6 DEF SameLimits, y

LEMMA AprVerifyKeepsUsers ==
    ASSUME NEW c, IsAprController(c), NEW a \in Accounts, now \in Nat
    PROVE  IsAprController(AprVerify(c, a))
  <1> DEFINE u == UpdateInterest(c, a)
             v == [u EXCEPT !.users[a].storedReward = 0]
  <1>1. AprVerify(c, a) = v
    BY DEF AprVerify
  <1>2. IsAprController(u) /\ IsUser(u.users[a])
    BY UpdateInterestKeepsUsers DEF IsAprController
  <1> HIDE DEF u
  <1>3. /\ SameLimits(v, u)
        /\ \A b \in Accounts \ {a} : v.users[b] = u.users[b]
        /\ IsUser(v.users[a])
    BY <1>2 DEF IsAprController, IsUser, SameLimits
  <1> QED BY <1>1, <1>2, <1>3, UserChange DEF SameLimits

\* The sum moves with the one stake that does.
LEMMA StakedChange ==
    ASSUME IInv, IInv', NEW a \in Accounts,
           \A b \in Accounts \ {a} : userStaking'[b].amount = userStaking[b].amount
    PROVE  Staked' = Staked + (userStaking'[a].amount - userStaking[a].amount)
  <1> DEFINE f == [b \in Accounts |-> userStaking[b].amount]
             g == [b \in Accounts |-> userStaking'[b].amount]
             v == userStaking'[a].amount
  <1>1. f \in [Accounts -> Int] /\ v \in Int
    BY DEF IInv, Shapes
  <1>2. g = [f EXCEPT ![a] = v]
    OBVIOUS
  <1>3. IsFiniteSet(Accounts)
    BY StakingAssumption
  <1>4. SumFunction(g) = SumFunction(f) + (v - f[a])
    <2> HIDE DEF f, g, v
    <2> QED BY <1>1, <1>2, <1>3, SumOfChange
  <1> QED BY <1>4 DEF Staked

LEMMA SameStaked ==
    ASSUME UNCHANGED userStaking
    PROVE  Staked' = Staked
  BY DEF Staked

\* What PCOG is worth in the token that interest is paid in.
LEMMA WorthIsInt ==
    ASSUME ExitInv, NEW amount \in Int
    PROVE  InAprToken(amount) \in Int
  <1>1. amount * price[1] \in Int
    BY DEF ExitInv
  <1>2. (amount * price[1]) \div price[2] \in Int
    BY <1>1 DEF ExitInv
  <1> QED BY <1>2 DEF InAprToken

\* A step at the same time and price that changes no stake.
LEMMA SameStakesKeepExit ==
    ASSUME ExitInv, UNCHANGED <<now, price, userStaking, totalStaked>>, IsAprController(apr')
    PROVE  ExitInv'
  <1>1. IsAprController(apr)'
    BY DEF IsAprController, IsUser
  <1> QED BY <1>1, SameStaked DEF ExitInv

\* Every call keeps what lets the stakes out, the ones of accounts first.
LEMMA StakeKeepsExit ==
    ASSUME IInv, IInv', ExitInv, NEW a \in Accounts, NEW offered \in StakeAmounts,
           Stake(a, offered)
    PROVE  ExitInv'
  <1> DEFINE amount == offered - Part(offered, pool.stakeFeeRate)
             old == userStaking[a].amount
  <1>1. amount \in Int
    <2>1. offered \in Int /\ pool.stakeFeeRate \in Int
      BY StakingAssumption DEF IInv, Shapes
    <2>2. Part(offered, pool.stakeFeeRate) \in Int
      BY <2>1, PartIsInteger
    <2> QED BY <2>1, <2>2
  <1> HIDE DEF amount
  <1>2. /\ apr' = AprStake(apr, a, InAprToken(amount))
        /\ userStaking' = [userStaking EXCEPT ![a] = [amount   |-> old + amount,
                                                      deadline |-> now + pool.stakingPeriod]]
        /\ totalStaked' = totalStaked + amount
        /\ now' = now /\ price' = price
    BY DEF Stake, amount
  <1>3. IsAprController(apr')
    BY <1>1, <1>2, WorthIsInt, AprStakeKeepsUsers DEF ExitInv
  <1>4. IsAprController(apr)'
    BY <1>2, <1>3 DEF IsAprController, IsUser
  <1>5. /\ userStaking'[a].amount = old + amount
        /\ \A b \in Accounts \ {a} : userStaking'[b] = userStaking[b]
    BY <1>2 DEF IInv, Shapes, HasAmounts
  <1>6. Staked' = Staked + (userStaking'[a].amount - old)
    BY <1>5, StakedChange
  <1>7. totalStaked' = Staked'
    <2>1. totalStaked \in Int /\ old \in Int /\ totalStaked = Staked
      BY DEF IInv, Shapes, ExitInv
    <2> QED BY <1>1, <1>2, <1>5, <1>6, <2>1
  <1> QED BY <1>2, <1>4, <1>7 DEF ExitInv

LEMMA UnstakeKeepsExit ==
    ASSUME IInv, IInv', ExitInv, NEW a \in Accounts, NEW amount \in UnstakeAmounts,
           Unstake(a, amount)
    PROVE  ExitInv'
  <1> DEFINE c == AprUnstake(apr, a, InAprToken(amount))
             old == userStaking[a].amount
  <1>1. amount \in Int
    BY StakingAssumption
  <1>2. /\ apr' = AprVerify(c, a)
        /\ userStaking' = [userStaking EXCEPT ![a].amount = @ - amount]
        /\ totalStaked' = totalStaked - amount
        /\ now' = now /\ price' = price
    BY DEF Unstake
  <1>3. IsAprController(c)
    BY <1>1, WorthIsInt, AprUnstakeKeepsUsers DEF ExitInv
  <1> HIDE DEF c
  <1>4. IsAprController(apr')
    BY <1>2, <1>3, AprVerifyKeepsUsers DEF ExitInv
  <1>5. IsAprController(apr)'
    BY <1>2, <1>4 DEF IsAprController, IsUser
  <1>6. /\ userStaking'[a].amount = old - amount
        /\ \A b \in Accounts \ {a} : userStaking'[b] = userStaking[b]
    BY <1>2 DEF IInv, Shapes, HasAmounts
  <1>7. Staked' = Staked + (userStaking'[a].amount - old)
    BY <1>6, StakedChange
  <1>8. totalStaked' = Staked'
    <2>1. totalStaked \in Int /\ old \in Int /\ totalStaked = Staked
      BY DEF IInv, Shapes, ExitInv
    <2> QED BY <1>1, <1>2, <1>6, <1>7, <2>1
  <1> QED BY <1>2, <1>5, <1>8 DEF ExitInv

LEMMA ClaimKeepsExit ==
    ASSUME ExitInv, NEW a \in Accounts, NEW r \in Rewards, NEW amount,
           ClaimReward(a, r, amount)
    PROVE  ExitInv'
  <1>1. UNCHANGED <<now, price, userStaking, totalStaked>>
    BY DEF ClaimReward
  <1>2. apr' = apr \/ apr' = AprVerify(apr, a)
    BY DEF ClaimReward
  <1>3. IsAprController(apr')
    BY <1>2, AprVerifyKeepsUsers DEF ExitInv
  <1> QED BY <1>1, <1>3, SameStakesKeepExit

LEMMA ControllerKeepsExit ==
    ASSUME ExitInv, ControllerCall
    PROVE  ExitInv'
  <1>1. UNCHANGED <<now, price, userStaking, totalStaked>>
    BY DEF ControllerCall, stakingVars
  <1>2. \/ apr' = apr
        \/ \E a \in Accounts : apr' = UpdateInterest(apr, a)
        \/ \E rate : apr' = [apr EXCEPT !.interestRate = rate]
        \/ \E value \in Nat : \/ apr' = [apr EXCEPT !.dailyCheckPoint = value]
                              \/ apr' = [apr EXCEPT !.period = value]
                              \/ apr' = [apr EXCEPT !.disableTime = value]
    BY StakingAssumption
       DEF ControllerCall, Settle, SetInterestRate, StartRound, SetDailyCheckPoint,
           SetPeriod, SetDisableTime, OnApr, OnFlexible
  <1>3. IsAprController(apr')
    <2>1. CASE \E a \in Accounts : apr' = UpdateInterest(apr, a)
      BY <2>1, UpdateInterestKeepsUsers DEF ExitInv
    <2>2. CASE \/ apr' = apr
               \/ \E rate : apr' = [apr EXCEPT !.interestRate = rate]
               \/ \E value \in Nat : \/ apr' = [apr EXCEPT !.dailyCheckPoint = value]
                                     \/ apr' = [apr EXCEPT !.period = value]
                                     \/ apr' = [apr EXCEPT !.disableTime = value]
      BY <2>2 DEF ExitInv, IsAprController
    <2> QED BY <1>2, <2>1, <2>2
  <1> QED BY <1>1, <1>3, SameStakesKeepExit

LEMMA AdminKeepsExit ==
    ASSUME ExitInv, AdminCall
    PROVE  ExitInv'
  <1>1. UNCHANGED <<now, price, userStaking, totalStaked, apr>>
    BY DEF AdminCall, SetPool, SetMinimumStakeAmount, stakingVars
  <1> QED BY <1>1, SameStakesKeepExit DEF ExitInv

LEMMA SurroundingsKeepExit ==
    ASSUME ExitInv, Surroundings
    PROVE  ExitInv'
  <1>1. UNCHANGED <<userStaking, totalStaked, apr>>
    BY DEF Surroundings, SetPrice, Fund, Tick, stakingVars
  <1>2. CASE Tick
    <2>1. now' = now + 1 /\ now < MaxTime /\ price' = price
      BY <1>2 DEF Tick
    <2>2. now' \in Nat /\ now' <= MaxTime
      BY <2>1, StakingAssumption DEF ExitInv
    <2>3. \A a \in Accounts : IsUser(apr.users[a])'
      BY <1>1, <2>1 DEF ExitInv, IsAprController, IsUser
    <2>4. IsAprController(apr)'
      BY <1>1, <2>3 DEF ExitInv, IsAprController
    <2> QED BY <1>1, <2>1, <2>2, <2>4, SameStaked DEF ExitInv
  <1>3. CASE \E p \in Prices : SetPrice(p)
    <2>1. now' = now /\ price' \in Prices
      BY <1>3 DEF SetPrice
    <2>2. price'[1] \in Nat /\ price'[2] \in Nat \ {0}
      BY <2>1, StakingAssumption
    <2>3. IsAprController(apr)'
      BY <1>1, <2>1 DEF ExitInv, IsAprController, IsUser
    <2> QED BY <1>1, <2>1, <2>2, <2>3, SameStaked DEF ExitInv
  <1>4. CASE \E token \in DOMAIN tokens, amount \in FundAmounts : Fund(token, amount)
    BY <1>1, <1>4, SameStakesKeepExit DEF Fund, ExitInv
  <1> QED BY <1>2, <1>3, <1>4 DEF Surroundings

\* An empty pool lets every stake out; both invariants hold from then on.
LEMMA InitKeepsExit ==
    ASSUME StakingInit
    PROVE  ExitInv
  <1>1. /\ now = StartTime /\ price \in Prices /\ totalStaked = 0
        /\ userStaking = [a \in Accounts |-> [amount |-> 0, deadline |-> 0]]
    BY DEF StakingInit, CreatePool
  <1>2. PICK rate \in InterestRates :
          apr = [period |-> Unlimited, dailyCheckPoint |-> 0, disableTime |-> Unlimited,
                 interestRate |-> rate, totalStaked |-> 0,
                 users |-> [a \in Accounts |-> [amount |-> 0, lastRewardTime |-> 0,
                                                storedReward |-> 0, stakedTime |-> 0]]]
    BY DEF StakingInit, CreatePool
  <1>3. now \in Nat /\ now <= MaxTime /\ price[1] \in Nat /\ price[2] \in Nat \ {0}
    BY <1>1, StakingAssumption
  <1>4. IsAprController(apr)
    <2>1. Unlimited \in Nat
      BY StakingAssumption
    <2>2. \A a \in Accounts : IsUser(apr.users[a])
      BY <1>2, <1>3 DEF IsUser
    <2> QED BY <1>2, <2>1, <2>2 DEF IsAprController
  <1>5. Staked = 0
    <2> DEFINE f == [a \in Accounts |-> userStaking[a].amount]
    <2>1. DOMAIN f = Accounts /\ \A a \in Accounts : f[a] = 0
      BY <1>1
    <2>2. IsFiniteSet(Accounts)
      BY StakingAssumption
    <2>3. SumFunction(f) = 0
      <3> HIDE DEF f
      <3> QED BY <2>1, <2>2, SumOfZeros
    <2> QED BY <2>3 DEF Staked
  <1> QED BY <1>1, <1>3, <1>4, <1>5 DEF ExitInv

LEMMA ExitInvariance == StakingSpec => [](IInv /\ ExitInv)
  <1>1. StakingInit => IInv /\ ExitInv
    BY InitIsSafe, InitKeepsExit
  <1>2. IInv /\ ExitInv /\ [StakingNext]_vars => (IInv /\ ExitInv)'
    <2> SUFFICES ASSUME IInv, ExitInv, [StakingNext]_vars PROVE IInv' /\ ExitInv'
      OBVIOUS
    <2>1. IInv'
      BY StepIsSafe
    <2>2. CASE UserCall
      BY <2>1, <2>2, StakeKeepsExit, UnstakeKeepsExit, ClaimKeepsExit DEF UserCall
    <2>3. CASE ControllerCall
      BY <2>1, <2>3, ControllerKeepsExit
    <2>4. CASE AdminCall
      BY <2>1, <2>4, AdminKeepsExit
    <2>5. CASE Surroundings
      BY <2>1, <2>5, SurroundingsKeepExit
    <2>6. CASE UNCHANGED vars
      BY <2>1, <2>6, SameStakesKeepExit DEF vars, stakingVars, ExitInv
    <2> QED BY <2>1, <2>2, <2>3, <2>4, <2>5, <2>6 DEF StakingNext
  <1> QED BY <1>1, <1>2, PTL DEF StakingSpec

\* The stakes are held: their sum is the pool's total, which its tokens cover.
LEMMA HeldWhilePaidInOther ==
    ASSUME IInv, ExitInv, aprToken # "PCOG"
    PROVE  StakesAreHeld
  BY DEF IInv, Shapes, ExitInv, StakesAreBacked, StakesAreHeld

\* Neither controller refuses, before and after the stake is taken out.
LEMMA ReleasedWhileEnabled ==
    ASSUME IInv, ExitInv, now <= apr.disableTime,
           \A p \in Pools : p.unstakeFeeRate \in 0 .. HundredPercent
    PROVE  StakesAreReleased
  <1> SUFFICES ASSUME NEW a \in Accounts, NoPeriods, CanUpdateReward(flexible)
               PROVE  CanUnstake(a, userStaking[a].amount)
    BY DEF StakesAreReleased
  <1> DEFINE amount == userStaking[a].amount
             worth == InAprToken(amount)
             after == AprUnstake(apr, a, worth)
             user == apr.users[a]
  <1>1. amount \in Nat /\ pool.unstakeFeeRate \in 0 .. HundredPercent
    BY DEF IInv, Shapes
  <1>2. Part(amount, pool.unstakeFeeRate) <= amount
    <2> DEFINE rate == pool.unstakeFeeRate
    <2>1. HundredPercent \in Nat \ {0} /\ rate \in Nat /\ rate <= HundredPercent
      BY <1>1, StakingAssumption
    <2> HIDE DEF amount, rate
    <2>2. amount * rate \in Nat /\ amount * rate <= amount * HundredPercent
      BY <1>1, <2>1, Z3
    <2>3. (amount * rate) \div HundredPercent <= amount
      BY <1>1, <2>1, <2>2, Z3
    <2> QED BY <2>3 DEF Part, rate
  <1>3. worth \in Int
    BY <1>1, WorthIsInt
  <1>4. /\ now \in Nat /\ Unlimited \in Nat /\ now <= Unlimited
        /\ apr.disableTime \in Nat /\ apr.period = Unlimited
        /\ IsAprController(apr) /\ IsUser(user)
    BY StakingAssumption DEF ExitInv, IsAprController, NoPeriods
  <1> HIDE DEF amount, worth
  <1>5. /\ Removable(apr, a, worth) <= user.amount
        /\ SameLimits(after, apr)
        /\ after.users[a].lastRewardTime
               = Min({LatestCheckPoint(apr, user.stakedTime), now})
    BY <1>3, <1>4, AprUnstakeKeepsUsers
  <1> HIDE DEF after
  <1>6. ASSUME NEW c, c.period = Unlimited, c.disableTime = apr.disableTime,
               c.users[a].lastRewardTime \in Int, c.users[a].lastRewardTime <= now
        PROVE  CanUpdateInterest(c, a)
    <2>1. RewardTime(c, c.users[a]) = Min({Unlimited, now, apr.disableTime})
      BY <1>6 DEF RewardTime, LatestCheckPoint
    <2>2. RewardTime(c, c.users[a]) \in {Unlimited, now, apr.disableTime}
      BY <1>4, <2>1, MinOfThree
    <2> QED BY <1>4, <1>6, <2>2 DEF CanUpdateInterest, HasCheckPoint
  <1>7. CanUpdateInterest(apr, a)
    BY <1>4, <1>6 DEF IsUser
  <1>8. CanUpdateInterest(after, a)
    <2>1. after.users[a].lastRewardTime \in Int /\ after.users[a].lastRewardTime <= now
      <3>1. LatestCheckPoint(apr, user.stakedTime) = Unlimited
        BY <1>4 DEF LatestCheckPoint
      <3>2. Min({Unlimited, now}) \in Int /\ Min({Unlimited, now}) <= now
        <4>1. now \in Int /\ Unlimited \in Int
          BY <1>4
        <4>2. Min({Unlimited, now}) \in {Unlimited, now} /\ Min({Unlimited, now}) <= now
          BY <4>1, MinOfTwoIsLeast, Zenon
        <4> QED BY <4>1, <4>2
      <3> QED BY <1>5, <3>1, <3>2
    <2> QED BY <1>4, <1>5, <1>6, <2>1 DEF SameLimits
  <1>9. CanUpdateShares(flexible, a)
    BY DEF CanUpdateShares, HasCheckPoint, NoPeriods
  <1> QED BY <1>1, <1>2, <1>5, <1>7, <1>8, <1>9 DEF CanUnstake, amount, worth, after

\* While no administrator asks for more than the whole stake as a fee, every
\* stake can be taken out, and all of them together, whatever the price and the
\* rewards have done since (StakingPool.unstake, StakingPool.sol:96-134;
\* unstake and verifyRewards, APRRewardController.sol:50-64).
THEOREM StakesStayFree ==
    ASSUME \A p \in Pools : p.unstakeFeeRate \in 0 .. HundredPercent
    PROVE  StakingSpec => []StakesCanLeave
  <1>1. IInv /\ ExitInv => StakesCanLeave
    BY HeldWhilePaidInOther, ReleasedWhileEnabled DEF StakesCanLeave
  <1> QED BY <1>1, ExitInvariance, PTL
=============================================================================
