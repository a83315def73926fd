----------------------------- MODULE MCDocumented -----------------------------
(***************************************************************************)
(* What comments and tests of the repository say about withdrawals and     *)
(* units that the handlers of PrecogV5 do not do.  Each run on this module *)
(* ends in a short history that contradicts one quoted line.               *)
(***************************************************************************)
EXTENDS MCPrecogV5

\* IWithdrawalRegister.sol:81 says that the "Deadline of register must be
\* less than or equal to now" for a claim: so a claim of a registered amount
\* the register can pay goes through as soon as the deadline is reached.
ClaimableAtDeadline ==
    \A a \in Accounts, amount \in WithdrawAmounts :
        /\ register[a].deadline <= now
        /\ amount <= register[a].amount
        /\ amount <= tokens.register
        => ENABLED Claim(a, amount)

\* IContractStructure.sol:62 says that firstDefundingCycle "is used when user
\* requests withdrawal for the first time": an account that never claimed
\* and has nothing pending waits that long, whatever it cancelled before.
EveryFirstRequestWaits ==
    [][\A a \in Accounts :
          ~isNotFirstWithdrawal[a] /\ register[a].amount = 0 /\ register'[a].amount > 0
              => register'[a].deadline
                     >= now + FirstDefundingCycle - DefundingCycle]_vars
=============================================================================
