----------------------------- MODULE MCPrecogV5 -----------------------------
(***************************************************************************)
(* Small instances of PrecogV5 for TLC.  Besides the sets of amounts and   *)
(* MaxTime, the runs bound how often the users change their investments:   *)
(* claims, calendar updates, token transfers and time stay free.           *)
(***************************************************************************)
EXTENDS PrecogRefinement, TLC

CONSTANTS MaxTransactions, LastTransactionTime
ASSUME {MaxTransactions, LastTransactionTime} \subseteq Nat

VARIABLE transactions           \* deposits, requests and forced withdrawals

mcVars == <<vars, transactions>>

Counted(step) ==
    /\ step
    /\ transactions' = transactions + IF investmentsOf' = investmentsOf THEN 0 ELSE 1
    /\ transactions' <= MaxTransactions
    /\ transactions' > transactions => now <= LastTransactionTime

MCInit == Init /\ transactions = 0

MCSpec == MCInit /\ [][Counted(Next)]_mcVars

\* The middleware does its two jobs, users collect what they can, and time
\* passes: the services that run beside the contracts, none of them starved.
CollectStep(a) == \E amount \in WithdrawAmounts \ {0} : Claim(a, amount)

Fairness ==
    /\ WF_mcVars(Counted(Tick))
    /\ WF_mcVars(Counted(TakeInvestment))
    /\ WF_mcVars(Counted(\E amount \in TransferAmounts : SendRequestedWithdrawal(amount)))
    /\ \A a \in Accounts : SF_mcVars(Counted(CollectStep(a)))

LiveSpec == MCSpec /\ Fairness

\* Whatever is registered for withdrawal is some day paid or taken back into
\* the investment: the vault, the middleware and the register never end up
\* with too little for it, and its deadline is reached.
RegisterIsSettled ==
    \A a \in Accounts : register[a].amount > 0 ~> register[a].amount = 0

AccountSymmetry == Permutations(Accounts)
=============================================================================
