--------------------------- MODULE MCPrecogProfit ---------------------------
(***************************************************************************)
(* Small instances of PrecogProfit for TLC.  The runs bound how often the  *)
(* users change their investments; profits, claims, calendar updates,      *)
(* token transfers and time stay free.                                     *)
(***************************************************************************)
EXTENDS PrecogProfit, TLC

CONSTANT MaxTransactions
ASSUME MaxTransactions \in Nat

VARIABLE transactions           \* deposits, requests and forced withdrawals

mcProfitVars == <<profitVarsAll, transactions>>

Counted(step) ==
    /\ step
    /\ transactions' = transactions + IF investmentsOf' = investmentsOf THEN 0 ELSE 1
    /\ transactions' <= MaxTransactions

MCProfitInit == ProfitInit /\ transactions = 0

MCProfitSpec == MCProfitInit /\ [][Counted(ProfitNext)]_mcProfitVars

MCReturningProfitInit == ReturningProfitInit /\ transactions = 0

MCReturningProfitSpec ==
    MCReturningProfitInit /\ [][Counted(ProfitNext)]_mcProfitVars

\* The history of late_decrease (MCDocumented) goes on: overpaid.cfg lets
\* the user act at its times only.
TimesOfUser == <<0, 2, 2, 3, 3, 3>>

MCOverpaidSpec ==
    /\ MCProfitInit
    /\ [][/\ Counted(ProfitNext)
          /\ transactions' # transactions => now = TimesOfUser[transactions']]_mcProfitVars

AccountSymmetry == Permutations(Accounts)
=============================================================================
