-------------------------- MODULE PrecogRefinement --------------------------
(***************************************************************************)
(* A PrecogV5 pool implements PrecogLedger: the invested amount is that of *)
(* the last investment of the account, what is owed and its due time are   *)
(* the account's register, the shares are its IPCOG.                       *)
(***************************************************************************)
EXTENDS PrecogV5

\* No call moves more than the amount it is made with.
MovedAmounts == UNION {0 .. x : x \in DepositAmounts \union WithdrawAmounts}

Ledger == INSTANCE PrecogLedger WITH
    Holders  <- Accounts,
    Amounts  <- MovedAmounts,
    time     <- now,
    invested <- [a \in Accounts |-> InvestedAmount(a)],
    owed     <- [a \in Accounts |-> register[a].amount],
    due      <- [a \in Accounts |-> register[a].deadline],
    shares   <- ipcog

\* Every step of the pool is a step of the ledger for one account or changes
\* nothing the ledger sees: deposits, requests, claims and forced withdrawals
\* keep the promise whatever happens to cycles, units and token balances.
ImplementsLedger == Ledger!Spec
=============================================================================
