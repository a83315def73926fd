---------------------------- MODULE PrecogLedger ----------------------------
(***************************************************************************)
(* What a Precog pool promises the holders of IPCOG, without cycles,       *)
(* units, vault or fees.  A holder's shares are split into what is         *)
(* invested and what is owed after a request.  What is owed has one due    *)
(* time, fixed while anything is owed, and is paid only after it; a new    *)
(* deposit can turn what is owed back into an investment.                  *)
(***************************************************************************)
EXTENDS Integers

CONSTANTS Holders, Amounts

VARIABLES time, invested, owed, due, shares

ledgerVars == <<time, invested, owed, due, shares>>

Init ==
    /\ time = 0
    /\ invested = [h \in Holders |-> 0]
    /\ owed = [h \in Holders |-> 0]
    /\ due = [h \in Holders |-> 0]
    /\ shares = [h \in Holders |-> 0]

\* New money is added and part or all of what is owed is taken back; the due
\* time is forgotten only when nothing is owed any more.
Invest(h, fresh, back) ==
    /\ back <= owed[h]
    /\ invested' = [invested EXCEPT ![h] = @ + fresh + back]
    /\ shares' = [shares EXCEPT ![h] = @ + fresh]
    /\ owed' = [owed EXCEPT ![h] = @ - back]
    /\ \/ due' = due
       \/ back = owed[h] /\ due' = [due EXCEPT ![h] = time]
    /\ UNCHANGED time

\* The due time is chosen when nothing is owed and not in the past.
Request(h, amount) ==
    /\ amount <= invested[h]
    /\ invested' = [invested EXCEPT ![h] = @ - amount]
    /\ owed' = [owed EXCEPT ![h] = @ + amount]
    /\ owed[h] > 0 => time <= due[h] /\ due' = due
    /\ due'[h] >= time
    /\ due' = [due EXCEPT ![h] = due'[h]]
    /\ UNCHANGED <<time, shares>>

Pay(h, amount) ==
    /\ due[h] < time
    /\ amount <= owed[h]
    /\ owed' = [owed EXCEPT ![h] = @ - amount]
    /\ shares' = [shares EXCEPT ![h] = @ - amount]
    /\ UNCHANGED <<time, invested, due>>

\* A deposit goes back before it is used; what is owed is not touched.
GiveBack(h, amount) ==
    /\ amount <= invested[h]
    /\ invested' = [invested EXCEPT ![h] = @ - amount]
    /\ shares' = [shares EXCEPT ![h] = @ - amount]
    /\ UNCHANGED <<time, owed, due>>

TimePasses ==
    /\ time' > time
    /\ UNCHANGED <<invested, owed, due, shares>>

Next ==
    \/ TimePasses
    \/ \E h \in Holders, amount \in Amounts :
        \/ \E back \in Amounts : Invest(h, amount, back)
        \/ Request(h, amount)
        \/ Pay(h, amount)
        \/ GiveBack(h, amount)

Spec == Init /\ [][Next]_ledgerVars
=============================================================================
