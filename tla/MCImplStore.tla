---------------------------- MODULE MCImplStore ----------------------------
(***************************************************************************)
(* Small instances of ImplStore for TLC, and its fairness.                 *)
(***************************************************************************)
EXTENDS ImplStore, TLC

\* A running process goes on, and a lock file nobody renews is taken as stale;
\* nothing is assumed of the chain, of the users that begin calls, or of how
\* often a process crashes.
FairSpec ==
    /\ Spec
    /\ \A p \in Processes : WF_vars(Step(p))
    /\ WF_vars(LockExpires)

ProcessSymmetry == Permutations(Processes)

\* Imported contracts differ in nothing but their addresses.
ImportSymmetry == ProcessSymmetry \union Permutations(Foreign)
=============================================================================
