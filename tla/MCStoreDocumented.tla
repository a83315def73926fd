------------------------- MODULE MCStoreDocumented -------------------------
(***************************************************************************)
(* What comments and messages of upgrades-core say of fetchOrDeploy and    *)
(* the code does not do.                                                   *)
(***************************************************************************)
EXTENDS MCImplStore

\* deployment.ts, validateStoredDeployment: "If merging, wait for the existing
\* deployment to be mined": a merge is written only into a mined deployment.
MergesIntoMined ==
    [][\A p \in Processes :
          (Record(p) /\ Merges(call[p]))
              => LET stored == data[p][call[p].field]
                 IN IF stored = None THEN TRUE ELSE IsConfirmed(stored)]_vars

\* impl-store.ts: "If we run into a deployment error, we remove it from the
\* manifest": an address that was imported beside it and has code stays.
RemovesOnlyTheFailed ==
    [][\A p \in Processes :
          (Remove(p) /\ manifest[call[p].field] # None)
              => \A address \in Foreign \cap AddressesOf(manifest[call[p].field]) :
                     IF manifest'[call[p].field] = None THEN FALSE
                     ELSE address \in AddressesOf(manifest'[call[p].field])]_vars

\* deployment.ts: an InvalidDeployment that reached the catch says "(Removed
\* from manifest)": its address is gone from the entry.
RemovedAsReported ==
    [][\A p \in Processes :
          Remove(p) => IF manifest'[call[p].field] = None THEN TRUE
                       ELSE dep[p].address \notin AddressesOf(manifest'[call[p].field])]_vars

\* impl-store.ts, @param merge: "adds a deployment to existing deployment by
\* merging their addresses", on a development network too.
MergeAddsAddresses ==
    [][\A p \in Processes :
          (Record(p) /\ Merges(call[p]) /\ data[p][call[p].field] # None)
              => AddressesOf(data[p][call[p].field])
                     \subseteq AddressesOf(manifest'[call[p].field])]_vars
=============================================================================
