----------------------------- MODULE ImplStore -----------------------------
(***************************************************************************)
(* How upgrades-core fetches or deploys a contract once per network:       *)
(* fetchOrDeploy and fetchOrDeployAdmin (impl-store.ts) over the network's *)
(* manifest file (manifest.ts), which several processes share under a lock *)
(* file, and over the chain (deployment.ts, provider.ts), whose            *)
(* transactions are mined, reverted or dropped in their own time.          *)
(*                                                                         *)
(* A step of a process runs from one await that others can overtake to the *)
(* next.  A process can crash between any two steps, and while it writes   *)
(* the file.  An address is the nonce it was deployed with; a development  *)
(* chain can be reset, after which nonces and addresses start again while  *)
(* the manifest stays.  Contracts that others deploy come with their code  *)
(* at any time, or never, and are gone with a reset too.                   *)
(***************************************************************************)
EXTENDS Naturals, Sequences, FiniteSets

CONSTANTS
    Processes,
    Versions,               \* implementations, by bytecode version
    Admin,                  \* the manifest field of the proxy admin
    Foreign,                \* addresses of contracts deployed without the manifest
    Networks,               \* answers of isDevelopmentNetwork(provider)
    CanWaitForever,         \* timeout 0: poll for a receipt without end
    TornWrites,             \* whether a crash can cut a write of the file
    None, Nobody, Stale, Damaged,
    MaxTransactions,        \* bound: contracts deployed on one chain
    MaxResets               \* bound: resets of a development chain

Fields == Versions \union {Admin}
Addresses == (1 .. MaxTransactions) \union Foreign
Hashes == (0 .. MaxResets) \X (1 .. MaxTransactions)

\* An entry has the address that its transaction made, or an imported one and
\* no transaction.
Deployment ==
    {d \in [address : Addresses, txHash : Hashes \union {None},
            allAddresses : SUBSET Addresses] :
        IF d.txHash = None THEN d.address \in Foreign ELSE d.address = d.txHash[2]}
Manifest == [Fields -> Deployment \union {None}]

ASSUME StoreAssumption ==
    /\ Admin \notin Versions
    /\ None \notin Deployment \union (Nat \X Nat)
    /\ {Nobody, Stale} \cap Processes = {} /\ Nobody # Stale
    /\ Networks \subseteq BOOLEAN /\ CanWaitForever \in BOOLEAN
    /\ TornWrites \in BOOLEAN
    /\ MaxTransactions \in Nat /\ MaxResets \in Nat

VARIABLES
    manifest,       \* the file: a deployment or None for every field
    lock,           \* owner of the lock file
    devNetwork,     \* whether the chain is a development network
    txs, epoch,     \* its transactions, and how often it was reset
    foreign,        \* the contracts of others that have code on it
    pc,             \* where each process is
    call,           \* what it was asked for
    data,           \* its copy of the manifest
    dep,            \* the deployment it uses
    orphans         \* contracts that a crash or an error left unrecorded

chainVars == <<devNetwork, txs, epoch, foreign>>
vars == <<manifest, lock, chainVars, pc, call, data, dep, orphans>>

Calls == [field : Fields, import : Foreign \union {None}]
NoManifest == [f \in Fields |-> None]

\* simulateDeployImpl merges; fetchOrDeployAdmin and plain deployments do not.
Merges(c) == c.import # None /\ c.field # Admin

----------------------------------------------------------------------------
(* The chain as the provider shows it. *)

Hash(n) == <<epoch, n>>
Known(hash) == hash[1] = epoch /\ hash[2] \in DOMAIN txs
StatusOf(hash) == IF Known(hash) THEN txs[hash[2]].status ELSE "dropped"

\* Mutant: a transaction counts only once it is mined.
MutantIsFound(hash) == StatusOf(hash) \notin {"dropped", "pending"}

\* getTransactionByHash is not null.
IsFound(hash) == StatusOf(hash) # "dropped"
HasReceipt(hash) == StatusOf(hash) \notin {"dropped", "pending"}
IsReceiptSuccessful(hash) == StatusOf(hash) \in {"mined", "codeless"}

HasCode(address) ==
    \/ address \in foreign
    \/ address \in DOMAIN txs /\ txs[address].status = "mined"

\* validateStoredDeployment accepts the cached deployment.
IsStored(d) ==
    /\ d # None
    /\ IF d.txHash # None THEN IsFound(d.txHash) ELSE HasCode(d.address)

----------------------------------------------------------------------------
(* The manifest. *)

AddressesOf(d) == {d.address} \union d.allAddresses

\* Mutant: the addresses merged before are dropped.
MutantMergeAddresses(existing, value) ==
    IF existing = None THEN value
    ELSE [existing EXCEPT !.allAddresses = {existing.address, value.address}]

\* Mutant: the entry keeps its transaction and takes the address merged into it.
MutantTakesAddress(existing, value) ==
    IF existing = None THEN value
    ELSE [existing EXCEPT
             !.address = value.address,
             !.allAddresses = AddressesOf(existing) \union AddressesOf(value)]

\* mergeAddresses; an entry that is not there is set.
MergeAddresses(existing, value) ==
    IF existing = None THEN value
    ELSE [existing EXCEPT
             !.allAddresses = AddressesOf(existing) \union AddressesOf(value)]

LookupDeployment(d, address, checkAllAddresses) ==
    {f \in Fields :
        /\ d[f] # None
        /\ \/ d[f].address = address
           \/ f # Admin /\ checkAllAddresses /\ address \in d[f].allAddresses}

\* Mutant: only the admin's address is compared.
MutantClashes(d, c, updated) ==
    LookupDeployment(d, updated.address, FALSE) \cap {Admin}

\* The fields that checkForAddressClash finds at the address of updated.
Clashes(d, c, updated) ==
    LookupDeployment(d, updated.address, ~Merges(c))

\* The one that it takes away on a development network: the admin's, or the
\* first of the implementations in the order of the file, which is left open.
Cleared(d, clashes) ==
    IF clashes = {} THEN {d}
    ELSE {[d EXCEPT ![f] = None] : f \in IF Admin \in clashes THEN {Admin} ELSE clashes}

\* Then the lens sets or merges.
Updated(d, c, updated) ==
    [d EXCEPT ![c.field] =
        IF Merges(c) THEN MergeAddresses(@, updated) ELSE updated]

\* Mutant: a deployment error removes whatever the field holds by then.
MutantIsStillStored(stored, d) == TRUE

\* The deployment error of d is about the stored entry.
IsStillStored(stored, d) ==
    (IF stored = None THEN None ELSE stored.txHash) = d.txHash

----------------------------------------------------------------------------
Init ==
    /\ manifest = NoManifest
    /\ lock = Nobody
    /\ devNetwork \in Networks
    /\ txs = <<>> /\ epoch = 0
    /\ foreign \in SUBSET Foreign
    /\ pc = [p \in Processes |-> "idle"]
    /\ call = [p \in Processes |-> None]
    /\ data = [p \in Processes |-> None]
    /\ dep = [p \in Processes |-> None]
    /\ orphans = {}

Goto(p, label) == pc' = [pc EXCEPT ![p] = label]

\* The call returns or throws, and its local variables are gone.
Ends(p) ==
    /\ Goto(p, "idle")
    /\ call' = [call EXCEPT ![p] = None]
    /\ data' = [data EXCEPT ![p] = None]
    /\ dep' = [dep EXCEPT ![p] = None]

\* The finally of lockedRun.
Release == lock' = Nobody

\* fetchOrDeploy, fetchOrDeployAdmin or an import of a given address.
Begin(p, c) ==
    /\ pc[p] = "idle"
    /\ Goto(p, "lock")
    /\ call' = [call EXCEPT ![p] = c]
    /\ UNCHANGED <<manifest, lock, chainVars, data, dep, orphans>>

\* Mutant: the file is read without waiting for the lock.
MutantIsFree(l) == TRUE

IsFree(l) == l = Nobody

\* lock and read, at the start of a call or to remove an invalid deployment.
Acquire(p) ==
    /\ pc[p] \in {"lock", "invalid"}
    /\ IsFree(lock)
    /\ IF manifest = Damaged
       THEN Ends(p) /\ UNCHANGED lock
       ELSE /\ lock' = p
            /\ data' = [data EXCEPT ![p] = manifest]
            /\ Goto(p, IF pc[p] = "lock" THEN "validate" ELSE "remove")
            /\ UNCHANGED <<call, dep>>
    /\ UNCHANGED <<manifest, chainVars, orphans>>

\* The retries for the lock are used up.
GiveUp(p) ==
    /\ pc[p] \in {"lock", "invalid"}
    /\ ~IsFree(lock)
    /\ Ends(p)
    /\ UNCHANGED <<manifest, lock, chainVars, orphans>>

\* validateCached and resumeOrDeploy.  With merge the deployment that was
\* found is not waited for: the promise of waitAndValidateDeployment is
\* dropped.
Validate(p) ==
    LET field  == call[p].field
        stored == data[p][field]
    IN /\ pc[p] = "validate"
       /\ \/ /\ IF stored = None THEN TRUE ELSE IsStored(stored) /\ Merges(call[p])
             /\ Goto(p, "deploy")
             /\ UNCHANGED <<lock, data, dep>>
          \/ /\ IsStored(stored) /\ ~Merges(call[p])
             /\ dep' = [dep EXCEPT ![p] = stored]
             /\ Release
             /\ Goto(p, "wait")
             /\ UNCHANGED data
          \/ /\ stored # None /\ ~IsStored(stored) /\ devNetwork
             /\ data' = [data EXCEPT ![p][field] = None]
             /\ Goto(p, "deploy")
             /\ UNCHANGED <<lock, dep>>
          \/ /\ stored # None /\ ~IsStored(stored) /\ ~devNetwork
             /\ dep' = [dep EXCEPT ![p] = stored]
             /\ Release
             /\ Goto(p, "invalid")
             /\ UNCHANGED data
       /\ UNCHANGED <<manifest, chainVars, call, orphans>>

\* The deploy callback: a transaction is sent, or the address to import is
\* returned.
Deploy(p) ==
    /\ pc[p] = "deploy"
    /\ IF call[p].import # None
       THEN /\ dep' = [dep EXCEPT ![p] =
                  [address |-> call[p].import, txHash |-> None, allAddresses |-> {}]]
            /\ UNCHANGED txs
       ELSE LET n == Len(txs) + 1
            IN /\ n <= MaxTransactions
               /\ txs' = Append(txs, [field |-> call[p].field, status |-> "pending"])
               /\ dep' = [dep EXCEPT ![p] =
                     [address |-> n, txHash |-> Hash(n), allAddresses |-> {}]]
    /\ Goto(p, "record")
    /\ UNCHANGED <<manifest, lock, devNetwork, epoch, foreign, call, data, orphans>>

\* The deploy callback throws before anything was sent.
DeployFails(p) ==
    /\ pc[p] = "deploy"
    /\ call[p].import = None
    /\ Release
    /\ Ends(p)
    /\ UNCHANGED <<manifest, chainVars, orphans>>

\* What a process that stops now leaves without a record.
LeftBehind(p) ==
    IF pc[p] = "record" /\ dep[p].txHash # None THEN {dep[p].txHash} ELSE {}

\* checkForAddressClash, set or merge, write.
Record(p) ==
    /\ pc[p] = "record"
    /\ Release
    /\ IF Clashes(data[p], call[p], dep[p]) # {} /\ ~devNetwork
       THEN /\ Ends(p)
            /\ orphans' = orphans \union LeftBehind(p)
            /\ UNCHANGED manifest
       ELSE /\ \E d \in Cleared(data[p], Clashes(data[p], call[p], dep[p])) :
                   manifest' = Updated(d, call[p], dep[p])
            /\ Goto(p, "wait")
            /\ data' = [data EXCEPT ![p] = None]
            /\ UNCHANGED <<call, dep, orphans>>
    /\ UNCHANGED chainVars

\* waitAndValidateDeployment: there is a receipt, or none is expected.
IsConfirmed(d) == IF d.txHash = None THEN TRUE ELSE IsReceiptSuccessful(d.txHash)

Succeed(p) ==
    /\ pc[p] = "wait"
    /\ IsConfirmed(dep[p]) /\ HasCode(dep[p].address)
    /\ Ends(p)
    /\ UNCHANGED <<manifest, lock, chainVars, orphans>>

\* InvalidDeployment: reverted, or no code at the address.
FindInvalid(p) ==
    /\ pc[p] = "wait"
    /\ IF IsConfirmed(dep[p]) THEN ~HasCode(dep[p].address)
       ELSE HasReceipt(dep[p].txHash)
    /\ Goto(p, "invalid")
    /\ UNCHANGED <<manifest, lock, chainVars, call, data, dep, orphans>>

\* Mutant: only a transaction that the node still knows times out.
MutantTimesOut(d) == StatusOf(d.txHash) = "pending"

\* There is no receipt yet.
TimesOut(d) == ~HasReceipt(d.txHash)

\* TransactionMinedTimeout: the manifest keeps the deployment.
TimeOut(p) ==
    /\ pc[p] = "wait" /\ ~CanWaitForever
    /\ dep[p].txHash # None /\ TimesOut(dep[p])
    /\ Ends(p)
    /\ UNCHANGED <<manifest, lock, chainVars, orphans>>

\* The catch of fetchOrDeployGeneric, under the lock.
Remove(p) ==
    LET field == call[p].field
    IN /\ pc[p] = "remove"
       /\ manifest' = IF IsStillStored(data[p][field], dep[p])
                      THEN [data[p] EXCEPT ![field] = None] ELSE manifest
       /\ Release
       /\ Ends(p)
       /\ UNCHANGED <<chainVars, orphans>>

----------------------------------------------------------------------------
(* Faults and the environment. *)

\* The process dies; its lock file stays until it is stale.
Crash(p) ==
    /\ pc[p] # "idle"
    /\ orphans' = orphans \union LeftBehind(p)
    /\ lock' = IF lock = p THEN Stale ELSE lock
    /\ manifest' \in {manifest} \union
           (IF TornWrites /\ pc[p] \in {"record", "remove"} THEN {Damaged} ELSE {})
    /\ Ends(p)
    /\ UNCHANGED chainVars

LockExpires ==
    /\ lock = Stale
    /\ lock' = Nobody
    /\ UNCHANGED <<manifest, chainVars, pc, call, data, dep, orphans>>

Settle(n, status) ==
    /\ txs[n].status = "pending"
    /\ txs' = [txs EXCEPT ![n].status = status]
    /\ UNCHANGED <<manifest, lock, devNetwork, epoch, foreign, pc, call, data, dep, orphans>>

\* Others deploy a contract, or deploy it again after a reset.
DeployForeign(address) ==
    /\ address \notin foreign
    /\ foreign' = foreign \union {address}
    /\ UNCHANGED <<manifest, lock, devNetwork, txs, epoch, pc, call, data, dep, orphans>>

Reset ==
    /\ devNetwork /\ epoch < MaxResets
    /\ txs' = <<>>
    /\ epoch' = epoch + 1
    /\ foreign' = {}
    /\ UNCHANGED <<manifest, lock, devNetwork, pc, call, data, dep, orphans>>

Step(p) ==
    \/ Acquire(p) \/ GiveUp(p) \/ Validate(p) \/ Deploy(p) \/ DeployFails(p)
    \/ Record(p) \/ Succeed(p) \/ FindInvalid(p) \/ TimeOut(p) \/ Remove(p)

Next ==
    \/ \E p \in Processes : Step(p) \/ Crash(p) \/ \E c \in Calls : Begin(p, c)
    \/ LockExpires
    \/ \E n \in DOMAIN txs :
           \E status \in {"mined", "codeless", "reverted", "dropped"} : Settle(n, status)
    \/ \E address \in Foreign : DeployForeign(address)
    \/ Reset

Spec == Init /\ [][Next]_vars
----------------------------------------------------------------------------
Transaction ==
    [field : Fields, status : {"pending", "mined", "codeless", "reverted", "dropped"}]

TypeOK ==
    /\ manifest \in Manifest \union {Damaged}
    /\ lock \in Processes \union {Nobody, Stale}
    /\ devNetwork \in BOOLEAN
    /\ txs \in Seq(Transaction)
    /\ epoch \in 0 .. MaxResets
    /\ foreign \in SUBSET Foreign
    /\ pc \in [Processes -> {"idle", "lock", "validate", "deploy", "record",
                              "wait", "invalid", "remove"}]
    /\ call \in [Processes -> Calls \union {None}]
    /\ data \in [Processes -> Manifest \union {None}]
    /\ dep \in [Processes -> Deployment \union {None}]

InLockedRun(p) == pc[p] \in {"validate", "deploy", "record", "remove"}

\* Whatever happens between two awaits of a process inside lockedRun, the
\* copy it will write back is the file but for its own field: no process
\* undoes what another has recorded.
CopiesAreCurrent ==
    \A p \in Processes : InLockedRun(p) =>
        /\ lock = p
        /\ manifest # Damaged
        /\ \A f \in Fields \ {call[p].field} : data[p][f] = manifest[f]

\* A transaction of the store that may still become, or is, a contract.
IsAlive(n) == txs[n].status \in {"pending", "mined"}

IsRecorded(n) ==
    LET entry == manifest[txs[n].field]
    IN entry # None /\ n \in AddressesOf(entry)

\* Every deployment that was sent is in the file, or about to be written by
\* its process, unless that process died or found a clash in between: a
\* removal or a redeployment by others never loses it.
NothingIsForgotten ==
    manifest # Damaged =>
        \A n \in DOMAIN txs : IsAlive(n) =>
            \/ IsRecorded(n)
            \/ Hash(n) \in orphans
            \/ \E p \in Processes : pc[p] = "record" /\ dep[p].txHash = Hash(n)

\* However many processes ask for a version, and whatever times out or is
\* retried, one contract is deployed for it.
OneDeployment ==
    manifest # Damaged =>
        \A n, m \in DOMAIN txs :
            /\ IsAlive(n) /\ IsAlive(m) /\ txs[n].field = txs[m].field
            /\ {Hash(n), Hash(m)} \cap orphans = {}
            => n = m

\* No two fields are deployed at the same address, however often a
\* development network starts again; there, one clash is cleared at a time, and
\* an address that was imported for several fields can stay with two of them.
AddressesAreUnique ==
    manifest # Damaged =>
        \A f, g \in Fields :
            f # g /\ manifest[f] # None /\ manifest[g] # None
                => \/ manifest[f].address # manifest[g].address
                   \/ devNetwork /\ manifest[f].address \in Foreign

\* An entry is in use: its transaction may succeed or did, or its code is there.
IsUsable(d) ==
    IF d.txHash = None THEN HasCode(d.address)
    ELSE StatusOf(d.txHash) \in {"pending", "mined"}

\* The catch of fetchOrDeployGeneric compares transactions, and imports have
\* none: a process that found its import of the field without code is about to
\* remove the field (impl-store.ts, undefined === undefined).
ImportFailed(f) ==
    \E p \in Processes :
        /\ pc[p] = "remove" /\ call[p].field = f
        /\ dep[p].txHash = None

\* Only a deployment that failed is ever taken out of the file, or, on a
\* development network, one of whose addresses another field took over.  For
\* deployments of the tool itself that is all; an imported entry can also go, code
\* or not, for another import of its version that had no code when its process
\* looked.
RemovedOnlyIfInvalid ==
    [][\A f \in Fields :
          (Damaged \notin {manifest, manifest'} /\ manifest[f] # None /\ manifest'[f] = None)
              => \/ ~IsUsable(manifest[f])
                 \/ manifest[f].txHash = None /\ ImportFailed(f)
                 \/ /\ devNetwork
                    /\ \E g \in Fields \ {f} :
                           /\ manifest'[g] # None
                           /\ AddressesOf(manifest[f]) \cap AddressesOf(manifest'[g]) # {}]_vars

\* On a live network an entry that stays never loses an address that was
\* deployed or imported.
MergeKeepsAddresses ==
    [][~devNetwork => \A f \in Fields :
          (Damaged \notin {manifest, manifest'} /\ None \notin {manifest[f], manifest'[f]})
              => AddressesOf(manifest[f]) \subseteq AddressesOf(manifest'[f])]_vars

\* An address that a call returns is in the file at that moment, whoever
\* else removed, merged or redeployed entries while it waited without the lock.
ReturnedIsRecorded ==
    [][\A p \in Processes :
          (Succeed(p) /\ manifest # Damaged)
              => /\ manifest[call[p].field] # None
                 /\ dep[p].address \in AddressesOf(manifest[call[p].field])]_vars

\* Every call ends, with an address or an error, also when processes die
\* with the lock or a transaction is never mined.
CallsEnd == \A p \in Processes : pc[p] # "idle" ~> pc[p] = "idle"
=============================================================================
