-------------------------- MODULE ImplStore_proofs --------------------------
(***************************************************************************)
(* Proofs about the deployment store for any number of processes, versions *)
(* and imported contracts, on every kind of network, with crashes, torn    *)
(* writes, stale locks and resets of a development chain.                  *)
(***************************************************************************)
EXTENDS ImplStore, TLAPS

----------------------------------------------------------------------------
(* The inductive invariant, one process at a time. *)

\* The variables of a process are there when it comes to use them.
HasLocals(p) ==
    /\ pc[p] # "idle" => call[p] \in Calls
    /\ InLockedRun(p) => data[p] \in Manifest
    /\ pc[p] \in {"record", "wait", "invalid", "remove"} => dep[p] \in Deployment

\* Inside lockedRun the process owns the lock file, and its copy is the file
\* but for the field it works on.
HoldsLock(p) ==
    InLockedRun(p) =>
        /\ lock = p
        /\ manifest # Damaged
        /\ \A f \in Fields \ {call[p].field} : data[p][f] = manifest[f]

\* When it is about to remove an entry, that field is as in the file too; on a
\* live network it always is, and a process that is about to set it found
\* nothing there.
ReplacesNothing(p) ==
    /\ pc[p] = "remove" => data[p] = manifest
    /\ InLockedRun(p) /\ ~devNetwork =>
           /\ data[p] = manifest
           /\ pc[p] \in {"deploy", "record"} /\ ~Merges(call[p])
                  => data[p][call[p].field] = None

ProcessInv(p) == HasLocals(p) /\ HoldsLock(p) /\ ReplacesNothing(p)

IInv == TypeOK /\ \A p \in Processes : ProcessInv(p)

\* What a step of p does to the others: nothing, and the one that owns the
\* lock file keeps it, with the manifest as it is.
OthersKeep(p) ==
    /\ devNetwork' = devNetwork
    /\ \A q \in Processes \ {p} :
           /\ pc'[q] = pc[q] /\ call'[q] = call[q]
           /\ data'[q] = data[q] /\ dep'[q] = dep[q]
           /\ lock = q => lock' = q /\ manifest' = manifest

\* A process keeps its part of the invariant over a step of another one.
LEMMA OthersKeepInv ==
    ASSUME NEW p \in Processes, IInv, OthersKeep(p)
    PROVE  \A q \in Processes \ {p} : ProcessInv(q)'
  <1> SUFFICES ASSUME NEW q \in Processes \ {p} PROVE ProcessInv(q)'
    OBVIOUS
  <1>1. ProcessInv(q)
    BY DEF IInv
  <1>2. /\ pc'[q] = pc[q] /\ call'[q] = call[q]
        /\ data'[q] = data[q] /\ dep'[q] = dep[q]
        /\ lock = q => lock' = q /\ manifest' = manifest
        /\ devNetwork' = devNetwork
    BY DEF OthersKeep
  <1>3. HasLocals(q)'
    BY <1>1, <1>2 DEF ProcessInv, HasLocals, InLockedRun
  <1>4. HoldsLock(q)'
    BY <1>1, <1>2 DEF ProcessInv, HoldsLock, InLockedRun
  <1>5. ReplacesNothing(q)'
    BY <1>1, <1>2 DEF ProcessInv, HoldsLock, ReplacesNothing, InLockedRun, Merges
  <1> QED BY <1>3, <1>4, <1>5 DEF ProcessInv

\* Only the process itself can be inside lockedRun when it is, or when the
\* lock file is stale or gone.
LEMMA LockIsExclusive ==
    ASSUME IInv, NEW p \in Processes, InLockedRun(p)
    PROVE  lock = p
  BY DEF IInv, ProcessInv, HoldsLock

\* The local variables of the other processes stay as they are.
LocalTo(p) ==
    \A q \in Processes \ {p} :
        /\ pc'[q] = pc[q] /\ call'[q] = call[q]
        /\ data'[q] = data[q] /\ dep'[q] = dep[q]

\* A step of p that leaves the file to the owner of the lock.
LEMMA StepOfOne ==
    ASSUME NEW p \in Processes, IInv,
           TypeOK', devNetwork' = devNetwork,
           LocalTo(p),
           \/ UNCHANGED <<manifest, lock>>
           \/ lock \in {p, Nobody, Stale},
           ProcessInv(p)'
    PROVE  IInv'
  <1>1. \A q \in Processes \ {p} : lock = q => lock \notin {p, Nobody, Stale}
    BY StoreAssumption
  <1>2. OthersKeep(p)
    BY <1>1 DEF OthersKeep, LocalTo
  <1>3. \A q \in Processes \ {p} : ProcessInv(q)'
    BY <1>2, OthersKeepInv
  <1> QED BY <1>3 DEF IInv

\* A process that is not inside a call needs nothing.
LEMMA EndsKeepsInv ==
    ASSUME NEW p \in Processes, IInv, Ends(p)
    PROVE  /\ ProcessInv(p)'
           /\ pc' \in [Processes -> {"idle", "lock", "validate", "deploy", "record",
                                     "wait", "invalid", "remove"}]
           /\ call' \in [Processes -> Calls \union {None}]
           /\ data' \in [Processes -> Manifest \union {None}]
           /\ dep' \in [Processes -> Deployment \union {None}]
  <1>1. pc'[p] = "idle"
    BY DEF Ends, Goto, IInv, TypeOK
  <1>2. ProcessInv(p)'
    BY <1>1 DEF ProcessInv, HasLocals, HoldsLock, ReplacesNothing, InLockedRun
  <1> QED BY <1>2 DEF Ends, Goto, IInv, TypeOK

\* A step of p that ends its call.
LEMMA StepThatEnds ==
    ASSUME NEW p \in Processes, IInv, Ends(p),
           manifest' \in Manifest \union {Damaged},
           lock' \in Processes \union {Nobody, Stale},
           UNCHANGED chainVars,
           UNCHANGED <<manifest, lock>> \/ lock \in {p, Nobody, Stale}
    PROVE  IInv'
  <1>1. TypeOK'
    BY EndsKeepsInv DEF TypeOK, IInv, chainVars
  <1>2. LocalTo(p)
    BY DEF LocalTo, Ends, Goto, IInv, TypeOK
  <1> QED BY <1>1, <1>2, EndsKeepsInv, StepOfOne DEF chainVars

----------------------------------------------------------------------------
(* Entries of the manifest. *)

\* Looking for clashes and merging leave a manifest.
LEMMA UpdatedIsManifest ==
    ASSUME NEW d \in Manifest, NEW c \in Calls, NEW e \in Deployment,
           NEW cleared \in Cleared(d, Clashes(d, c, e))
    PROVE  /\ cleared \in Manifest
           /\ Updated(cleared, c, e) \in Manifest
  <1>1. cleared \in Manifest
    BY DEF Cleared, Manifest
  <1>2. c.field \in Fields
    BY DEF Calls
  <1>3. ASSUME NEW old \in Deployment \union {None}
        PROVE  MergeAddresses(old, e) \in Deployment \union {None}
    BY DEF MergeAddresses, AddressesOf, Deployment
  <1>4. Updated(cleared, c, e) \in Manifest
    BY <1>1, <1>2, <1>3 DEF Updated, Manifest
  <1> QED BY <1>1, <1>4

\* Merging or setting changes the one field.
LEMMA UpdatedElsewhere ==
    ASSUME NEW d \in Manifest, NEW c \in Calls, NEW e, NEW f \in Fields \ {c.field}
    PROVE  Updated(d, c, e)[f] = d[f]
  BY DEF Updated, Manifest, Calls

----------------------------------------------------------------------------
(* The initial states and the steps. *)

\* The invariant holds of an empty store, and every action keeps it.
LEMMA InitIInv == Init => IInv
  <1> SUFFICES ASSUME Init PROVE IInv
    OBVIOUS
  <1>1. manifest \in Manifest
    BY DEF Init, NoManifest, Manifest
  <1>2. TypeOK
    BY <1>1, StoreAssumption DEF Init, TypeOK
  <1>3. \A p \in Processes : pc[p] = "idle"
    BY DEF Init
  <1> QED BY <1>2, <1>3 DEF IInv, ProcessInv, HasLocals, HoldsLock, ReplacesNothing, InLockedRun

LEMMA BeginKeepsIInv ==
    ASSUME NEW p \in Processes, NEW c \in Calls, IInv, Begin(p, c)
    PROVE  IInv'
  <1>1. TypeOK'
    BY DEF Begin, Goto, IInv, TypeOK, chainVars
  <1>2. pc'[p] = "lock" /\ call'[p] = c
    BY DEF Begin, Goto, IInv, TypeOK
  <1>3. ProcessInv(p)'
    BY <1>2 DEF ProcessInv, HasLocals, HoldsLock, ReplacesNothing, InLockedRun
  <1>4. LocalTo(p)
    BY DEF LocalTo, Begin, Goto, IInv, TypeOK
  <1> QED BY <1>1, <1>3, <1>4, StepOfOne DEF Begin, chainVars

LEMMA AcquireKeepsIInv ==
    ASSUME NEW p \in Processes, IInv, Acquire(p)
    PROVE  IInv'
  <1>1. CASE manifest = Damaged
    BY <1>1, StepThatEnds DEF Acquire, IInv, TypeOK
  <1>2. CASE manifest # Damaged
    <2>1. /\ manifest \in Manifest /\ UNCHANGED <<manifest, chainVars, call, dep>>
          /\ lock = Nobody /\ lock' = p
          /\ data' = [data EXCEPT ![p] = manifest]
          /\ \/ pc[p] = "lock" /\ pc' = [pc EXCEPT ![p] = "validate"]
             \/ pc[p] = "invalid" /\ pc' = [pc EXCEPT ![p] = "remove"]
      BY <1>2 DEF Acquire, IsFree, Goto, IInv, TypeOK
    <2>2. TypeOK'
      BY <2>1 DEF IInv, TypeOK, chainVars
    <2>3. /\ call'[p] = call[p] /\ dep'[p] = dep[p]
          /\ data'[p] = manifest
          /\ \/ pc[p] = "lock" /\ pc'[p] = "validate"
             \/ pc[p] = "invalid" /\ pc'[p] = "remove"
      BY <2>1 DEF IInv, TypeOK
    <2>4. HasLocals(p)
      BY DEF IInv, ProcessInv
    <2>5. ProcessInv(p)'
      BY <1>2, <2>1, <2>3, <2>4
      DEF ProcessInv, HasLocals, HoldsLock, ReplacesNothing, InLockedRun, chainVars
    <2>6. LocalTo(p)
      BY <2>1 DEF LocalTo, IInv, TypeOK
    <2> QED BY <2>1, <2>2, <2>5, <2>6, StepOfOne DEF chainVars
  <1> QED BY <1>1, <1>2

\* An error: the lock is not there to be had.
LEMMA GiveUpKeepsIInv ==
    ASSUME NEW p \in Processes, IInv, GiveUp(p)
    PROVE  IInv'
  BY StepThatEnds DEF GiveUp, IInv, TypeOK

LEMMA ValidateKeepsIInv ==
    ASSUME NEW p \in Processes, IInv, Validate(p)
    PROVE  IInv'
  <1> DEFINE field == call[p].field
             stored == data[p][field]
  <1>1. /\ pc[p] = "validate" /\ InLockedRun(p)
        /\ call[p] \in Calls /\ field \in Fields
        /\ data[p] \in Manifest /\ stored \in Deployment \union {None}
        /\ lock = p /\ UNCHANGED <<manifest, chainVars, call>>
    BY DEF Validate, InLockedRun, IInv, ProcessInv, HasLocals, HoldsLock, Calls, Manifest
  <1>2. ProcessInv(p)
    BY DEF IInv
  <1>3. CASE /\ IF stored = None THEN TRUE ELSE IsStored(stored) /\ Merges(call[p])
             /\ pc' = [pc EXCEPT ![p] = "deploy"]
             /\ UNCHANGED <<lock, data, dep>>
    <2>1. TypeOK'
      BY <1>1, <1>3 DEF IInv, TypeOK, chainVars
    <2>2. pc'[p] = "deploy" /\ LocalTo(p)
      BY <1>3, <1>1 DEF LocalTo, IInv, TypeOK
    <2>3. ProcessInv(p)'
      BY <1>1, <1>2, <1>3, <2>2
      DEF ProcessInv, HasLocals, HoldsLock, ReplacesNothing, InLockedRun, chainVars, Merges
    <2> QED BY <1>1, <2>1, <2>2, <2>3, StepOfOne DEF chainVars
  <1>4. CASE /\ IsStored(stored)
             /\ dep' = [dep EXCEPT ![p] = stored]
             /\ lock' = Nobody
             /\ pc' = [pc EXCEPT ![p] = "wait"]
             /\ UNCHANGED data
    <2>1. stored \in Deployment
      BY <1>1, <1>4 DEF IsStored
    <2>2. TypeOK'
      BY <1>1, <1>4, <2>1 DEF IInv, TypeOK, chainVars
    <2>3. pc'[p] = "wait" /\ dep'[p] = stored /\ LocalTo(p)
      BY <1>1, <1>4 DEF LocalTo, IInv, TypeOK
    <2>4. ProcessInv(p)'
      BY <1>1, <2>1, <2>3 DEF ProcessInv, HasLocals, HoldsLock, ReplacesNothing, InLockedRun
    <2> QED BY <1>1, <2>2, <2>3, <2>4, StepOfOne DEF chainVars
  <1>5. CASE /\ stored # None /\ devNetwork
             /\ data' = [data EXCEPT ![p] = [data[p] EXCEPT ![field] = None]]
             /\ pc' = [pc EXCEPT ![p] = "deploy"]
             /\ UNCHANGED <<lock, dep>>
    <2>1. [data[p] EXCEPT ![field] = None] \in Manifest
      BY <1>1 DEF Manifest
    <2>2. TypeOK'
      BY <1>1, <1>5, <2>1 DEF IInv, TypeOK, chainVars
    <2>3. /\ pc'[p] = "deploy" /\ LocalTo(p)
          /\ data'[p] = [data[p] EXCEPT ![field] = None]
      BY <1>1, <1>5 DEF LocalTo, IInv, TypeOK
    <2>4. \A f \in Fields \ {field} : data'[p][f] = data[p][f]
      BY <1>1, <2>3 DEF Manifest
    <2>5. HasLocals(p)' /\ ReplacesNothing(p)'
      BY <1>1, <1>5, <2>1, <2>3 DEF HasLocals, ReplacesNothing, InLockedRun, chainVars
    <2>6. HoldsLock(p)'
      BY <1>1, <1>2, <1>5, <2>3, <2>4 DEF ProcessInv, HoldsLock, InLockedRun
    <2> QED BY <1>1, <2>2, <2>3, <2>5, <2>6, StepOfOne DEF ProcessInv, chainVars
  <1>6. CASE /\ stored # None
             /\ dep' = [dep EXCEPT ![p] = stored]
             /\ lock' = Nobody
             /\ pc' = [pc EXCEPT ![p] = "invalid"]
             /\ UNCHANGED data
    <2>1. stored \in Deployment
      BY <1>1, <1>6
    <2>2. TypeOK'
      BY <1>1, <1>6, <2>1 DEF IInv, TypeOK, chainVars
    <2>3. pc'[p] = "invalid" /\ dep'[p] = stored /\ LocalTo(p)
      BY <1>1, <1>6 DEF LocalTo, IInv, TypeOK
    <2>4. ProcessInv(p)'
      BY <1>1, <2>1, <2>3 DEF ProcessInv, HasLocals, HoldsLock, ReplacesNothing, InLockedRun
    <2> QED BY <1>1, <2>2, <2>3, <2>4, StepOfOne DEF chainVars
  <1>7. data' = [data EXCEPT ![p][field] = None]
            => data' = [data EXCEPT ![p] = [data[p] EXCEPT ![field] = None]]
    BY DEF IInv, TypeOK
  <1> QED BY <1>3, <1>4, <1>5, <1>6, <1>7 DEF Validate, Release, Goto

LEMMA DeployKeepsIInv ==
    ASSUME NEW p \in Processes, IInv, Deploy(p)
    PROVE  IInv'
  <1> DEFINE n == Len(txs) + 1
  <1>1. /\ pc[p] = "deploy" /\ InLockedRun(p)
        /\ call[p] \in Calls /\ data[p] \in Manifest /\ lock = p
        /\ pc' = [pc EXCEPT ![p] = "record"]
        /\ UNCHANGED <<manifest, lock, devNetwork, epoch, foreign, call, data, orphans>>
    BY DEF Deploy, Goto, InLockedRun, IInv, ProcessInv, HasLocals, HoldsLock
  <1>2. ProcessInv(p)
    BY DEF IInv
  <1>3. PICK d \in Deployment : dep' = [dep EXCEPT ![p] = d] /\ txs' \in Seq(Transaction)
    <2>1. CASE call[p].import # None
      <3>1. [address |-> call[p].import, txHash |-> None, allAddresses |-> {}] \in Deployment
        BY <1>1, <2>1 DEF Calls, Deployment, Addresses
      <3> QED BY <2>1, <3>1 DEF Deploy, IInv, TypeOK
    <2>2. CASE call[p].import = None
      <3>1. n \in 1 .. MaxTransactions /\ epoch \in 0 .. MaxResets
        BY <2>2, StoreAssumption DEF Deploy, IInv, TypeOK
      <3>2. [address |-> n, txHash |-> Hash(n), allAddresses |-> {}] \in Deployment
        <4>1. /\ Hash(n) \in Hashes /\ Hash(n)[2] = n /\ Hash(n) # None
              /\ n \in Addresses
          BY <3>1, StoreAssumption DEF Hash, Hashes, Addresses
        <4> HIDE DEF n
        <4> QED BY <4>1 DEF Deployment
      <3>3. [field |-> call[p].field, status |-> "pending"] \in Transaction
        BY <1>1 DEF Calls, Transaction
      <3>4. txs' \in Seq(Transaction)
        <4>1. txs' = Append(txs, [field |-> call[p].field, status |-> "pending"])
          BY <2>2 DEF Deploy
        <4>2. txs \in Seq(Transaction)
          BY DEF IInv, TypeOK
        <4> QED BY <3>3, <4>1, <4>2
      <3> QED BY <2>2, <3>2, <3>4 DEF Deploy
    <2> QED BY <2>1, <2>2
  <1>4. TypeOK'
    BY <1>1, <1>3 DEF IInv, TypeOK
  <1>5. pc'[p] = "record" /\ dep'[p] \in Deployment /\ LocalTo(p)
    BY <1>1, <1>3 DEF LocalTo, IInv, TypeOK
  <1>6. ProcessInv(p)'
    BY <1>1, <1>2, <1>5
    DEF ProcessInv, HasLocals, HoldsLock, ReplacesNothing, InLockedRun, Merges
  <1> QED BY <1>1, <1>4, <1>5, <1>6, StepOfOne

LEMMA DeployFailsKeepsIInv ==
    ASSUME NEW p \in Processes, IInv, DeployFails(p)
    PROVE  IInv'
  <1>1. lock = p
    BY LockIsExclusive DEF DeployFails, InLockedRun
  <1> QED BY <1>1, StepThatEnds DEF DeployFails, Release, IInv, TypeOK

LEMMA RecordKeepsIInv ==
    ASSUME NEW p \in Processes, IInv, Record(p)
    PROVE  IInv'
  <1> DEFINE clashes == Clashes(data[p], call[p], dep[p])
  <1>1. /\ pc[p] = "record" /\ InLockedRun(p)
        /\ call[p] \in Calls /\ data[p] \in Manifest /\ dep[p] \in Deployment
        /\ lock = p /\ lock' = Nobody /\ UNCHANGED chainVars
    BY DEF Record, Release, InLockedRun, IInv, ProcessInv, HasLocals, HoldsLock
  <1>2. CASE clashes # {} /\ ~devNetwork
    BY <1>1, <1>2, StepThatEnds DEF Record, IInv, TypeOK
  <1>3. CASE ~(clashes # {} /\ ~devNetwork)
    <2>1. PICK d \in Cleared(data[p], clashes) : manifest' = Updated(d, call[p], dep[p])
      BY <1>3 DEF Record
    <2>2. manifest' \in Manifest
      BY <1>1, <2>1, UpdatedIsManifest
    <2>3. /\ pc' = [pc EXCEPT ![p] = "wait"]
          /\ data' = [data EXCEPT ![p] = None]
          /\ UNCHANGED <<call, dep, orphans>>
      BY <1>3 DEF Record, Goto
    <2>4. TypeOK'
      BY <1>1, <2>2, <2>3 DEF IInv, TypeOK, chainVars
    <2>5. pc'[p] = "wait" /\ dep'[p] = dep[p] /\ call'[p] = call[p] /\ LocalTo(p)
      BY <2>3 DEF LocalTo, IInv, TypeOK
    <2>6. ProcessInv(p)'
      BY <1>1, <2>5 DEF ProcessInv, HasLocals, HoldsLock, ReplacesNothing, InLockedRun
    <2> QED BY <1>1, <2>4, <2>5, <2>6, StepOfOne DEF chainVars
  <1> QED BY <1>2, <1>3

LEMMA SucceedKeepsIInv ==
    ASSUME NEW p \in Processes, IInv, Succeed(p)
    PROVE  IInv'
  BY StepThatEnds DEF Succeed, IInv, TypeOK

LEMMA TimeOutKeepsIInv ==
    ASSUME NEW p \in Processes, IInv, TimeOut(p)
    PROVE  IInv'
  BY StepThatEnds DEF TimeOut, IInv, TypeOK

LEMMA FindInvalidKeepsIInv ==
    ASSUME NEW p \in Processes, IInv, FindInvalid(p)
    PROVE  IInv'
  <1>1. TypeOK'
    BY DEF FindInvalid, Goto, IInv, TypeOK, chainVars
  <1>2. /\ pc[p] = "wait" /\ pc'[p] = "invalid" /\ LocalTo(p)
        /\ call' = call /\ dep' = dep
    BY DEF FindInvalid, Goto, LocalTo, IInv, TypeOK
  <1>3. HasLocals(p)
    BY DEF IInv, ProcessInv
  <1>4. ProcessInv(p)'
    BY <1>2, <1>3 DEF ProcessInv, HasLocals, HoldsLock, ReplacesNothing, InLockedRun
  <1> QED BY <1>1, <1>2, <1>4, StepOfOne DEF FindInvalid, chainVars

LEMMA RemoveKeepsIInv ==
    ASSUME NEW p \in Processes, IInv, Remove(p)
    PROVE  IInv'
  <1>1. lock = p /\ data[p] \in Manifest
    BY DEF Remove, InLockedRun, IInv, ProcessInv, HasLocals, HoldsLock
  <1>2. [data[p] EXCEPT ![call[p].field] = None] \in Manifest
    BY <1>1 DEF Manifest
  <1>3. manifest' \in Manifest \union {Damaged}
    BY <1>2 DEF Remove, IInv, TypeOK
  <1> QED BY <1>1, <1>3, StepThatEnds DEF Remove, Release

LEMMA CrashKeepsIInv ==
    ASSUME NEW p \in Processes, IInv, Crash(p)
    PROVE  IInv'
  <1>1. /\ Ends(p) /\ UNCHANGED chainVars
        /\ lock' = IF lock = p THEN Stale ELSE lock
        /\ \/ manifest' = manifest
           \/ pc[p] \in {"record", "remove"} /\ manifest' = Damaged
    BY DEF Crash
  <1>2. pc[p] \in {"record", "remove"} => lock = p
    BY LockIsExclusive DEF InLockedRun
  <1> QED BY <1>1, <1>2, StepThatEnds DEF IInv, TypeOK

\* Steps that no process takes leave the manifest and the local variables.
LEMMA EnvironmentKeepsIInv ==
    ASSUME IInv, TypeOK', UNCHANGED <<manifest, devNetwork, pc, call, data, dep>>,
           UNCHANGED lock \/ lock = Stale
    PROVE  IInv'
  <1> SUFFICES ASSUME NEW p \in Processes PROVE ProcessInv(p)'
    BY DEF IInv
  <1>1. ProcessInv(p) /\ (lock = p => lock' = p)
    BY StoreAssumption DEF IInv
  <1> QED BY <1>1
    DEF ProcessInv, HasLocals, HoldsLock, ReplacesNothing, InLockedRun, Merges

LEMMA LockExpiresKeepsIInv == IInv /\ LockExpires => IInv'
  <1> SUFFICES ASSUME IInv, LockExpires PROVE IInv'
    OBVIOUS
  <1>1. TypeOK'
    BY DEF LockExpires, IInv, TypeOK, chainVars
  <1> QED BY <1>1, EnvironmentKeepsIInv DEF LockExpires, chainVars

LEMMA SettleKeepsIInv ==
    ASSUME IInv, NEW n \in DOMAIN txs,
           NEW status \in {"mined", "codeless", "reverted", "dropped"}, Settle(n, status)
    PROVE  IInv'
  <1>1. txs \in Seq(Transaction) /\ txs[n] \in Transaction
    BY DEF IInv, TypeOK
  <1>2. [txs[n] EXCEPT !.status = status] \in Transaction
    BY <1>1 DEF Transaction
  <1>3. txs' = [txs EXCEPT ![n] = [txs[n] EXCEPT !.status = status]]
    BY <1>1 DEF Settle
  <1>4. txs' \in Seq(Transaction)
    BY <1>1, <1>2, <1>3
  <1>5. TypeOK'
    BY <1>4 DEF Settle, IInv, TypeOK
  <1> QED BY <1>5, EnvironmentKeepsIInv DEF Settle

LEMMA ResetKeepsIInv == IInv /\ Reset => IInv'
  <1> SUFFICES ASSUME IInv, Reset PROVE IInv'
    OBVIOUS
  <1>1. epoch' \in 0 .. MaxResets
    BY StoreAssumption DEF Reset, IInv, TypeOK
  <1>2. TypeOK'
    BY <1>1 DEF Reset, IInv, TypeOK
  <1> QED BY <1>2, EnvironmentKeepsIInv DEF Reset

LEMMA DeployForeignKeepsIInv ==
    ASSUME IInv, NEW address \in Foreign, DeployForeign(address)
    PROVE  IInv'
  <1>1. TypeOK'
    BY DEF DeployForeign, IInv, TypeOK
  <1> QED BY <1>1, EnvironmentKeepsIInv DEF DeployForeign

LEMMA NextKeepsIInv == IInv /\ [Next]_vars => IInv'
  <1> SUFFICES ASSUME IInv, [Next]_vars PROVE IInv'
    OBVIOUS
  <1>1. ASSUME NEW p \in Processes, Step(p) PROVE IInv'
    BY <1>1, AcquireKeepsIInv, GiveUpKeepsIInv, ValidateKeepsIInv, DeployKeepsIInv,
       DeployFailsKeepsIInv, RecordKeepsIInv, SucceedKeepsIInv, FindInvalidKeepsIInv,
       TimeOutKeepsIInv, RemoveKeepsIInv DEF Step
  <1>2. ASSUME NEW p \in Processes, Crash(p) PROVE IInv'
    BY <1>2, CrashKeepsIInv
  <1>3. ASSUME NEW p \in Processes, NEW c \in Calls, Begin(p, c) PROVE IInv'
    BY <1>3, BeginKeepsIInv
  <1>4. CASE LockExpires
    BY <1>4, LockExpiresKeepsIInv
  <1>5. CASE \E n \in DOMAIN txs :
                \E status \in {"mined", "codeless", "reverted", "dropped"} : Settle(n, status)
    BY <1>5, SettleKeepsIInv
  <1>6. CASE Reset
    BY <1>6, ResetKeepsIInv
  <1>7. CASE \E address \in Foreign : DeployForeign(address)
    BY <1>7, DeployForeignKeepsIInv
  <1>8. CASE UNCHANGED vars
    <2>1. TypeOK'
      BY <1>8 DEF vars, chainVars, IInv, TypeOK
    <2> QED BY <1>8, <2>1, EnvironmentKeepsIInv DEF vars, chainVars
  <1> QED BY <1>1, <1>2, <1>3, <1>4, <1>5, <1>6, <1>7, <1>8 DEF Next

----------------------------------------------------------------------------
(* The theorems. *)

\* The inductive invariant holds in every reachable state of the store.
THEOREM StoreInvariant == Spec => []IInv
  <1> QED BY InitIInv, NextKeepsIInv, PTL DEF Spec

\* The manifest, the chain and the variables of every process have the types
\* of manifest.ts and deployment.ts; in particular every entry has the address
\* that its transaction made, or is an import and has no transaction: merging
\* (mergeAddresses of impl-store.ts) never pairs them otherwise.
THEOREM StoreTypeCorrect == Spec => []TypeOK
  <1>1. IInv => TypeOK
    BY DEF IInv
  <1> QED BY <1>1, StoreInvariant, PTL

\* Inside lockedRun (manifest.ts) a process is alone and works on the current
\* manifest, whoever crashes, times out or gives up: what another process has
\* recorded is never overwritten with an older copy.
THEOREM CopiesStayCurrent == Spec => []CopiesAreCurrent
  <1>1. IInv => CopiesAreCurrent
    BY DEF IInv, ProcessInv, HoldsLock, CopiesAreCurrent
  <1> QED BY <1>1, StoreInvariant, PTL

\* On a live network only Record gives an entry new addresses, and it replaces
\* an entry only by one that has its addresses.
LEMMA RecordKeepsAddresses ==
    ASSUME NEW p \in Processes, IInv, Record(p), ~devNetwork,
           NEW f \in Fields, manifest[f] # None, manifest' # manifest
    PROVE  AddressesOf(manifest[f]) \subseteq AddressesOf(manifest'[f])
  <1>1. /\ pc[p] = "record" /\ InLockedRun(p)
        /\ call[p] \in Calls /\ call[p].field \in Fields
        /\ data[p] \in Manifest /\ dep[p] \in Deployment
        /\ data[p] = manifest
        /\ ~Merges(call[p]) => data[p][call[p].field] = None
    BY DEF Record, InLockedRun, IInv, ProcessInv, HasLocals, ReplacesNothing, Calls
  <1>2. Clashes(data[p], call[p], dep[p]) = {}
    BY DEF Record
  <1>3. manifest' = Updated(manifest, call[p], dep[p])
    BY <1>1, <1>2 DEF Record, Cleared
  <1>4. CASE f # call[p].field
    BY <1>1, <1>3, <1>4, UpdatedElsewhere
  <1>5. CASE f = call[p].field
    <2>1. Merges(call[p])
      BY <1>1, <1>5
    <2>2. manifest'[f] = MergeAddresses(manifest[f], dep[p])
      BY <1>1, <1>3, <1>5, <2>1 DEF Updated, Manifest
    <2>3. manifest[f] \in Deployment
      BY <1>1 DEF Manifest
    <2> QED BY <2>2, <2>3 DEF MergeAddresses, AddressesOf, Deployment
  <1> QED BY <1>4, <1>5

\* No step of any process takes an address away from an entry that stays, on
\* any live network: neither a merge (mergeAddresses of impl-store.ts) nor a
\* deployment or a removal that another process does in between.
THEOREM AddressesAreKept == Spec => MergeKeepsAddresses
  <1>1. ASSUME IInv, [Next]_vars, ~devNetwork,
               NEW f \in Fields, Damaged \notin {manifest, manifest'},
               None \notin {manifest[f], manifest'[f]}
        PROVE  AddressesOf(manifest[f]) \subseteq AddressesOf(manifest'[f])
    <2>1. CASE manifest' = manifest
      BY <2>1
    <2>2. ASSUME NEW p \in Processes, Record(p), manifest' # manifest
          PROVE  AddressesOf(manifest[f]) \subseteq AddressesOf(manifest'[f])
      BY <1>1, <2>2, RecordKeepsAddresses
    <2>3. ASSUME NEW p \in Processes, Remove(p), manifest' # manifest
          PROVE  manifest'[f] = manifest[f]
      <3>1. data[p] = manifest /\ data[p] \in Manifest
        BY <1>1, <2>3
        DEF Remove, InLockedRun, IInv, ProcessInv, HasLocals, ReplacesNothing
      <3>2. manifest' = [manifest EXCEPT ![call[p].field] = None]
        BY <2>3, <3>1 DEF Remove
      <3>3. f # call[p].field
        BY <1>1, <3>1, <3>2 DEF Manifest
      <3> QED BY <3>1, <3>2, <3>3 DEF Manifest
    <2>4. manifest' = manifest \/ \E p \in Processes : Record(p) \/ Remove(p)
      BY <1>1
      DEF Next, Step, Begin, Acquire, GiveUp, Validate, Deploy, DeployFails, Succeed,
          FindInvalid, TimeOut, Crash, LockExpires, Settle, DeployForeign, Reset, vars
    <2> QED BY <2>1, <2>2, <2>3, <2>4
  <1>2. IInv /\ [Next]_vars =>
            [~devNetwork => \A f \in Fields :
                (Damaged \notin {manifest, manifest'} /\ None \notin {manifest[f], manifest'[f]})
                    => AddressesOf(manifest[f]) \subseteq AddressesOf(manifest'[f])]_vars
    BY <1>1
  <1> QED BY <1>2, StoreInvariant, PTL DEF Spec, MergeKeepsAddresses

----------------------------------------------------------------------------
(* No two fields at one address: what each process finds and adds.         *)

\* An entry lists its own address, and those that were imported into it.
ListsImports(d) == d.allAddresses \subseteq {d.address} \union Foreign

\* The field of p is as in the file or was cleared, as it is before it is set,
\* and what is about to be recorded has one address.
FindsOne(p) ==
    InLockedRun(p) =>
        /\ data[p][call[p].field] \in {None, manifest[call[p].field]}
        /\ pc[p] \in {"deploy", "record"} /\ ~Merges(call[p])
               => data[p][call[p].field] = None
        /\ pc[p] = "record" =>
               /\ dep[p].allAddresses = {}
               /\ call[p].import # None => dep[p].address = call[p].import

AddressInv ==
    /\ AddressesAreUnique
    /\ manifest # Damaged =>
           \A f \in Fields : manifest[f] # None => ListsImports(manifest[f])
    /\ \A p \in Processes : FindsOne(p)

\* Another process keeps its part while it has the lock, or is not concerned.
LEMMA OthersFindOne ==
    ASSUME NEW p \in Processes, IInv, AddressInv, LocalTo(p),
           manifest' = manifest \/ lock \in {p, Nobody, Stale}
    PROVE  \A q \in Processes \ {p} : FindsOne(q)'
  <1> SUFFICES ASSUME NEW q \in Processes \ {p} PROVE FindsOne(q)'
    OBVIOUS
  <1>1. FindsOne(q)
    BY DEF AddressInv
  <1>2. InLockedRun(q) => lock = q
    BY LockIsExclusive
  <1>3. InLockedRun(q) => manifest' = manifest
    BY <1>2, StoreAssumption
  <1>4. pc'[q] = pc[q] /\ call'[q] = call[q] /\ data'[q] = data[q] /\ dep'[q] = dep[q]
    BY DEF LocalTo
  <1> QED BY <1>1, <1>3, <1>4 DEF FindsOne, InLockedRun, Merges

\* A step of p inside its call keeps the invariant when its part of it is kept.
LEMMA AddressStepOfOne ==
    ASSUME NEW p \in Processes, IInv, AddressInv, LocalTo(p), FindsOne(p)',
           manifest' = manifest, devNetwork' = devNetwork
    PROVE  AddressInv'
  <1>1. \A q \in Processes : FindsOne(q)'
    BY OthersFindOne
  <1> QED BY <1>1 DEF AddressInv, AddressesAreUnique, ListsImports

\* A step that ends a call, and takes entries away at most.
LEMMA AddressStepThatEnds ==
    ASSUME NEW p \in Processes, IInv, AddressInv, Ends(p), devNetwork' = devNetwork,
           manifest' = manifest \/ lock = p,
           manifest' # Damaged =>
               manifest # Damaged /\ \A f \in Fields : manifest'[f] \in {None, manifest[f]}
    PROVE  AddressInv'
  <1>1. LocalTo(p) /\ pc'[p] = "idle"
    BY DEF LocalTo, Ends, Goto, IInv, TypeOK
  <1>2. \A q \in Processes : FindsOne(q)'
    BY <1>1, OthersFindOne DEF FindsOne, InLockedRun
  <1>3. AddressesAreUnique'
    BY DEF AddressInv, AddressesAreUnique
  <1> QED BY <1>2, <1>3 DEF AddressInv, ListsImports

\* Every action keeps it, in the order of the code.
LEMMA BeginKeepsAddresses ==
    ASSUME NEW p \in Processes, NEW c \in Calls, IInv, AddressInv, Begin(p, c)
    PROVE  AddressInv'
  <1>1. LocalTo(p) /\ pc'[p] = "lock"
    BY DEF LocalTo, Begin, Goto, IInv, TypeOK
  <1> QED BY <1>1, AddressStepOfOne DEF Begin, chainVars, FindsOne, InLockedRun

LEMMA AcquireKeepsAddresses ==
    ASSUME NEW p \in Processes, IInv, AddressInv, Acquire(p)
    PROVE  AddressInv'
  <1>1. CASE manifest = Damaged
    BY <1>1, AddressStepThatEnds DEF Acquire, chainVars
  <1>2. CASE manifest # Damaged
    <2>1. /\ UNCHANGED <<manifest, chainVars, call, dep>>
          /\ data' = [data EXCEPT ![p] = manifest]
          /\ \/ pc' = [pc EXCEPT ![p] = "validate"]
             \/ pc' = [pc EXCEPT ![p] = "remove"]
      BY <1>2 DEF Acquire, Goto
    <2>2. LocalTo(p) /\ data'[p] = manifest /\ pc'[p] \in {"validate", "remove"}
      BY <2>1 DEF LocalTo, IInv, TypeOK
    <2>3. FindsOne(p)'
      BY <2>1, <2>2 DEF FindsOne
    <2> QED BY <2>1, <2>2, <2>3, AddressStepOfOne DEF chainVars
  <1> QED BY <1>1, <1>2

LEMMA ValidateKeepsAddresses ==
    ASSUME NEW p \in Processes, IInv, AddressInv, Validate(p)
    PROVE  AddressInv'
  <1> DEFINE field == call[p].field
             stored == data[p][field]
  <1>1. /\ pc[p] = "validate" /\ InLockedRun(p)
        /\ field \in Fields /\ data[p] \in Manifest
        /\ UNCHANGED <<manifest, chainVars, call>>
        /\ stored \in {None, manifest[field]}
    BY DEF Validate, InLockedRun, IInv, ProcessInv, HasLocals, Calls, AddressInv, FindsOne
  <1>2. \/ /\ stored = None \/ Merges(call[p])
           /\ pc' = [pc EXCEPT ![p] = "deploy"] /\ UNCHANGED <<data, dep>>
        \/ /\ pc' = [pc EXCEPT ![p] = "deploy"] /\ UNCHANGED dep
           /\ data' = [data EXCEPT ![p][field] = None]
        \/ /\ \/ pc' = [pc EXCEPT ![p] = "wait"] 
              \/ pc' = [pc EXCEPT ![p] = "invalid"]
           /\ dep' = [dep EXCEPT ![p] = stored] /\ UNCHANGED data
    BY DEF Validate, Goto
  <1>3. LocalTo(p)
    BY <1>1, <1>2 DEF LocalTo, IInv, TypeOK
  <1>4. FindsOne(p)'
    <2>1. CASE /\ stored = None \/ Merges(call[p])
               /\ pc' = [pc EXCEPT ![p] = "deploy"] /\ UNCHANGED <<data, dep>>
      <3>1. pc'[p] = "deploy"
        BY <2>1 DEF IInv, TypeOK
      <3> QED BY <1>1, <2>1, <3>1 DEF FindsOne, Merges
    <2>2. CASE /\ pc' = [pc EXCEPT ![p] = "deploy"] /\ UNCHANGED dep
               /\ data' = [data EXCEPT ![p][field] = None]
      <3>1. pc'[p] = "deploy" /\ data'[p][field] = None
        BY <1>1, <2>2 DEF IInv, TypeOK, Manifest
      <3> QED BY <1>1, <3>1 DEF FindsOne, Merges
    <2>3. CASE \/ pc' = [pc EXCEPT ![p] = "wait"]
               \/ pc' = [pc EXCEPT ![p] = "invalid"]
      BY <2>3 DEF FindsOne, InLockedRun, IInv, TypeOK
    <2> QED BY <1>2, <2>1, <2>2, <2>3
  <1> QED BY <1>1, <1>3, <1>4, AddressStepOfOne DEF chainVars

LEMMA DeployKeepsAddresses ==
    ASSUME NEW p \in Processes, IInv, AddressInv, Deploy(p)
    PROVE  AddressInv'
  <1>1. /\ pc[p] = "deploy" /\ InLockedRun(p) /\ FindsOne(p)
        /\ pc' = [pc EXCEPT ![p] = "record"]
        /\ UNCHANGED <<manifest, devNetwork, call, data>>
    BY DEF Deploy, Goto, InLockedRun, AddressInv
  <1>2. PICK address, hash :
            /\ dep' = [dep EXCEPT ![p] = [address |-> address, txHash |-> hash,
                                          allAddresses |-> {}]]
            /\ call[p].import # None => address = call[p].import
    BY DEF Deploy
  <1>3. /\ LocalTo(p) /\ pc'[p] = "record"
        /\ dep'[p].allAddresses = {} /\ dep'[p].address = address
    BY <1>1, <1>2 DEF LocalTo, IInv, TypeOK
  <1>4. FindsOne(p)'
    BY <1>1, <1>2, <1>3 DEF FindsOne, Merges
  <1> QED BY <1>1, <1>3, <1>4, AddressStepOfOne

\* Looking for a clash takes one of the fields at the address away, if any.
LEMMA ClearedIsSmaller ==
    ASSUME NEW d \in Manifest, NEW clashes \in SUBSET Fields, NEW e \in Cleared(d, clashes)
    PROVE  /\ e \in Manifest
           /\ \A f \in Fields : e[f] \in {None, d[f]} /\ (f \notin clashes => e[f] = d[f])
           /\ clashes # {} => \E f \in clashes : e[f] = None
  <1>1. CASE clashes = {}
    BY <1>1 DEF Cleared
  <1>2. CASE clashes # {}
    <2>1. PICK f \in clashes : e = [d EXCEPT ![f] = None]
      BY <1>2 DEF Cleared
    <2> QED BY <2>1 DEF Manifest
  <1> QED BY <1>1, <1>2

\* Writing the file: what is recorded has an address that no other field has.
LEMMA RecordKeepsUnique ==
    ASSUME NEW p \in Processes, IInv, AddressInv, Record(p)
    PROVE  AddressInv'
  <1> DEFINE c == call[p]
             new == dep[p]
             clashes == Clashes(data[p], c, new)
  <1>1. /\ pc[p] = "record" /\ InLockedRun(p) /\ lock = p /\ manifest # Damaged
        /\ c \in Calls /\ c.field \in Fields
        /\ data[p] \in Manifest /\ manifest \in Manifest /\ new \in Deployment
        /\ \A f \in Fields : data[p][f] \in {None, manifest[f]}
        /\ ~Merges(c) => data[p][c.field] = None
        /\ new.allAddresses = {} /\ (c.import # None => new.address = c.import)
        /\ UNCHANGED <<devNetwork, txs, epoch>>
    <2>1. HasLocals(p) /\ HoldsLock(p) /\ FindsOne(p) /\ TypeOK
      BY DEF IInv, ProcessInv, AddressInv
    <2>2. pc[p] = "record" /\ InLockedRun(p) /\ UNCHANGED <<devNetwork, txs, epoch>>
      BY DEF Record, InLockedRun, chainVars
    <2> QED BY <2>1, <2>2 DEF HasLocals, HoldsLock, FindsOne, TypeOK, Calls
  <1>2. clashes \in SUBSET Fields
    BY DEF Clashes, LookupDeployment
  <1>3. CASE clashes # {} /\ ~devNetwork
    BY <1>1, <1>3, AddressStepThatEnds DEF Record
  <1>4. CASE ~(clashes # {} /\ ~devNetwork)
    <2> DEFINE field == c.field
    <2>1. PICK d \in Cleared(data[p], clashes) : manifest' = Updated(d, c, new)
      BY <1>4 DEF Record
    <2>2. /\ pc' = [pc EXCEPT ![p] = "wait"] /\ data' = [data EXCEPT ![p] = None]
          /\ UNCHANGED <<call, dep>>
      BY <1>4 DEF Record, Goto
    <2> HIDE DEF clashes, c, new
    <2>3. /\ d \in Manifest
          /\ \A f \in Fields : d[f] \in {None, data[p][f]}
          /\ clashes # {} => \E f \in clashes : d[f] = None
      BY <1>1, <1>2, <2>1, ClearedIsSmaller
    <2>4. \A f \in Fields : d[f] \in {None, manifest[f]}
      BY <1>1, <2>3
    <2>5. /\ \A f \in Fields \ {field} : manifest'[f] = d[f]
          /\ \/ manifest'[field] = new /\ (Merges(c) => d[field] = None)
             \/ /\ Merges(c) /\ d[field] # None
                /\ manifest'[field] = MergeAddresses(d[field], new)
      BY <1>1, <2>1, <2>3 DEF Updated, MergeAddresses, Manifest
    <2>6. Merges(c) => new.address \in Foreign
      BY <1>1 DEF Merges, Calls
    <2>7. ASSUME Merges(c), d[field] # None
          PROVE  /\ MergeAddresses(d[field], new).address = manifest[field].address
                 /\ ListsImports(MergeAddresses(d[field], new))
                 /\ manifest[field] # None
      <3>1. d[field] = manifest[field] /\ d[field] \in Deployment
        BY <1>1, <2>3, <2>4, <2>7 DEF Manifest
      <3>2. ListsImports(d[field])
        BY <1>1, <2>7, <3>1 DEF AddressInv
      <3> QED BY <1>1, <2>6, <2>7, <3>1, <3>2
          DEF MergeAddresses, AddressesOf, ListsImports, Deployment
    <2>8. ASSUME NEW f \in Fields, manifest'[f] # None
          PROVE  ListsImports(manifest'[f])
      <3>1. CASE f # field
        BY <1>1, <2>4, <2>5, <2>8, <3>1 DEF AddressInv
      <3>2. CASE f = field
        BY <1>1, <2>5, <2>7, <3>2 DEF ListsImports
      <3> QED BY <3>1, <3>2
    <2>9. ASSUME NEW g \in Fields \ {field}, manifest'[g] # None,
                 manifest'[field] = new, Merges(c) => d[field] = None,
                 manifest'[g].address = new.address
          PROVE  devNetwork /\ new.address \in Foreign
      <3>1. d[g] # None /\ d[g] = data[p][g] /\ d[g] = manifest[g] /\ manifest'[g] = d[g]
        BY <2>3, <2>4, <2>5, <2>9
      <3>2. g \in clashes
        BY <2>9, <3>1 DEF clashes, Clashes, LookupDeployment, new
      <3>3. PICK k \in clashes : d[k] = None
        BY <2>3, <3>2
      <3>4. SUFFICES ASSUME new.address \notin Foreign PROVE FALSE
        BY <1>4, <3>2
      <3>5. data[p][field] = None
        BY <1>1, <2>6, <3>4
      <3>6. /\ k \in Fields /\ data[p][k] # None
            /\ data[p][k].address = new.address \/ new.address \in data[p][k].allAddresses
        BY <1>2, <3>3 DEF clashes, Clashes, LookupDeployment, new
      <3>7. k # g /\ data[p][k] = manifest[k] /\ manifest[k] # None
        BY <1>1, <3>1, <3>3, <3>6
      <3>8. manifest[k].address = new.address
        BY <1>1, <3>4, <3>6, <3>7 DEF AddressInv, ListsImports
      <3>9. manifest[g].address = new.address
        BY <2>9, <3>1
      <3> QED BY <1>1, <3>1, <3>4, <3>6, <3>7, <3>8, <3>9 DEF AddressInv, AddressesAreUnique
    <2>10. ASSUME NEW g \in Fields \ {field}, manifest'[g] # None, manifest'[field] # None
           PROVE  \/ manifest'[field].address # manifest'[g].address
                  \/ devNetwork /\ manifest'[g].address \in Foreign
      <3>1. CASE manifest'[field] = new /\ (Merges(c) => d[field] = None)
        BY <2>9, <2>10, <3>1
      <3>2. CASE Merges(c) /\ d[field] # None
                     /\ manifest'[field] = MergeAddresses(d[field], new)
        <4>1. manifest'[field].address = manifest[field].address /\ manifest[field] # None
          BY <2>7, <3>2
        <4>2. manifest'[g] = manifest[g]
          BY <2>4, <2>5, <2>10
        <4> QED BY <1>1, <2>10, <4>1, <4>2 DEF AddressInv, AddressesAreUnique
      <3> QED BY <2>5, <3>1, <3>2
    <2>11. AddressesAreUnique'
      <3> SUFFICES ASSUME NEW f \in Fields, NEW g \in Fields, f # g,
                          manifest'[f] # None, manifest'[g] # None,
                          manifest'[f].address = manifest'[g].address
                   PROVE  devNetwork /\ manifest'[f].address \in Foreign
        BY <1>1 DEF AddressesAreUnique
      <3>1. CASE f # field /\ g # field
        <4>1. manifest'[f] = manifest[f] /\ manifest'[g] = manifest[g]
          BY <2>4, <2>5, <3>1
        <4> QED BY <1>1, <4>1 DEF AddressInv, AddressesAreUnique
      <3>2. CASE f = field
        BY <2>10, <3>2
      <3>3. CASE g = field
        BY <2>10, <3>3
      <3> QED BY <3>1, <3>2, <3>3
    <2>12. LocalTo(p) /\ pc'[p] = "wait"
      BY <2>2 DEF LocalTo, IInv, TypeOK
    <2>13. \A q \in Processes : FindsOne(q)'
      BY <1>1, <2>12, OthersFindOne DEF FindsOne, InLockedRun
    <2> QED BY <2>8, <2>11, <2>13 DEF AddressInv
  <1> QED BY <1>3, <1>4

LEMMA RemoveKeepsUnique ==
    ASSUME NEW p \in Processes, IInv, AddressInv, Remove(p)
    PROVE  AddressInv'
  <1>1. /\ Ends(p) /\ devNetwork' = devNetwork /\ lock = p /\ manifest # Damaged
        /\ data[p] \in Manifest
        /\ \A f \in Fields : data[p][f] \in {None, manifest[f]}
        /\ \/ manifest' = manifest
           \/ manifest' = [data[p] EXCEPT ![call[p].field] = None]
    BY DEF Remove, chainVars, InLockedRun, IInv, ProcessInv, HasLocals, HoldsLock,
           AddressInv, FindsOne
  <1>2. \A f \in Fields : manifest'[f] \in {None, manifest[f]}
    BY <1>1 DEF Manifest
  <1> QED BY <1>1, <1>2, AddressStepThatEnds

LEMMA CrashKeepsUnique ==
    ASSUME NEW p \in Processes, IInv, AddressInv, Crash(p)
    PROVE  AddressInv'
  <1>1. /\ Ends(p) /\ devNetwork' = devNetwork
        /\ \/ manifest' = manifest
           \/ manifest' = Damaged /\ InLockedRun(p)
    BY DEF Crash, chainVars, InLockedRun
  <1> QED BY <1>1, LockIsExclusive, AddressStepThatEnds

LEMMA NextKeepsUnique == IInv /\ AddressInv /\ [Next]_vars => AddressInv'
  <1> SUFFICES ASSUME IInv, AddressInv, [Next]_vars PROVE AddressInv'
    OBVIOUS
  <1>1. ASSUME NEW p \in Processes,
               GiveUp(p) \/ DeployFails(p) \/ Succeed(p) \/ TimeOut(p)
        PROVE  AddressInv'
    BY <1>1, AddressStepThatEnds DEF GiveUp, DeployFails, Succeed, TimeOut, chainVars
  <1>2. ASSUME NEW p \in Processes, FindInvalid(p) PROVE AddressInv'
    <2>1. LocalTo(p) /\ pc'[p] = "invalid"
      BY <1>2 DEF LocalTo, FindInvalid, Goto, IInv, TypeOK
    <2> QED BY <1>2, <2>1, AddressStepOfOne
        DEF FindInvalid, chainVars, FindsOne, InLockedRun
  <1>3. ASSUME NEW p \in Processes, Step(p) PROVE AddressInv'
    BY <1>1, <1>2, <1>3, AcquireKeepsAddresses, ValidateKeepsAddresses, DeployKeepsAddresses,
       RecordKeepsUnique, RemoveKeepsUnique DEF Step
  <1>4. ASSUME NEW p \in Processes, Crash(p) PROVE AddressInv'
    BY <1>4, CrashKeepsUnique
  <1>5. ASSUME NEW p \in Processes, NEW c \in Calls, Begin(p, c) PROVE AddressInv'
    BY <1>5, BeginKeepsAddresses
  <1>6. CASE UNCHANGED <<manifest, devNetwork, pc, call, data, dep>>
    BY <1>6 DEF AddressInv, AddressesAreUnique, ListsImports, FindsOne, InLockedRun, Merges
  <1> QED BY <1>3, <1>4, <1>5, <1>6
      DEF Next, LockExpires, Settle, DeployForeign, Reset, vars, chainVars

\* No two fields of a manifest get the same address, on any network: on a live
\* one a clash is refused, on a development network, however often it starts
\* again and hands out addresses anew, the older entry gives way unless the
\* address was imported (checkForAddressClash of impl-store.ts).
THEOREM AddressesStayUnique == Spec => []AddressesAreUnique
  <1>1. Init => IInv /\ AddressInv
    <2>1. Init => AddressInv
      BY DEF Init, NoManifest, AddressInv, AddressesAreUnique, FindsOne, InLockedRun
    <2> QED BY <2>1, InitIInv
  <1>2. IInv /\ AddressInv /\ [Next]_vars => (IInv /\ AddressInv)'
    BY NextKeepsIInv, NextKeepsUnique
  <1>3. AddressInv => AddressesAreUnique
    BY DEF AddressInv
  <1> QED BY <1>1, <1>2, <1>3, PTL DEF Spec

----------------------------------------------------------------------------
(* Removals: what a process takes for invalid has failed and stays so.     *)

\* The node issued the hash, on this chain or before a reset.
Issued(hash) ==
    /\ hash \in Nat \X Nat
    /\ hash[1] < epoch \/ (hash[1] = epoch /\ hash[2] \in DOMAIN txs)

\* A deployment is the contract of its transaction, or was imported.
IsSound(d) ==
    IF d.txHash = None THEN d.address \in Foreign
    ELSE d.address = d.txHash[2] /\ Issued(d.txHash)

\* Its transaction, if it has one, is not and will not be a contract.
HasFailed(d) == d.txHash # None => StatusOf(d.txHash) \notin {"pending", "mined"}

SoundEntries ==
    manifest # Damaged => \A f \in Fields : manifest[f] # None => IsSound(manifest[f])

SoundInHand(p) ==
    /\ pc[p] \in {"record", "wait", "invalid", "remove"} => IsSound(dep[p])
    /\ pc[p] \in {"invalid", "remove"} => HasFailed(dep[p])

SoundInv == SoundEntries /\ \A p \in Processes : SoundInHand(p)

\* The chain goes on, or starts again as another one.
ChainMoves ==
    \/ /\ epoch' = epoch /\ DOMAIN txs \subseteq DOMAIN txs'
       /\ \A n \in DOMAIN txs :
              txs[n].status \notin {"pending", "mined"} => txs'[n].status = txs[n].status
    \/ epoch' = epoch + 1

\* A transaction that has failed does not come back.
LEMMA SoundStays ==
    ASSUME IInv, ChainMoves
    PROVE  /\ \A d : IsSound(d) => IsSound(d)'
           /\ \A d : IsSound(d) /\ HasFailed(d) => HasFailed(d)'
  <1>1. epoch \in Nat
    BY StoreAssumption DEF IInv, TypeOK
  <1>2. ASSUME NEW hash, Issued(hash) PROVE Issued(hash)'
    BY <1>1, <1>2 DEF Issued, ChainMoves
  <1>3. ASSUME NEW hash, Issued(hash), StatusOf(hash) \notin {"pending", "mined"}
        PROVE  (StatusOf(hash) \notin {"pending", "mined"})'
    BY <1>1, <1>3 DEF Issued, StatusOf, Known, ChainMoves
  <1> QED BY <1>2, <1>3 DEF IsSound, HasFailed

\* A step of p keeps the invariant when the file and its own part keep theirs.
LEMMA SoundStepOfOne ==
    ASSUME NEW p \in Processes, IInv, SoundInv, LocalTo(p), ChainMoves,
           SoundEntries', SoundInHand(p)'
    PROVE  SoundInv'
  <1>1. ASSUME NEW q \in Processes \ {p} PROVE SoundInHand(q)'
    <2>1. SoundInHand(q) /\ pc'[q] = pc[q] /\ dep'[q] = dep[q]
      BY DEF LocalTo, SoundInv
    <2> QED BY <2>1, SoundStays DEF SoundInHand
  <1> QED BY <1>1 DEF SoundInv

\* A step of p that sends nothing and adds nothing to the file.
LEMMA SoundStepWithoutEntry ==
    ASSUME NEW p \in Processes, IInv, SoundInv, LocalTo(p), UNCHANGED chainVars,
           manifest' # Damaged =>
               manifest # Damaged /\ \A f \in Fields : manifest'[f] \in {None, manifest[f]},
           SoundInHand(p)'
    PROVE  SoundInv'
  <1>1. ChainMoves
    BY DEF ChainMoves, chainVars
  <1>2. SoundEntries'
    BY <1>1, SoundStays DEF SoundInv, SoundEntries
  <1> QED BY <1>1, <1>2, SoundStepOfOne

\* A step of p that ends its call leaves it nothing to keep.
LEMMA SoundStepThatEnds ==
    ASSUME NEW p \in Processes, IInv, SoundInv, Ends(p), UNCHANGED chainVars,
           manifest' # Damaged =>
               manifest # Damaged /\ \A f \in Fields : manifest'[f] \in {None, manifest[f]}
    PROVE  SoundInv'
  <1>1. LocalTo(p) /\ pc'[p] = "idle"
    BY DEF Ends, Goto, LocalTo, IInv, TypeOK
  <1>2. SoundInHand(p)'
    BY <1>1 DEF SoundInHand
  <1> QED BY <1>1, <1>2, SoundStepWithoutEntry

\* A process inside lockedRun reads entries of the file, or cleared ones.
LEMMA EntriesOfCopy ==
    ASSUME NEW p \in Processes, IInv, AddressInv, InLockedRun(p)
    PROVE  /\ lock = p /\ manifest # Damaged
           /\ manifest \in Manifest /\ data[p] \in Manifest
           /\ call[p] \in Calls /\ call[p].field \in Fields
           /\ \A f \in Fields : data[p][f] \in {None, manifest[f]}
           /\ \A f \in Fields \ {call[p].field} : data[p][f] = manifest[f]
  <1>1. HasLocals(p) /\ HoldsLock(p) /\ FindsOne(p) /\ TypeOK
    BY DEF IInv, ProcessInv, AddressInv
  <1>2. call[p] \in Calls /\ call[p].field \in Fields
    BY <1>1 DEF HasLocals, InLockedRun, Calls
  <1> QED BY <1>1, <1>2 DEF HasLocals, HoldsLock, FindsOne, TypeOK

\* What p reads under the lock is what the file has.
LEMMA AcquireIsSound ==
    ASSUME NEW p \in Processes, IInv, AddressInv, SoundInv, Acquire(p)
    PROVE  SoundInv'
  <1>1. CASE manifest = Damaged
    BY <1>1, SoundStepThatEnds DEF Acquire
  <1>2. CASE manifest # Damaged
    <2>1. /\ LocalTo(p) /\ UNCHANGED <<dep, manifest, chainVars>>
          /\ \/ pc[p] = "lock" /\ pc'[p] = "validate"
             \/ pc[p] = "invalid" /\ pc'[p] = "remove"
      BY <1>2 DEF Acquire, Goto, LocalTo, IInv, TypeOK
    <2>2. SoundInHand(p)
      BY DEF SoundInv
    <2>3. SoundInHand(p)'
      BY <2>1, <2>2
      DEF SoundInHand, IsSound, HasFailed, Issued, StatusOf, Known, chainVars
    <2> QED BY <1>2, <2>1, <2>3, SoundStepWithoutEntry
  <1> QED BY <1>1, <1>2

LEMMA ValidateIsSound ==
    ASSUME NEW p \in Processes, IInv, AddressInv, SoundInv, Validate(p)
    PROVE  SoundInv'
  <1> DEFINE stored == data[p][call[p].field]
  <1>1. /\ InLockedRun(p) /\ LocalTo(p)
        /\ UNCHANGED <<manifest, chainVars>>
    BY DEF Validate, InLockedRun, LocalTo, Goto, chainVars, IInv, TypeOK
  <1>2. /\ manifest # Damaged
        /\ stored # None => IsSound(stored)
    BY <1>1, EntriesOfCopy DEF SoundInv, SoundEntries
  <1>3. \/ pc'[p] = "deploy"
        \/ pc'[p] = "wait" /\ dep'[p] = stored /\ stored # None
        \/ pc'[p] = "invalid" /\ dep'[p] = stored /\ stored # None /\ ~IsStored(stored)
    BY DEF Validate, Goto, IsStored, IInv, TypeOK
  <1> HIDE DEF stored
  <1>4. stored # None /\ ~IsStored(stored) => HasFailed(stored)
    BY <1>2 DEF IsStored, IsFound, HasFailed
  <1>5. SoundInHand(p)'
    BY <1>1, <1>2, <1>3, <1>4
    DEF SoundInHand, IsSound, HasFailed, Issued, StatusOf, Known, chainVars
  <1> QED BY <1>1, <1>2, <1>5, SoundStepWithoutEntry

\* The transaction of a deployment that is found invalid is not a contract.
LEMMA FindInvalidIsSound ==
    ASSUME NEW p \in Processes, IInv, SoundInv, FindInvalid(p)
    PROVE  SoundInv'
  <1>1. /\ pc[p] = "wait" /\ pc'[p] = "invalid" /\ LocalTo(p)
        /\ UNCHANGED <<manifest, chainVars, dep>>
    BY DEF FindInvalid, Goto, LocalTo, IInv, TypeOK
  <1>2. IsSound(dep[p])
    BY <1>1 DEF SoundInv, SoundInHand
  <1>3. ASSUME dep[p].txHash # None
        PROVE  StatusOf(dep[p].txHash) \notin {"pending", "mined"}
    <2>1. StatusOf(dep[p].txHash) # "pending"
      BY <1>3 DEF FindInvalid, IsConfirmed, IsReceiptSuccessful, HasReceipt
    <2>2. StatusOf(dep[p].txHash) # "mined"
      <3>1. ASSUME StatusOf(dep[p].txHash) = "mined" PROVE HasCode(dep[p].address)
        BY <1>2, <1>3, <3>1 DEF IsSound, StatusOf, Known, HasCode
      <3> QED BY <1>3, <3>1 DEF FindInvalid, IsConfirmed, IsReceiptSuccessful
    <2> QED BY <2>1, <2>2
  <1>4. HasFailed(dep[p])
    BY <1>3 DEF HasFailed
  <1>5. SoundInHand(p)'
    BY <1>1, <1>2, <1>4
    DEF SoundInHand, IsSound, HasFailed, Issued, StatusOf, Known, chainVars
  <1> QED BY <1>1, <1>5, SoundStepWithoutEntry DEF SoundInv, SoundEntries

\* What the callback returns is sound.
LEMMA DeployIsSound ==
    ASSUME NEW p \in Processes, IInv, SoundInv, Deploy(p)
    PROVE  SoundInv'
  <1>1. /\ pc[p] = "deploy" /\ pc'[p] = "record" /\ LocalTo(p)
        /\ UNCHANGED <<manifest, devNetwork, epoch>> /\ call[p] \in Calls
        /\ txs \in Seq(Transaction) /\ epoch \in Nat
    BY StoreAssumption DEF Deploy, Goto, LocalTo, IInv, TypeOK, ProcessInv, HasLocals
  <1>2. ChainMoves /\ IsSound(dep[p])'
    <2>1. CASE call[p].import # None
      <3>1. txs' = txs /\ dep'[p].txHash = None /\ dep'[p].address = call[p].import
        BY <2>1 DEF Deploy, IInv, TypeOK
      <3>2. call[p].import \in Foreign
        BY <1>1, <2>1 DEF Calls
      <3> QED BY <1>1, <3>1, <3>2 DEF ChainMoves, IsSound
    <2>2. CASE call[p].import = None
      <3>1. PICK n : n = Len(txs) + 1
        OBVIOUS
      <3>2. PICK tx : txs' = Append(txs, tx)
        BY <2>2 DEF Deploy
      <3>3. dep'[p].address = n /\ dep'[p].txHash = <<epoch, n>>
        BY <2>2, <3>1 DEF Deploy, Hash, IInv, TypeOK
      <3>4. n \in Nat /\ n \in DOMAIN txs' /\ DOMAIN txs \subseteq DOMAIN txs'
            /\ \A m \in DOMAIN txs : txs'[m] = txs[m]
        BY <1>1, <3>1, <3>2
      <3>5. <<epoch, n>> \in Nat \X Nat /\ <<epoch, n>>[1] = epoch /\ <<epoch, n>>[2] = n
        BY <1>1, <3>4
      <3>6. <<epoch, n>> # None
        BY <3>5, StoreAssumption
      <3> QED BY <1>1, <3>3, <3>4, <3>5, <3>6 DEF ChainMoves, IsSound, Issued
    <2> QED BY <2>1, <2>2
  <1>3. SoundEntries'
    BY <1>1, <1>2, SoundStays DEF SoundInv, SoundEntries
  <1>4. SoundInHand(p)'
    BY <1>1, <1>2 DEF SoundInHand
  <1> QED BY <1>1, <1>2, <1>3, <1>4, SoundStepOfOne

LEMMA RecordIsSound ==
    ASSUME NEW p \in Processes, IInv, AddressInv, SoundInv, Record(p)
    PROVE  SoundInv'
  <1> DEFINE c == call[p]
             clashes == Clashes(data[p], c, dep[p])
  <1>1. pc[p] = "record" /\ InLockedRun(p) /\ UNCHANGED <<devNetwork, txs, epoch>>
    BY DEF Record, InLockedRun, chainVars
  <1>2. CASE clashes # {} /\ ~devNetwork
    BY <1>1, <1>2, EntriesOfCopy, SoundStepThatEnds DEF Record
  <1>3. CASE ~(clashes # {} /\ ~devNetwork)
    <2>1. PICK d \in Cleared(data[p], clashes) : manifest' = Updated(d, c, dep[p])
      BY <1>3 DEF Record
    <2>2. clashes \in SUBSET Fields
      BY DEF Clashes, LookupDeployment
    <2> HIDE DEF clashes
    <2>3. d \in Manifest /\ \A f \in Fields : d[f] \in {None, manifest[f]}
      BY <1>1, <2>1, <2>2, ClearedIsSmaller, EntriesOfCopy
    <2>4. IsSound(dep[p])
      BY <1>1 DEF SoundInv, SoundInHand
    <2>5. ASSUME NEW f \in Fields, manifest'[f] # None PROVE IsSound(manifest'[f])
      <3>1. CASE f # c.field
        <4>1. manifest'[f] = d[f]
          BY <1>1, <2>1, <2>3, <3>1, UpdatedElsewhere, EntriesOfCopy
        <4> QED BY <1>1, <2>3, <2>5, <4>1, EntriesOfCopy DEF SoundInv, SoundEntries
      <3>2. CASE f = c.field
        <4>1. manifest'[f] = IF Merges(c) THEN MergeAddresses(d[f], dep[p]) ELSE dep[p]
          BY <1>1, <2>1, <2>3, <3>2 DEF Updated, Manifest
        <4>2. d[f] # None => IsSound(d[f]) /\ d[f] \in Deployment
          BY <1>1, <2>3, EntriesOfCopy DEF SoundInv, SoundEntries, Manifest
        <4>3. d[f] # None => /\ MergeAddresses(d[f], dep[p]).txHash = d[f].txHash
                             /\ MergeAddresses(d[f], dep[p]).address = d[f].address
          BY <4>2 DEF MergeAddresses, AddressesOf, Deployment
        <4>4. d[f] = None => MergeAddresses(d[f], dep[p]) = dep[p]
          BY DEF MergeAddresses
        <4> QED BY <2>4, <4>1, <4>2, <4>3, <4>4 DEF IsSound
      <3> QED BY <3>1, <3>2
    <2>6. SoundEntries'
      BY <1>1, <2>5 DEF SoundEntries, IsSound, Issued
    <2>7. LocalTo(p) /\ pc'[p] = "wait" /\ dep' = dep
      BY <1>3 DEF clashes, Record, Goto, LocalTo, IInv, TypeOK
    <2>8. SoundInHand(p)'
      BY <1>1, <2>4, <2>7 DEF SoundInHand, IsSound, Issued
    <2>9. ChainMoves
      BY <1>1 DEF ChainMoves
    <2> QED BY <2>6, <2>7, <2>8, <2>9, SoundStepOfOne
  <1> QED BY <1>2, <1>3

\* The removal of an entry takes nothing else out of the file.
LEMMA RemoveIsSound ==
    ASSUME NEW p \in Processes, IInv, AddressInv, SoundInv, Remove(p)
    PROVE  SoundInv'
  <1>1. InLockedRun(p) /\ Ends(p) /\ UNCHANGED chainVars
    BY DEF Remove, InLockedRun
  <1>2. \/ manifest' = manifest
        \/ manifest' = [data[p] EXCEPT ![call[p].field] = None]
    BY DEF Remove
  <1>3. manifest # Damaged /\ \A f \in Fields : manifest'[f] \in {None, manifest[f]}
    BY <1>1, <1>2, EntriesOfCopy DEF Manifest
  <1> QED BY <1>1, <1>3, SoundStepThatEnds

LEMMA NextKeepsSound ==
    ASSUME IInv, AddressInv, SoundInv, [Next]_vars
    PROVE  SoundInv'
  <1>1. ASSUME NEW p \in Processes,
               \/ GiveUp(p) \/ DeployFails(p) \/ Succeed(p) \/ TimeOut(p) \/ Crash(p)
        PROVE  SoundInv'
    <2>1. Ends(p) /\ UNCHANGED chainVars /\ manifest' \in {manifest, Damaged}
      BY <1>1 DEF GiveUp, DeployFails, Succeed, TimeOut, Crash
    <2> QED BY <2>1, SoundStepThatEnds
  <1>2. ASSUME NEW p \in Processes, NEW c \in Calls, Begin(p, c) PROVE SoundInv'
    <2>1. LocalTo(p) /\ pc'[p] = "lock" /\ UNCHANGED <<manifest, chainVars>>
      BY <1>2 DEF Begin, Goto, LocalTo, IInv, TypeOK
    <2> QED BY <2>1, SoundStepWithoutEntry DEF SoundInHand, SoundInv, SoundEntries
  <1>3. ASSUME NEW p \in Processes, Step(p) PROVE SoundInv'
    BY <1>1, <1>3, AcquireIsSound, ValidateIsSound, DeployIsSound, FindInvalidIsSound,
       RecordIsSound, RemoveIsSound DEF Step
  <1>4. ASSUME ChainMoves, UNCHANGED <<manifest, pc, dep>> PROVE SoundInv'
    <2>1. SoundEntries'
      BY <1>4, SoundStays DEF SoundInv, SoundEntries
    <2>2. ASSUME NEW p \in Processes PROVE SoundInHand(p)'
      BY <1>4, SoundStays DEF SoundInv, SoundInHand
    <2> QED BY <2>1, <2>2 DEF SoundInv
  <1>5. ASSUME NEW n \in DOMAIN txs, NEW status, Settle(n, status) PROVE ChainMoves
    <2>1. txs \in Seq(Transaction) /\ txs[n].status = "pending"
          /\ txs' = [txs EXCEPT ![n].status = status] /\ epoch' = epoch
      BY <1>5 DEF Settle, IInv, TypeOK
    <2> QED BY <2>1 DEF ChainMoves
  <1>6. Reset => ChainMoves
    BY DEF Reset, ChainMoves
  <1>7. UNCHANGED <<txs, epoch>> => ChainMoves
    BY DEF ChainMoves
  <1> QED BY <1>1, <1>2, <1>3, <1>4, <1>5, <1>6, <1>7
      DEF Next, LockExpires, Settle, DeployForeign, Reset, vars, chainVars

\* What a step takes out of the file has failed, is an import like one that
\* failed, or its address was taken over.
LEMMA RemovedHasFailed ==
    ASSUME IInv, AddressInv, SoundInv, [Next]_vars, NEW f \in Fields,
           Damaged \notin {manifest, manifest'}, manifest[f] # None, manifest'[f] = None
    PROVE  \/ ~IsUsable(manifest[f])
           \/ manifest[f].txHash = None /\ ImportFailed(f)
           \/ /\ devNetwork
              /\ \E g \in Fields \ {f} :
                     /\ manifest'[g] # None
                     /\ AddressesOf(manifest[f]) \cap AddressesOf(manifest'[g]) # {}
  <1>1. CASE \E p \in Processes : Remove(p)
    <2>1. PICK p \in Processes : Remove(p)
      BY <1>1
    <2>2. InLockedRun(p) /\ pc[p] = "remove" /\ HasFailed(dep[p])
      BY <2>1 DEF Remove, InLockedRun, SoundInv, SoundInHand
    <2>3. /\ manifest' = [data[p] EXCEPT ![call[p].field] = None]
          /\ IsStillStored(data[p][call[p].field], dep[p])
      BY <2>1 DEF Remove
    <2>4. f = call[p].field
      BY <2>2, <2>3, EntriesOfCopy DEF Manifest
    <2>5. manifest[f].txHash = dep[p].txHash
      BY <2>2, <2>3, <2>4 DEF IsStillStored, IInv, ProcessInv, ReplacesNothing
    <2>6. CASE dep[p].txHash = None
      BY <2>2, <2>4, <2>5, <2>6 DEF ImportFailed
    <2>7. CASE dep[p].txHash # None
      BY <2>2, <2>5, <2>7 DEF HasFailed, IsUsable
    <2> QED BY <2>6, <2>7
  <1>2. CASE \E p \in Processes : Record(p)
    <2>1. PICK p \in Processes : Record(p)
      BY <1>2
    <2> DEFINE clashes == Clashes(data[p], call[p], dep[p])
               g == call[p].field
    <2>2. InLockedRun(p) /\ dep[p] \in Deployment
      BY <2>1 DEF Record, InLockedRun, IInv, ProcessInv, HasLocals
    <2>3. ~(clashes # {} /\ ~devNetwork)
      BY <2>1 DEF Record
    <2>4. PICK d \in Cleared(data[p], clashes) : manifest' = Updated(d, call[p], dep[p])
      BY <2>1, <2>3 DEF Record
    <2>5. clashes \in SUBSET Fields
      BY DEF Clashes, LookupDeployment
    <2>6. /\ d \in Manifest
          /\ \A k \in Fields \ clashes : d[k] = data[p][k]
      <3> HIDE DEF clashes
      <3> QED BY <2>2, <2>4, <2>5, ClearedIsSmaller, EntriesOfCopy
    <2>7. /\ g \in Fields
          /\ manifest'[g] = IF Merges(call[p]) THEN MergeAddresses(d[g], dep[p]) ELSE dep[p]
      BY <2>2, <2>4, <2>6, EntriesOfCopy DEF Updated, Manifest
    <2>8. manifest'[g] # None /\ dep[p].address \in AddressesOf(manifest'[g])
      <3>1. d[g] # None => d[g] \in Deployment
        BY <2>6, <2>7 DEF Manifest
      <3>2. None \notin Deployment
        BY StoreAssumption
      <3>3. d[g] # None => /\ MergeAddresses(d[g], dep[p]) \in Deployment
                           /\ dep[p].address \in MergeAddresses(d[g], dep[p]).allAddresses
        BY <2>2, <3>1 DEF MergeAddresses, AddressesOf, Deployment
      <3>4. d[g] = None => MergeAddresses(d[g], dep[p]) = dep[p]
        BY DEF MergeAddresses
      <3> QED BY <2>2, <2>7, <3>2, <3>3, <3>4 DEF AddressesOf
    <2>9. f # g /\ d[f] = None /\ data[p][f] = manifest[f]
      <3>1. f # g
        BY <2>8
      <3> QED BY <2>2, <2>4, <2>6, <3>1, UpdatedElsewhere, EntriesOfCopy
    <2>10. f \in clashes
      BY <2>6, <2>9
    <2>11. dep[p].address \in AddressesOf(manifest[f])
      BY <2>9, <2>10 DEF Clashes, LookupDeployment, AddressesOf
    <2> QED BY <2>3, <2>7, <2>8, <2>9, <2>10, <2>11
  <1>3. manifest' = manifest \/ \E p \in Processes : Record(p) \/ Remove(p)
    BY DEF Next, Step, Begin, Acquire, GiveUp, Validate, Deploy, DeployFails, Succeed,
           FindInvalid, TimeOut, Crash, LockExpires, Settle, DeployForeign, Reset, vars
  <1> QED BY <1>1, <1>2, <1>3

\* The invariant holds in every reachable state, on any network.
LEMMA SoundInvariant == Spec => [](IInv /\ AddressInv /\ SoundInv)
  <1>1. Init => IInv /\ AddressInv /\ SoundInv
    <2>1. Init => AddressInv
      BY DEF Init, NoManifest, AddressInv, AddressesAreUnique, FindsOne, InLockedRun
    <2>2. Init => SoundInv
      BY DEF Init, NoManifest, SoundInv, SoundEntries, SoundInHand
    <2> QED BY <2>1, <2>2, InitIInv
  <1>2. IInv /\ AddressInv /\ SoundInv /\ [Next]_vars => (IInv /\ AddressInv /\ SoundInv)'
    BY NextKeepsIInv, NextKeepsUnique, NextKeepsSound
  <1> QED BY <1>1, <1>2, PTL DEF Spec

\* On any network, across resets of a development chain, a deployment of the
\* tool itself leaves the file only after it failed, or on a development network
\* for a later one that has one of its addresses (fetchOrDeployGeneric and
\* checkForAddressClash of impl-store.ts).  An imported entry also leaves it, with
\* code or without, when a process found an import of the same version without
\* code.
THEOREM OnlyInvalidAreRemoved == Spec => RemovedOnlyIfInvalid
  <1>1. IInv /\ AddressInv /\ SoundInv /\ [Next]_vars =>
            [\A f \in Fields :
                (Damaged \notin {manifest, manifest'} /\ manifest[f] # None
                                                     /\ manifest'[f] = None)
                    => \/ ~IsUsable(manifest[f])
                       \/ manifest[f].txHash = None /\ ImportFailed(f)
                       \/ /\ devNetwork
                          /\ \E g \in Fields \ {f} :
                                 /\ manifest'[g] # None
                                 /\ AddressesOf(manifest[f])
                                        \cap AddressesOf(manifest'[g]) # {}]_vars
    BY RemovedHasFailed
  <1> QED BY <1>1, SoundInvariant, PTL DEF Spec, RemovedOnlyIfInvalid

----------------------------------------------------------------------------
(* Deployments on a live network: what the file has of each transaction.   *)

\* A deployment that was sent is the transaction of its address, for field f.
IsOwn(d, f) ==
    d.txHash # None =>
        /\ d.address \in DOMAIN txs
        /\ d.txHash = Hash(d.address)
        /\ txs[d.address].field = f

EntriesAreOwn ==
    manifest # Damaged =>
        \A f \in Fields : manifest[f] # None => IsOwn(manifest[f], f)

\* So is the one that a process has in hand; it is new only to a process that
\* does not import.
InHandIsOwn(p) ==
    pc[p] \in {"record", "wait", "invalid", "remove"} =>
        /\ IsOwn(dep[p], call[p].field)
        /\ pc[p] = "record" /\ dep[p].txHash # None => call[p].import = None

\* What a process is about to remove has failed.
InvalidHasFailed(p) ==
    (pc[p] \in {"invalid", "remove"} /\ dep[p].txHash # None) => ~IsAlive(dep[p].address)

IsKept(n) ==
    LET entry == manifest[txs[n].field]
    IN entry # None /\ entry.txHash = Hash(n)

InHand(n) == \E p \in Processes : pc[p] = "record" /\ dep[p].txHash = Hash(n)

AliveAreKept ==
    manifest # Damaged =>
        \A n \in DOMAIN txs : IsAlive(n) => IsKept(n) \/ Hash(n) \in orphans \/ InHand(n)

LiveInv ==
    /\ ~devNetwork
    /\ EntriesAreOwn
    /\ \A p \in Processes : InHandIsOwn(p) /\ InvalidHasFailed(p)
    /\ AliveAreKept

\* Transaction hashes tell transactions apart, and are known to the node.
LEMMA Hashing ==
    ASSUME IInv
    PROVE  /\ DOMAIN txs \subseteq Nat
           /\ \A n \in Nat : Hash(n) # None
           /\ \A n, m \in Nat : Hash(n) = Hash(m) => n = m
           /\ \A n \in DOMAIN txs : StatusOf(Hash(n)) = txs[n].status
  <1>1. txs \in Seq(Transaction) /\ epoch \in Nat
    BY StoreAssumption DEF IInv, TypeOK
  <1>2. DOMAIN txs \subseteq Nat
    BY <1>1
  <1>3. \A n \in Nat : Hash(n) \in Nat \X Nat /\ Hash(n)[1] = epoch /\ Hash(n)[2] = n
    BY <1>1 DEF Hash
  <1>4. \A n \in DOMAIN txs : StatusOf(Hash(n)) = txs[n].status
    BY <1>2, <1>3 DEF StatusOf, Known
  <1> QED BY <1>2, <1>3, <1>4, StoreAssumption

\* A step of p that sends nothing and leaves the file, or damages it: what p
\* had in hand is in orphans then.
LEMMA LiveStepOfOne ==
    ASSUME NEW p \in Processes, IInv, LiveInv, LocalTo(p), UNCHANGED chainVars,
           manifest' \in {manifest, Damaged},
           orphans \subseteq orphans',
           pc[p] = "record" /\ dep[p].txHash # None => dep[p].txHash \in orphans',
           InHandIsOwn(p)', InvalidHasFailed(p)'
    PROVE  LiveInv'
  <1>1. /\ UNCHANGED <<devNetwork, txs, epoch>>
        /\ \A n : Hash(n)' = Hash(n)
        /\ \A n : IsAlive(n)' <=> IsAlive(n)
    BY DEF chainVars, Hash, IsAlive
  <1>3. EntriesAreOwn'
    BY <1>1 DEF LiveInv, EntriesAreOwn, IsOwn
  <1>4. ASSUME NEW q \in Processes \ {p} PROVE InHandIsOwn(q)' /\ InvalidHasFailed(q)'
    BY <1>1 DEF LocalTo, LiveInv, InHandIsOwn, InvalidHasFailed, IsOwn
  <1>5. ASSUME manifest' # Damaged, NEW n \in DOMAIN txs, IsAlive(n)
        PROVE  (IsKept(n) \/ Hash(n) \in orphans \/ InHand(n))'
    <2>1. IsKept(n) \/ Hash(n) \in orphans \/ InHand(n)
      BY <1>5 DEF LiveInv, AliveAreKept
    <2>2. CASE IsKept(n)
      BY <1>1, <1>5, <2>2 DEF IsKept
    <2>3. CASE Hash(n) \in orphans
      BY <1>1, <2>3
    <2>4. CASE InHand(n)
      <3>1. PICK q \in Processes : pc[q] = "record" /\ dep[q].txHash = Hash(n)
        BY <2>4 DEF InHand
      <3>2. CASE q = p
        BY <1>1, <3>1, <3>2, Hashing
      <3>3. CASE q # p
        BY <1>1, <3>1, <3>3 DEF LocalTo, InHand
      <3> QED BY <3>2, <3>3
    <2> QED BY <2>1, <2>2, <2>3, <2>4
  <1>6. AliveAreKept'
    BY <1>1, <1>5 DEF AliveAreKept
  <1> QED BY <1>1, <1>3, <1>4, <1>6 DEF LiveInv

\* A call that ends leaves nothing in hand.
LEMMA LiveStepThatEnds ==
    ASSUME NEW p \in Processes, IInv, LiveInv, Ends(p), UNCHANGED chainVars,
           manifest' \in {manifest, Damaged},
           orphans \subseteq orphans',
           pc[p] = "record" /\ dep[p].txHash # None => dep[p].txHash \in orphans'
    PROVE  LiveInv'
  <1>1. LocalTo(p) /\ pc'[p] = "idle"
    BY DEF Ends, Goto, LocalTo, IInv, TypeOK
  <1>2. InHandIsOwn(p)' /\ InvalidHasFailed(p)'
    BY <1>1 DEF InHandIsOwn, InvalidHasFailed
  <1> QED BY <1>1, <1>2, LiveStepOfOne

\* The invariant holds of an empty store, and every action keeps it.
LEMMA InitLive == Networks = {FALSE} /\ Init => LiveInv
  BY DEF Init, NoManifest, LiveInv, EntriesAreOwn, InHandIsOwn, InvalidHasFailed,
     AliveAreKept

LEMMA BeginKeepsLive ==
    ASSUME NEW p \in Processes, NEW c \in Calls, IInv, LiveInv, Begin(p, c)
    PROVE  LiveInv'
  <1>1. LocalTo(p) /\ pc[p] = "idle" /\ pc'[p] = "lock"
    BY DEF Begin, Goto, LocalTo, IInv, TypeOK
  <1>2. InHandIsOwn(p)' /\ InvalidHasFailed(p)'
    BY <1>1 DEF InHandIsOwn, InvalidHasFailed
  <1> QED BY <1>1, <1>2, LiveStepOfOne DEF Begin

LEMMA AcquireKeepsLive ==
    ASSUME NEW p \in Processes, IInv, LiveInv, Acquire(p)
    PROVE  LiveInv'
  <1>1. CASE manifest = Damaged
    BY <1>1, LiveStepThatEnds DEF Acquire
  <1>2. CASE manifest # Damaged
    <2>1. /\ LocalTo(p) /\ UNCHANGED <<call, dep, manifest, orphans, chainVars>>
          /\ \/ pc[p] = "lock" /\ pc'[p] = "validate"
             \/ pc[p] = "invalid" /\ pc'[p] = "remove"
      BY <1>2 DEF Acquire, Goto, LocalTo, IInv, TypeOK
    <2>2. InHandIsOwn(p) /\ InvalidHasFailed(p)
      BY DEF LiveInv
    <2>3. InHandIsOwn(p)' /\ InvalidHasFailed(p)'
      BY <2>1, <2>2 DEF InHandIsOwn, InvalidHasFailed, IsOwn, IsAlive, Hash, chainVars
    <2> QED BY <2>1, <2>3, LiveStepOfOne
  <1> QED BY <1>1, <1>2

LEMMA ValidateKeepsLive ==
    ASSUME NEW p \in Processes, IInv, LiveInv, Validate(p)
    PROVE  LiveInv'
  <1> DEFINE stored == data[p][call[p].field]
  <1>1. /\ pc[p] = "validate" /\ LocalTo(p) /\ call[p] \in Calls /\ call[p].field \in Fields
        /\ UNCHANGED <<manifest, chainVars, call, orphans>>
        /\ data[p] = manifest /\ manifest # Damaged
    BY DEF Validate, LocalTo, Goto, LiveInv, InLockedRun, IInv, TypeOK, ProcessInv, HasLocals,
           HoldsLock, ReplacesNothing, Calls
  <1>2. stored # None => IsOwn(stored, call[p].field)
    BY <1>1 DEF LiveInv, EntriesAreOwn
  <1>3. \/ pc'[p] = "deploy"
        \/ pc'[p] = "wait" /\ dep'[p] = stored /\ stored # None
        \/ pc'[p] = "invalid" /\ dep'[p] = stored /\ stored # None /\ ~IsStored(stored)
    BY DEF Validate, Goto, IsStored, IInv, TypeOK
  <1>4. InHandIsOwn(p)'
    BY <1>1, <1>2, <1>3 DEF InHandIsOwn, IsOwn, Hash, chainVars
  <1>5. ASSUME stored # None, stored.txHash # None, ~IsStored(stored)
        PROVE  ~IsAlive(stored.address)
    BY <1>2, <1>5, Hashing DEF IsOwn, IsStored, IsFound, IsAlive
  <1>6. InvalidHasFailed(p)'
    BY <1>1, <1>3, <1>5 DEF InvalidHasFailed, IsAlive, chainVars
  <1> QED BY <1>1, <1>4, <1>6, LiveStepOfOne

LEMMA FindInvalidKeepsLive ==
    ASSUME NEW p \in Processes, IInv, LiveInv, FindInvalid(p)
    PROVE  LiveInv'
  <1>1. /\ pc[p] = "wait" /\ pc'[p] = "invalid" /\ LocalTo(p)
        /\ UNCHANGED <<manifest, lock, chainVars, call, data, dep, orphans>>
    BY DEF FindInvalid, Goto, LocalTo, IInv, TypeOK
  <1>2. IsOwn(dep[p], call[p].field)
    BY <1>1 DEF LiveInv, InHandIsOwn
  <1>3. InHandIsOwn(p)'
    BY <1>1, <1>2 DEF InHandIsOwn, IsOwn, Hash, chainVars
  <1>4. dep[p].txHash # None => ~IsAlive(dep[p].address)
    BY <1>2, Hashing
    DEF FindInvalid, IsOwn, IsConfirmed, IsReceiptSuccessful, HasReceipt, HasCode, IsAlive
  <1>5. InvalidHasFailed(p)'
    BY <1>1, <1>4 DEF InvalidHasFailed, IsAlive, chainVars
  <1> QED BY <1>1, <1>3, <1>5, LiveStepOfOne

\* A new transaction is in hand and nowhere else.
LEMMA DeployKeepsLive ==
    ASSUME NEW p \in Processes, IInv, LiveInv, Deploy(p)
    PROVE  LiveInv'
  <1>1. /\ pc[p] = "deploy" /\ pc'[p] = "record" /\ LocalTo(p)
        /\ UNCHANGED <<manifest, lock, devNetwork, epoch, foreign, call, data, orphans>>
    BY DEF Deploy, Goto, LocalTo, IInv, TypeOK
  <1>2. CASE call[p].import # None
    <2>1. txs' = txs /\ dep'[p].txHash = None
      BY <1>2 DEF Deploy, IInv, TypeOK
    <2>2. InHandIsOwn(p)' /\ InvalidHasFailed(p)'
      BY <1>1, <2>1 DEF InHandIsOwn, InvalidHasFailed, IsOwn
    <2> QED BY <1>1, <2>1, <2>2, LiveStepOfOne DEF chainVars
  <1>3. CASE call[p].import = None
    <2> PICK new : new = Len(txs) + 1
      OBVIOUS
    <2> DEFINE tx == [field |-> call[p].field, status |-> "pending"]
    <2>1. /\ txs' = Append(txs, tx)
          /\ dep'[p] = [address |-> new, txHash |-> Hash(new), allAddresses |-> {}]
      BY <1>3 DEF Deploy, IInv, TypeOK
    <2>2. call[p] \in Calls /\ tx \in Transaction /\ txs \in Seq(Transaction)
      BY <1>1 DEF IInv, TypeOK, ProcessInv, HasLocals, Calls, Transaction
    <2>3. /\ DOMAIN txs' = DOMAIN txs \union {new} /\ new \notin DOMAIN txs
          /\ \A n \in DOMAIN txs : txs'[n] = txs[n]
          /\ txs'[new] = tx
      BY <2>1, <2>2
    <2>4. /\ \A n : Hash(n)' = Hash(n)
          /\ \A n \in DOMAIN txs : IsAlive(n)' <=> IsAlive(n)
      BY <1>1, <2>3 DEF Hash, IsAlive
    <2>5. EntriesAreOwn'
      BY <1>1, <2>3, <2>4 DEF LiveInv, EntriesAreOwn, IsOwn
    <2>6. InHandIsOwn(p)' /\ InvalidHasFailed(p)'
      BY <1>1, <1>3, <2>1, <2>3, <2>4 DEF InHandIsOwn, InvalidHasFailed, IsOwn
    <2>7. ASSUME NEW q \in Processes \ {p} PROVE InHandIsOwn(q)' /\ InvalidHasFailed(q)'
      BY <1>1, <2>3, <2>4 DEF LocalTo, LiveInv, InHandIsOwn, InvalidHasFailed, IsOwn
    <2>8. ASSUME manifest' # Damaged, NEW n \in DOMAIN txs, IsAlive(n)
          PROVE  (IsKept(n) \/ Hash(n) \in orphans \/ InHand(n))'
      <3>1. IsKept(n) \/ Hash(n) \in orphans \/ InHand(n)
        BY <1>1, <2>8 DEF LiveInv, AliveAreKept
      <3>2. CASE IsKept(n)
        BY <1>1, <2>3, <2>4, <2>8, <3>2 DEF IsKept
      <3>3. CASE Hash(n) \in orphans
        BY <1>1, <2>4, <3>3
      <3>4. CASE InHand(n)
        <4>1. PICK q \in Processes : pc[q] = "record" /\ dep[q].txHash = Hash(n)
          BY <3>4 DEF InHand
        <4>2. q # p
          BY <1>1, <4>1
        <4> QED BY <2>4, <4>1, <4>2, <1>1 DEF LocalTo, InHand
      <3> QED BY <3>1, <3>2, <3>3, <3>4
    <2>9. InHand(new)'
      BY <1>1, <2>1, <2>4 DEF InHand
    <2>10. AliveAreKept'
      BY <2>3, <2>4, <2>8, <2>9 DEF AliveAreKept
    <2> QED BY <1>1, <2>5, <2>6, <2>7, <2>10 DEF LiveInv
  <1> QED BY <1>2, <1>3

LEMMA DeployFailsKeepsLive ==
    ASSUME NEW p \in Processes, IInv, LiveInv, DeployFails(p)
    PROVE  LiveInv'
  BY LiveStepThatEnds DEF DeployFails

\* What was in hand is in the entry now, which was empty or keeps its hash.
LEMMA RecordKeepsLive ==
    ASSUME NEW p \in Processes, IInv, LiveInv, Record(p)
    PROVE  LiveInv'
  <1> DEFINE field == call[p].field
  <1>1. /\ pc[p] = "record" /\ InLockedRun(p) /\ lock = p
        /\ call[p] \in Calls /\ field \in Fields
        /\ data[p] = manifest /\ manifest \in Manifest /\ manifest # Damaged
        /\ dep[p] \in Deployment
        /\ ~Merges(call[p]) => manifest[field] = None
        /\ UNCHANGED chainVars
    BY DEF Record, InLockedRun, LiveInv, IInv, ProcessInv, HasLocals, HoldsLock,
           ReplacesNothing, Calls
  <1>2. IsOwn(dep[p], field) /\ (dep[p].txHash # None => call[p].import = None)
    BY <1>1 DEF LiveInv, InHandIsOwn
  <1>3. CASE Clashes(data[p], call[p], dep[p]) # {}
    <2>1. Ends(p) /\ orphans' = orphans \union LeftBehind(p) /\ manifest' = manifest
      BY <1>3 DEF Record, LiveInv
    <2> QED BY <1>1, <2>1, LiveStepThatEnds DEF LeftBehind
  <1>4. CASE Clashes(data[p], call[p], dep[p]) = {}
    <2>1. /\ manifest' = Updated(manifest, call[p], dep[p])
          /\ pc'[p] = "wait" /\ LocalTo(p)
          /\ UNCHANGED <<call, dep, orphans>>
      BY <1>1, <1>4 DEF Record, Cleared, Goto, LocalTo, IInv, TypeOK
    <2>2. /\ UNCHANGED <<devNetwork, txs, epoch>>
          /\ \A n : Hash(n)' = Hash(n)
          /\ \A n : IsAlive(n)' <=> IsAlive(n)
      BY <1>1 DEF chainVars, Hash, IsAlive
    <2>3. \A f \in Fields \ {field} : manifest'[f] = manifest[f]
      BY <1>1, <2>1, UpdatedElsewhere
    <2>4. \/ manifest[field] = None /\ manifest'[field] = dep[p]
          \/ /\ manifest[field] # None /\ Merges(call[p])
             /\ manifest'[field].txHash = manifest[field].txHash
             /\ manifest'[field].address = manifest[field].address
             /\ manifest'[field] \in Deployment
      <3>1. manifest'[field] = IF Merges(call[p]) THEN MergeAddresses(manifest[field], dep[p])
                               ELSE dep[p]
        BY <1>1, <2>1 DEF Updated, Manifest
      <3>2. manifest[field] # None => manifest[field] \in Deployment
        BY <1>1 DEF Manifest
      <3> QED BY <1>1, <3>1, <3>2 DEF MergeAddresses, AddressesOf, Deployment
    <2>5. EntriesAreOwn'
      <3>1. ASSUME NEW f \in Fields, manifest'[f] # None PROVE IsOwn(manifest'[f], f)
        <4>1. CASE f # field
          BY <1>1, <2>3, <3>1, <4>1 DEF LiveInv, EntriesAreOwn
        <4>2. CASE f = field
          BY <1>1, <1>2, <2>4, <4>2 DEF LiveInv, EntriesAreOwn, IsOwn
        <4> QED BY <4>1, <4>2
      <3> QED BY <2>2, <3>1 DEF EntriesAreOwn, IsOwn
    <2>6. InHandIsOwn(p)' /\ InvalidHasFailed(p)'
      BY <1>2, <2>1, <2>2 DEF InHandIsOwn, InvalidHasFailed, IsOwn
    <2>7. ASSUME NEW q \in Processes \ {p} PROVE InHandIsOwn(q)' /\ InvalidHasFailed(q)'
      BY <2>1, <2>2 DEF LocalTo, LiveInv, InHandIsOwn, InvalidHasFailed, IsOwn
    <2>8. ASSUME NEW n \in DOMAIN txs, IsAlive(n)
          PROVE  (IsKept(n) \/ Hash(n) \in orphans \/ InHand(n))'
      <3>1. IsKept(n) \/ Hash(n) \in orphans \/ InHand(n)
        BY <1>1, <2>8 DEF LiveInv, AliveAreKept
      <3>2. Hash(n) # None /\ n \in Nat /\ txs[n].field \in Fields
        <4>1. txs \in Seq(Transaction)
          BY DEF IInv, TypeOK
        <4>2. txs[n] \in Transaction
          BY <4>1
        <4> QED BY <4>2, Hashing DEF Transaction
      <3>3. CASE IsKept(n)
        <4>1. CASE txs[n].field # field
          BY <2>2, <2>3, <3>2, <3>3, <4>1 DEF IsKept
        <4>2. CASE txs[n].field = field
          <5>1. manifest'[field].txHash = Hash(n) /\ manifest'[field] # None
            BY <2>4, <3>3, <4>2, StoreAssumption DEF IsKept
          <5> QED BY <2>2, <4>2, <5>1 DEF IsKept
        <4> QED BY <4>1, <4>2
      <3>4. CASE Hash(n) \in orphans
        BY <2>1, <2>2, <3>4
      <3>5. CASE InHand(n)
        <4>1. PICK q \in Processes : pc[q] = "record" /\ dep[q].txHash = Hash(n)
          BY <3>5 DEF InHand
        <4>2. q = p
          BY <1>1, <4>1, LockIsExclusive DEF InLockedRun
        <4>3. ~Merges(call[p]) /\ manifest[field] = None
          BY <1>1, <1>2, <3>2, <4>1, <4>2 DEF Merges
        <4>4. txs[n].field = field
          BY <1>2, <3>2, <4>1, <4>2, Hashing DEF IsOwn
        <4>5. manifest'[field].txHash = Hash(n) /\ manifest'[field] # None
          BY <1>1, <2>4, <4>1, <4>2, <4>3, StoreAssumption
        <4> QED BY <2>2, <4>4, <4>5 DEF IsKept
      <3> QED BY <3>1, <3>3, <3>4, <3>5
    <2>9. AliveAreKept'
      BY <2>2, <2>8 DEF AliveAreKept
    <2> QED BY <2>2, <2>5, <2>6, <2>7, <2>9 DEF LiveInv
  <1> QED BY <1>3, <1>4

LEMMA SucceedKeepsLive ==
    ASSUME NEW p \in Processes, IInv, LiveInv, Succeed(p)
    PROVE  LiveInv'
  BY LiveStepThatEnds DEF Succeed

LEMMA TimeOutKeepsLive ==
    ASSUME NEW p \in Processes, IInv, LiveInv, TimeOut(p)
    PROVE  LiveInv'
  BY LiveStepThatEnds DEF TimeOut

LEMMA GiveUpKeepsLive ==
    ASSUME NEW p \in Processes, IInv, LiveInv, GiveUp(p)
    PROVE  LiveInv'
  BY LiveStepThatEnds DEF GiveUp

LEMMA CrashKeepsLive ==
    ASSUME NEW p \in Processes, IInv, LiveInv, Crash(p)
    PROVE  LiveInv'
  BY LiveStepThatEnds DEF Crash, LeftBehind

\* The entry that is removed is that of the failed transaction, and of no
\* other one.
LEMMA RemoveKeepsLive ==
    ASSUME NEW p \in Processes, IInv, LiveInv, Remove(p)
    PROVE  LiveInv'
  <1> DEFINE field == call[p].field
  <1>1. /\ pc[p] = "remove" /\ Ends(p)
        /\ call[p] \in Calls /\ field \in Fields
        /\ data[p] = manifest /\ manifest \in Manifest /\ manifest # Damaged
        /\ UNCHANGED <<chainVars, orphans>>
    BY DEF Remove, InLockedRun, LiveInv, IInv, ProcessInv, HasLocals, HoldsLock,
           ReplacesNothing, Calls
  <1>2. CASE manifest' = manifest
    BY <1>1, <1>2, LiveStepThatEnds
  <1>3. CASE manifest' # manifest
    <2>1. /\ manifest' = [manifest EXCEPT ![field] = None]
          /\ IsStillStored(manifest[field], dep[p])
      BY <1>1, <1>3 DEF Remove
    <2>2. /\ \A f \in Fields \ {field} : manifest'[f] = manifest[f]
          /\ manifest'[field] = None
      BY <1>1, <2>1 DEF Manifest
    <2>3. /\ UNCHANGED <<devNetwork, txs, epoch>>
          /\ \A n : Hash(n)' = Hash(n)
          /\ \A n : IsAlive(n)' <=> IsAlive(n)
      BY <1>1 DEF chainVars, Hash, IsAlive
    <2>4. pc'[p] = "idle" /\ LocalTo(p)
      BY <1>1 DEF Ends, Goto, LocalTo, IInv, TypeOK
    <2>5. EntriesAreOwn'
      BY <1>1, <2>2, <2>3 DEF LiveInv, EntriesAreOwn, IsOwn
    <2>6. ASSUME NEW q \in Processes PROVE InHandIsOwn(q)' /\ InvalidHasFailed(q)'
      BY <2>3, <2>4 DEF LocalTo, LiveInv, InHandIsOwn, InvalidHasFailed, IsOwn
    <2>7. ASSUME NEW n \in DOMAIN txs, IsAlive(n)
          PROVE  (IsKept(n) \/ Hash(n) \in orphans \/ InHand(n))'
      <3>1. IsKept(n) \/ Hash(n) \in orphans \/ InHand(n)
        BY <1>1, <2>7 DEF LiveInv, AliveAreKept
      <3>2. Hash(n) # None /\ n \in Nat /\ txs[n].field \in Fields
        <4>1. txs \in Seq(Transaction)
          BY DEF IInv, TypeOK
        <4>2. txs[n] \in Transaction
          BY <4>1
        <4> QED BY <4>2, Hashing DEF Transaction
      <3>3. CASE IsKept(n)
        <4>1. CASE txs[n].field # field
          BY <2>2, <2>3, <3>2, <3>3, <4>1 DEF IsKept
        <4>2. CASE txs[n].field = field
          <5>1. dep[p].txHash = Hash(n)
            BY <2>1, <3>3, <4>2 DEF IsKept, IsStillStored
          <5>2. dep[p].address = n
            BY <1>1, <3>2, <5>1, Hashing DEF LiveInv, InHandIsOwn, IsOwn
          <5>3. ~IsAlive(n)
            BY <1>1, <3>2, <5>1, <5>2 DEF LiveInv, InvalidHasFailed
          <5> QED BY <2>7, <5>3
        <4> QED BY <4>1, <4>2
      <3>4. CASE Hash(n) \in orphans
        BY <1>1, <2>3, <3>4
      <3>5. CASE InHand(n)
        BY <1>1, <2>3, <2>4, <3>5 DEF InHand, LocalTo
      <3> QED BY <3>1, <3>3, <3>4, <3>5
    <2>8. AliveAreKept'
      BY <2>3, <2>7 DEF AliveAreKept
    <2> QED BY <2>3, <2>5, <2>6, <2>8 DEF LiveInv
  <1> QED BY <1>2, <1>3

\* A transaction that is mined, reverted or dropped keeps its hash, and none
\* comes back to life.
LEMMA SettleKeepsLive ==
    ASSUME IInv, LiveInv, NEW n \in DOMAIN txs,
           NEW status \in {"mined", "codeless", "reverted", "dropped"}, Settle(n, status)
    PROVE  LiveInv'
  <1>1. UNCHANGED <<manifest, lock, devNetwork, epoch, pc, call, data, dep, orphans>>
    BY DEF Settle
  <1>2. txs \in Seq(Transaction) /\ txs[n].status = "pending"
        /\ txs' = [txs EXCEPT ![n].status = status]
    BY DEF Settle, IInv, TypeOK
  <1>3. DOMAIN txs' = DOMAIN txs
    BY <1>2
  <1>4. \A m \in DOMAIN txs : /\ txs'[m].field = txs[m].field
                              /\ txs[m].status # "pending" => txs'[m].status = txs[m].status
    <2> SUFFICES ASSUME NEW m \in DOMAIN txs
                 PROVE  /\ txs'[m].field = txs[m].field
                        /\ txs[m].status # "pending" => txs'[m].status = txs[m].status
      OBVIOUS
    <2>1. txs[m] \in Transaction
      BY <1>2
    <2> QED BY <1>2, <2>1 DEF Transaction
  <1>5. /\ \A m : Hash(m)' = Hash(m)
        /\ \A m \in DOMAIN txs : IsAlive(m)' => IsAlive(m)
    BY <1>1, <1>3, <1>4 DEF Hash, IsAlive
  <1>6. EntriesAreOwn'
    BY <1>1, <1>3, <1>4, <1>5 DEF LiveInv, EntriesAreOwn, IsOwn, IInv, TypeOK
  <1>7. ASSUME NEW p \in Processes PROVE InHandIsOwn(p)' /\ InvalidHasFailed(p)'
    <2>1. InHandIsOwn(p) /\ InvalidHasFailed(p)
      BY DEF LiveInv
    <2>2. InHandIsOwn(p)'
      BY <1>1, <1>3, <1>4, <1>5, <2>1 DEF InHandIsOwn, IsOwn
    <2>3. InvalidHasFailed(p)'
      BY <1>1, <1>5, <2>1 DEF InHandIsOwn, InvalidHasFailed, IsOwn
    <2> QED BY <2>2, <2>3
  <1>8. AliveAreKept'
    <2> SUFFICES ASSUME manifest # Damaged, NEW m \in DOMAIN txs, IsAlive(m)
                 PROVE  (IsKept(m) \/ Hash(m) \in orphans \/ InHand(m))'
      BY <1>1, <1>3, <1>5 DEF AliveAreKept
    <2>1. IsKept(m) \/ Hash(m) \in orphans \/ InHand(m)
      BY DEF LiveInv, AliveAreKept
    <2> QED BY <1>1, <1>4, <1>5, <2>1 DEF IsKept, InHand
  <1> QED BY <1>1, <1>6, <1>7, <1>8 DEF LiveInv

LEMMA UnchangedKeepsLive ==
    ASSUME LiveInv, UNCHANGED <<manifest, devNetwork, txs, epoch, pc, call, dep, orphans>>
    PROVE  LiveInv'
  BY DEF LiveInv, EntriesAreOwn, InHandIsOwn, InvalidHasFailed, AliveAreKept, IsKept,
         InHand, IsOwn, IsAlive, Hash

LEMMA NextKeepsLive == IInv /\ LiveInv /\ [Next]_vars => LiveInv'
  <1> SUFFICES ASSUME IInv, LiveInv, [Next]_vars PROVE LiveInv'
    OBVIOUS
  <1>1. ASSUME NEW p \in Processes, Step(p) PROVE LiveInv'
    BY <1>1, AcquireKeepsLive, GiveUpKeepsLive, ValidateKeepsLive, DeployKeepsLive,
       DeployFailsKeepsLive, RecordKeepsLive, SucceedKeepsLive, FindInvalidKeepsLive,
       TimeOutKeepsLive, RemoveKeepsLive DEF Step
  <1>2. ASSUME NEW p \in Processes, Crash(p) PROVE LiveInv'
    BY <1>2, CrashKeepsLive
  <1>3. ASSUME NEW p \in Processes, NEW c \in Calls, Begin(p, c) PROVE LiveInv'
    BY <1>3, BeginKeepsLive
  <1>4. CASE LockExpires
    BY <1>4, UnchangedKeepsLive DEF LockExpires, chainVars
  <1>5. CASE \E n \in DOMAIN txs :
                \E status \in {"mined", "codeless", "reverted", "dropped"} : Settle(n, status)
    BY <1>5, SettleKeepsLive
  <1>6. CASE Reset
    BY <1>6 DEF Reset, LiveInv
  <1>7. CASE \E address \in Foreign : DeployForeign(address)
    BY <1>7, UnchangedKeepsLive DEF DeployForeign
  <1>8. CASE UNCHANGED vars
    BY <1>8, UnchangedKeepsLive DEF vars, chainVars
  <1> QED BY <1>1, <1>2, <1>3, <1>4, <1>5, <1>6, <1>7, <1>8 DEF Next

\* On live networks the invariant about deployments holds in every reachable
\* state, also when contracts are imported.
THEOREM LiveInvariant == ASSUME Networks = {FALSE} PROVE Spec => [](IInv /\ LiveInv)
  <1>1. Init => IInv /\ LiveInv
    BY InitIInv, InitLive
  <1>2. IInv /\ LiveInv /\ [Next]_vars => (IInv /\ LiveInv)'
    BY NextKeepsIInv, NextKeepsLive
  <1> QED BY <1>1, <1>2, PTL DEF Spec

\* On live networks the store never forgets a deployment that fetchOrDeploy
\* sent and that can still succeed: whatever the other processes remove, merge
\* or deploy, its address is in the file, or its process is about to write it,
\* or died or failed before it could.
THEOREM DeploymentsAreRemembered ==
    ASSUME Networks = {FALSE} PROVE Spec => []NothingIsForgotten
  <1>1. IInv /\ LiveInv => NothingIsForgotten
    <2> SUFFICES ASSUME IInv, LiveInv, manifest # Damaged,
                        NEW n \in DOMAIN txs, IsAlive(n)
                 PROVE  IsRecorded(n) \/ Hash(n) \in orphans \/ InHand(n)
      BY DEF NothingIsForgotten, InHand
    <2>1. IsKept(n) \/ Hash(n) \in orphans \/ InHand(n)
      BY DEF LiveInv, AliveAreKept
    <2>2. Hash(n) # None /\ n \in Nat /\ txs[n].field \in Fields
      <3>1. txs \in Seq(Transaction)
        BY DEF IInv, TypeOK
      <3>2. txs[n] \in Transaction
        BY <3>1
      <3> QED BY <3>2, Hashing DEF Transaction
    <2>3. IsKept(n) => IsRecorded(n)
      BY <2>2, Hashing DEF IsKept, IsRecorded, LiveInv, EntriesAreOwn, IsOwn, AddressesOf
    <2> QED BY <2>1, <2>3
  <1> QED BY <1>1, LiveInvariant, PTL

\* On live networks fetchOrDeploy deploys a version once: of two transactions
\* for one field that can still succeed, one was sent by a process that died or
\* failed before it could write the file.
THEOREM DeployedOnce == ASSUME Networks = {FALSE} PROVE Spec => []OneDeployment
  <1>1. IInv /\ LiveInv => OneDeployment
    <2> SUFFICES ASSUME IInv, LiveInv, manifest # Damaged,
                        NEW n \in DOMAIN txs, NEW m \in DOMAIN txs,
                        IsAlive(n), IsAlive(m), txs[n].field = txs[m].field,
                        Hash(n) \notin orphans, Hash(m) \notin orphans
                 PROVE  n = m
      BY DEF OneDeployment
    <2>1. (IsKept(n) \/ InHand(n)) /\ (IsKept(m) \/ InHand(m))
      BY DEF LiveInv, AliveAreKept
    <2>2. n \in Nat /\ m \in Nat /\ Hash(n) # None /\ Hash(m) # None
      BY Hashing
    <2>3. ASSUME NEW k \in DOMAIN txs, InHand(k)
          PROVE  \E p \in Processes : /\ pc[p] = "record" /\ dep[p].txHash = Hash(k)
                                      /\ lock = p
                                      /\ manifest[txs[k].field] = None
      <3>1. PICK p \in Processes : pc[p] = "record" /\ dep[p].txHash = Hash(k)
        BY <2>3 DEF InHand
      <3>2. lock = p
        BY <3>1, LockIsExclusive DEF InLockedRun
      <3>3. k \in Nat /\ Hash(k) # None
        BY Hashing
      <3>4. txs[k].field = call[p].field /\ call[p].import = None
        BY <3>1, <3>3, Hashing DEF LiveInv, InHandIsOwn, IsOwn
      <3>5. manifest[call[p].field] = None
        BY <3>1, <3>4
        DEF LiveInv, IInv, ProcessInv, ReplacesNothing, InLockedRun, Merges
      <3> QED BY <3>1, <3>2, <3>4, <3>5
    <2>4. CASE InHand(n) /\ InHand(m)
      BY <2>2, <2>3, <2>4, Hashing
    <2>5. CASE IsKept(n) /\ IsKept(m)
      BY <2>2, <2>5, Hashing DEF IsKept
    <2>6. CASE InHand(n) /\ IsKept(m)
      BY <2>3, <2>6 DEF IsKept
    <2>7. CASE IsKept(n) /\ InHand(m)
      BY <2>3, <2>7 DEF IsKept
    <2> QED BY <2>1, <2>4, <2>5, <2>6, <2>7
  <1> QED BY <1>1, LiveInvariant, PTL

----------------------------------------------------------------------------
(* What a call returns is in the file.                                     *)

\* A process that waits for a transaction without the lock finds it kept.
WaitsForKept(p) ==
    pc[p] = "wait" /\ manifest # Damaged /\ IsAlive(dep[p].address)
        => IsKept(dep[p].address)

\* Only a process that has seen a transaction fail takes its entry away.
LEMMA KeptStays ==
    ASSUME IInv, AddressInv, LiveInv, [Next]_vars, Foreign = {},
           manifest' # Damaged, NEW n \in DOMAIN txs, IsAlive(n), IsKept(n)
    PROVE  IsKept(n)'
  <1>1. txs \in Seq(Transaction) /\ n \in Nat /\ Hash(n) # None
    BY Hashing DEF IInv, TypeOK
  <1>2. epoch' = epoch /\ txs'[n].field = txs[n].field
    <2>1. ASSUME NEW m \in DOMAIN txs, NEW status, Settle(m, status)
          PROVE  txs'[n].field = txs[n].field
      <3>1. txs[n] \in Transaction
        BY <1>1
      <3> QED BY <1>1, <2>1, <3>1 DEF Settle, Transaction
    <2>2. ASSUME NEW p \in Processes, Deploy(p) PROVE txs'[n] = txs[n]
      <3>1. txs' = txs \/ \E tx : txs' = Append(txs, tx)
        BY <2>2 DEF Deploy
      <3> QED BY <1>1, <3>1
    <2> QED BY <2>1, <2>2
        DEF Next, Step, Begin, Acquire, GiveUp, Validate, Deploy, DeployFails, Record, Succeed,
            FindInvalid, TimeOut, Remove, Crash, LockExpires, Settle, DeployForeign, Reset, vars, chainVars,
            LiveInv
  <1> DEFINE field == txs[n].field
  <1>3. field \in Fields
    <2>1. txs[n] \in Transaction
      BY <1>1
    <2> QED BY <2>1 DEF Transaction
  <1>4. manifest[field] # None /\ manifest[field].txHash = Hash(n)
    BY DEF IsKept
  <1>5. manifest'[field] = manifest[field]
    <2>1. CASE \E p \in Processes : Remove(p)
      <3>1. PICK p \in Processes : Remove(p)
        BY <2>1
      <3>2. InLockedRun(p) /\ pc[p] = "remove"
        BY <3>1 DEF Remove, InLockedRun
      <3>3. data[p] = manifest
        BY <3>2 DEF LiveInv, IInv, ProcessInv, ReplacesNothing
      <3>4. CASE call[p].field # field
        BY <1>3, <3>1, <3>2, <3>3, <3>4, EntriesOfCopy DEF Remove, Manifest
      <3>5. CASE call[p].field = field
        <4>1. CASE IsStillStored(data[p][field], dep[p])
          <5>1. dep[p].txHash = Hash(n)
            BY <1>4, <3>3, <4>1 DEF IsStillStored
          <5>2. dep[p].address = n
            BY <1>1, <3>2, <5>1, Hashing DEF LiveInv, InHandIsOwn, IsOwn
          <5> QED BY <1>1, <3>2, <5>1, <5>2 DEF LiveInv, InvalidHasFailed
        <4>2. CASE ~IsStillStored(data[p][field], dep[p])
          BY <3>1, <3>5, <4>2 DEF Remove
        <4> QED BY <4>1, <4>2
      <3> QED BY <3>4, <3>5
    <2>2. CASE \E p \in Processes : Record(p)
      <3>1. PICK p \in Processes : Record(p)
        BY <2>2
      <3>2. /\ InLockedRun(p) /\ pc[p] = "record"
        BY <3>1 DEF Record, InLockedRun
      <3>3. data[p] = manifest /\ ~Merges(call[p]) /\ data[p][call[p].field] = None
        <4>1. call[p].import = None
          BY <3>2, EntriesOfCopy DEF Calls
        <4>2. ~Merges(call[p])
          BY <4>1 DEF Merges
        <4> QED BY <3>2, <4>2 DEF LiveInv, IInv, ProcessInv, ReplacesNothing
      <3>4. field # call[p].field
        BY <1>4, <3>3
      <3>5. CASE Clashes(data[p], call[p], dep[p]) # {}
        BY <3>1, <3>5 DEF Record, LiveInv
      <3>6. CASE Clashes(data[p], call[p], dep[p]) = {}
        <4>1. manifest' = Updated(data[p], call[p], dep[p])
          BY <3>1, <3>6 DEF Record, Cleared
        <4> QED BY <1>3, <3>2, <3>3, <3>4, <4>1, UpdatedElsewhere, EntriesOfCopy
      <3> QED BY <3>5, <3>6
    <2>3. manifest' = manifest \/ \E p \in Processes : Record(p) \/ Remove(p)
      BY DEF Next, Step, Begin, Acquire, GiveUp, Validate, Deploy, DeployFails, Succeed,
             FindInvalid, TimeOut, Crash, LockExpires, Settle, DeployForeign, Reset, vars
    <2> QED BY <2>1, <2>2, <2>3
  <1> QED BY <1>2, <1>4, <1>5 DEF IsKept, Hash

\* A process comes to wait for what it has read or has written.
LEMMA WaitsBegin ==
    ASSUME NEW p \in Processes, IInv, LiveInv, Foreign = {},
           Validate(p) \/ Record(p), pc'[p] = "wait", dep'[p].txHash # None,
           manifest' # Damaged
    PROVE  (IsAlive(dep[p].address) => IsKept(dep[p].address))'
  <1>1. /\ InLockedRun(p) /\ call[p] \in Calls /\ call[p].field \in Fields
        /\ UNCHANGED <<devNetwork, txs, epoch>>
        /\ data[p] = manifest /\ manifest \in Manifest /\ manifest # Damaged
    <2>1. pc[p] \in {"validate", "record"} /\ UNCHANGED <<devNetwork, txs, epoch>>
      BY DEF Validate, Record, chainVars
    <2> QED BY <2>1 DEF InLockedRun, LiveInv, IInv, ProcessInv, HasLocals, HoldsLock,
                        ReplacesNothing, Calls
  <1>2. manifest'[call[p].field] = dep'[p] /\ IsOwn(dep'[p], call[p].field)
    <2>1. CASE Validate(p)
      <3>1. manifest' = manifest
        BY <2>1 DEF Validate
      <3>2. dep'[p] = manifest[call[p].field] /\ dep'[p] # None
        BY <1>1, <2>1 DEF Validate, Goto, IsStored, IInv, TypeOK
      <3> QED BY <1>1, <3>1, <3>2 DEF LiveInv, EntriesAreOwn
    <2>2. CASE Record(p)
      <3>1. ~Merges(call[p])
        BY <1>1 DEF Calls, Merges
      <3>2. pc[p] = "record" /\ IsOwn(dep[p], call[p].field)
        BY <2>2 DEF Record, LiveInv, InHandIsOwn
      <3>3. Clashes(data[p], call[p], dep[p]) = {} /\ dep' = dep
        BY <2>2 DEF Record, Ends, Goto, LiveInv, IInv, TypeOK
      <3>4. manifest' = Updated(manifest, call[p], dep[p])
        BY <1>1, <2>2, <3>3 DEF Record, Cleared
      <3>5. manifest'[call[p].field] = dep[p]
        BY <1>1, <3>1, <3>4 DEF Updated, Manifest
      <3> QED BY <3>2, <3>3, <3>5
    <2> QED BY <2>1, <2>2
  <1>3. manifest'[call[p].field] # None
    <2>1. IInv'
      BY ValidateKeepsIInv, RecordKeepsIInv
    <2>2. dep'[p] \in Deployment
      BY <2>1 DEF IInv, ProcessInv, HasLocals
    <2> QED BY <1>2, <2>2, StoreAssumption
  <1> QED BY <1>1, <1>2, <1>3 DEF IsOwn, IsKept, Hash

\* No step of any process takes away what another one waits for.
LEMMA NextKeepsWaits ==
    ASSUME IInv, AddressInv, SoundInv, SoundInv', LiveInv, [Next]_vars,
           Foreign = {}, \A p \in Processes : WaitsForKept(p)
    PROVE  \A p \in Processes : WaitsForKept(p)'
  <1> SUFFICES ASSUME NEW p \in Processes, pc'[p] = "wait", manifest' # Damaged,
                      IsAlive(dep[p].address)'
               PROVE  IsKept(dep[p].address)'
    BY DEF WaitsForKept
  <1>1. dep'[p].txHash # None
    BY DEF SoundInv, SoundInHand, IsSound
  <1>2. CASE Validate(p) \/ Record(p)
    BY <1>1, <1>2, WaitsBegin
  <1>3. CASE pc[p] = "wait" /\ dep'[p] = dep[p]
    <2> DEFINE n == dep[p].address
    <2>1. n \in DOMAIN txs
      BY <1>1, <1>3 DEF LiveInv, InHandIsOwn, IsOwn
    <2>2. IsAlive(n)
      <3>1. txs \in Seq(Transaction) /\ txs'[n].status \in {"pending", "mined"}
        BY <1>3 DEF IInv, TypeOK, IsAlive
      <3>2. ASSUME NEW q \in Processes, Deploy(q) PROVE txs'[n] = txs[n]
        <4>1. txs' = txs \/ \E tx : txs' = Append(txs, tx)
          BY <3>2 DEF Deploy
        <4> QED BY <2>1, <3>1, <4>1
      <3>3. ASSUME NEW m \in DOMAIN txs, NEW status, Settle(m, status)
            PROVE  m # n \/ txs[n].status = "pending"
        BY <3>3 DEF Settle
      <3>4. ASSUME NEW m \in DOMAIN txs, NEW status, Settle(m, status), m # n
            PROVE  txs'[n] = txs[n]
        BY <2>1, <3>1, <3>4 DEF Settle
      <3>5. txs'[n] = txs[n] \/ txs[n].status = "pending"
        BY <3>2, <3>3, <3>4
        DEF Next, Step, Begin, Acquire, GiveUp, Validate, Deploy, DeployFails, Record,
            Succeed, FindInvalid, TimeOut, Remove, Crash, LockExpires, Settle, DeployForeign, Reset, vars,
            chainVars, LiveInv
      <3> QED BY <3>1, <3>5 DEF IsAlive
    <2>3. manifest # Damaged
      BY DEF Next, Step, Begin, Acquire, GiveUp, Validate, Deploy, DeployFails, Succeed,
             FindInvalid, TimeOut, Crash, LockExpires, Settle, DeployForeign, Reset, vars, Record, Remove,
             InLockedRun, IInv, ProcessInv, HoldsLock
    <2>4. IsKept(n)
      BY <1>3, <2>2, <2>3 DEF WaitsForKept
    <2>5. IsKept(n)'
      <3> PICK k : k = n
        OBVIOUS
      <3>1. IsKept(k)'
        BY <2>1, <2>2, <2>4, KeptStays
      <3> QED BY <1>3, <3>1 DEF IsKept
    <2> QED BY <1>3, <2>5
  <1>4. Validate(p) \/ Record(p) \/ (pc[p] = "wait" /\ dep'[p] = dep[p])
    <2>1. ASSUME NEW q \in Processes \ {p}, Step(q) \/ Crash(q) \/ \E c \in Calls : Begin(q, c)
          PROVE  pc'[p] = pc[p] /\ dep'[p] = dep[p]
      BY <2>1
      DEF Step, Begin, Acquire, GiveUp, Validate, Deploy, DeployFails, Record, Succeed,
          FindInvalid, TimeOut, Remove, Crash, Ends, Goto, IInv, TypeOK
    <2>2. ASSUME Step(p) \/ Crash(p) \/ \E c \in Calls : Begin(p, c), ~Validate(p), ~Record(p)
          PROVE  pc'[p] # "wait"
      BY <2>2
      DEF Step, Begin, Acquire, GiveUp, Deploy, DeployFails, Succeed, FindInvalid, TimeOut,
          Remove, Crash, Ends, Goto, IInv, TypeOK
    <2>3. CASE UNCHANGED <<pc, dep>>
      BY <2>3
    <2> QED BY <2>1, <2>2, <2>3 DEF Next, LockExpires, Settle, DeployForeign, Reset, vars
  <1> QED BY <1>2, <1>3, <1>4

\* On live networks, without imports, what fetchOrDeploy returns is in the
\* manifest at that moment: while it polled for the receipt without the lock,
\* no other process took its entry away or replaced it (fetchOrDeployGeneric of
\* impl-store.ts, waitAndValidateDeployment of deployment.ts).
THEOREM ReturnedStaysRecorded ==
    ASSUME Networks = {FALSE}, Foreign = {} PROVE Spec => ReturnedIsRecorded
  <1> DEFINE WaitInv == \A p \in Processes : WaitsForKept(p)
  <1>2. Init => WaitInv
    BY DEF Init, WaitsForKept
  <1>3. IInv /\ AddressInv /\ SoundInv /\ LiveInv /\ WaitInv /\ [Next]_vars => WaitInv'
    <2> SUFFICES ASSUME IInv, AddressInv, SoundInv, LiveInv, WaitInv, [Next]_vars
                 PROVE  WaitInv'
      OBVIOUS
    <2>1. SoundInv'
      BY NextKeepsSound
    <2> QED BY <2>1, NextKeepsWaits
  <1>4. IInv /\ LiveInv /\ SoundInv /\ WaitInv /\ [Next]_vars =>
            [\A p \in Processes :
                (Succeed(p) /\ manifest # Damaged)
                    => /\ manifest[call[p].field] # None
                       /\ dep[p].address \in AddressesOf(manifest[call[p].field])]_vars
    <2> SUFFICES ASSUME IInv, LiveInv, SoundInv, WaitInv,
                        NEW p \in Processes, Succeed(p), manifest # Damaged
                 PROVE  /\ manifest[call[p].field] # None
                        /\ dep[p].address \in AddressesOf(manifest[call[p].field])
      OBVIOUS
    <2> DEFINE n == dep[p].address
               entry == manifest[call[p].field]
    <2>1. pc[p] = "wait" /\ HasCode(n) /\ dep[p].txHash # None
      BY DEF Succeed, SoundInv, SoundInHand, IsSound
    <2>2. n \in DOMAIN txs /\ IsAlive(n) /\ txs[n].field = call[p].field
      BY <2>1 DEF HasCode, IsAlive, LiveInv, InHandIsOwn, IsOwn, IInv, TypeOK
    <2>3. entry # None /\ entry.txHash = Hash(n) /\ call[p].field \in Fields
      BY <2>1, <2>2 DEF WaitsForKept, IsKept, IInv, ProcessInv, HasLocals, Calls
    <2>4. n \in Nat /\ Hash(n) # None
      BY <2>2, Hashing
    <2>5. entry.address = n
      BY <2>3, <2>4, Hashing DEF LiveInv, EntriesAreOwn, IsOwn
    <2> QED BY <2>3, <2>5 DEF AddressesOf
  <1> HIDE DEF WaitInv
  <1> QED BY <1>2, <1>3, <1>4, SoundInvariant, LiveInvariant, PTL
      DEF Spec, ReturnedIsRecorded
=============================================================================
