---------------------------- MODULE Tools_proofs ----------------------------
(***************************************************************************)
(* Proofs about the tools that deploy the protocol: the operations of the  *)
(* Truffle plugin on proxies and beacons (ProxyUpgrades), for any number   *)
(* of processes, contracts and versions, the deployment scripts            *)
(* (DeployScripts), the validation of contracts (Validations), for any     *)
(* project, and the conversion of OpenZeppelin CLI projects                *)
(* (LegacyMigration), for any files.  The four systems share nothing.      *)
(***************************************************************************)
EXTENDS ProxyUpgrades, DeployScripts, Validations, LegacyMigration, SequenceTheorems, SumTheorems

----------------------------------------------------------------------------
\* Calls of the plugin.

\* The steps of each operation.
Path ==
    [deployProxy       |-> {"kind", "check", "impl", "admin", "send", "register"},
     upgradeProxy      |-> {"upgrader", "kind", "current", "check", "impl", "send"},
     prepareUpgrade    |-> {"kind", "current", "check", "impl"},
     forceImport       |-> {"current", "impl", "importkind", "admin", "register"},
     deployBeacon      |-> {"check", "impl", "send"},
     deployBeaconProxy |-> {"send", "register"},
     upgradeBeacon     |-> {"current", "check", "impl", "send"},
     changeProxyAdmin  |-> {"upgrader", "send"}]

Labels ==
    {"begin", "upgrader", "kind", "current", "check", "impl", "importkind", "admin", "send", "register"}

CallType ==
    [pc : Labels, op : DOMAIN Path, target : Nat \union {None},
     version : Versions \union {None}, kind : Kinds \union {None}, checkedAs : Kinds,
     skip : BOOLEAN, allow : BOOLEAN, current : Versions \union Admins, registered : Kinds \union {None}]

ContractsOK ==
    /\ contracts \in Seq(ContractType)
    /\ \A a \in Addresses :
           IF IsBeaconProxy(a) THEN contracts[a].beacon \in Addresses /\ IsBeacon(contracts[a].beacon)
           ELSE contracts[a].impl \in Versions

ManifestOK ==
    /\ admin \in Admins
    /\ DOMAIN proxies \subseteq Addresses
    /\ \A a \in DOMAIN proxies : proxies[a] \in Kinds

\* An address whose implementation the manifest knows, if it has one.
HasLayout(a) == IsBeaconProxy(a) \/ contracts[a].impl \in impls

\* What a call names, and has found so far.
NamesTarget(r) ==
    /\ r.op \in {"deployProxy", "deployBeacon"} =>
           /\ r.version \in Versions
           /\ r.pc # "register" => r.target = None
    /\ r.op \notin {"deployProxy", "deployBeacon"} => r.target \in Addresses
    /\ r.op \in {"upgradeProxy", "prepareUpgrade", "upgradeBeacon"} => r.version \in Versions
    /\ r.op = "deployBeaconProxy" /\ r.pc = "send" => IsBeacon(r.target)
    /\ r.op = "changeProxyAdmin" => r.current \in Admins
    /\ r.op \in {"upgradeProxy", "upgradeBeacon"} =>
           ~IsBeaconProxy(r.target) \/ r.pc \in {"upgrader", "kind", "current"}

\* The manifest has the implementation that a transaction is sent for, or
\* that is about to be registered.
RecordsImpl(r) ==
    /\ r.pc \in {"admin", "send"} /\ r.op \in {"deployProxy", "upgradeProxy", "deployBeacon", "upgradeBeacon"} =>
           r.version \in impls
    /\ r.pc = "impl" /\ r.op = "forceImport" =>
           HasLayout(r.target) \/ contracts[r.target].impl = r.version
    /\ r.pc = "importkind" \/ (r.pc = "admin" /\ r.op = "forceImport") => HasLayout(r.target)
    /\ r.pc = "register" => r.target \in Addresses /\ HasLayout(r.target) /\ r.kind \in Kinds

\* The upgrade was compared with what was there.
ComparesLayouts(r) ==
    r.op \in {"upgradeProxy", "upgradeBeacon"} =>
        /\ r.pc \in {"check", "impl", "send"} => r.current \in Versions
        /\ r.pc \in {"impl", "send"} => r.skip \/ <<r.current, r.version>> \in Compatible

\* A proxy that is registered as UUPS is taken for one.
KeepsKind(r) ==
    /\ r.op = "upgradeProxy" =>
           /\ r.pc \in {"upgrader", "kind"} => r.kind \in {None, r.checkedAs}
           /\ r.pc \in {"current", "check"} /\ r.registered = "uups" =>
                  r.checkedAs = "uups" \/ r.version \in HasUpgradeTo
           /\ r.pc \in {"impl", "send"} /\ r.registered = "uups" =>
                  r.version \in HasUpgradeTo \/ r.allow
    /\ r.op = "upgradeBeacon" => r.registered = None
    /\ r.pc \in {"check", "impl", "admin", "send"} /\ r.op = "deployProxy" =>
           r.kind \in {"transparent", "uups"}
    /\ r.pc = "admin" => r.kind = "transparent"
    /\ r.op = "deployBeaconProxy" => r.kind = "beacon"

CallInv(r) ==
    r.pc # "idle" =>
        /\ r \in CallType /\ r.pc \in Path[r.op]
        /\ NamesTarget(r) /\ RecordsImpl(r) /\ ComparesLayouts(r) /\ KeepsKind(r)

ProxyInv ==
    /\ ContractsOK /\ ManifestOK /\ RegisteredHaveLayouts
    /\ run \in [Processes -> CallType \union {Idle}]
    /\ \A p \in Processes : CallInv(run[p])














----------------------------------------------------------------------------
\* What a step leaves.

\* Contracts and layouts are added, and a contract keeps its type; its next
\* implementation is one that the manifest has.
Grows ==
    /\ Addresses \subseteq Addresses'
    /\ \A a \in Addresses :
           /\ contracts'[a].type = contracts[a].type
           /\ contracts'[a].impl = contracts[a].impl \/ contracts'[a].impl \in impls'
    /\ impls \subseteq impls'

\* A contract has its fields, at an address that is a number.
LEMMA ContractFields ==
    ASSUME ContractsOK, NEW a \in Addresses
    PROVE  /\ a \in Nat /\ a \in 1 .. Len(contracts)
           /\ contracts[a] \in ContractType
           /\ contracts[a].type \in Kinds \union {"beaconproxy"}
           /\ contracts[a].impl \in Versions \union {None}
           /\ contracts[a].admin \in Admins
           /\ contracts[a].beacon \in Nat \union {None}
<1>1. a \in 1 .. Len(contracts) /\ contracts[a] \in ContractType
  BY DEF ContractsOK, Addresses
<1>2. a \in Nat
  BY <1>1
<1> QED
  BY <1>1, <1>2 DEF ContractType

\* The steps of each operation, one by one.
LEMMA Paths ==
    /\ DOMAIN Path = {"deployProxy", "upgradeProxy", "prepareUpgrade", "forceImport",
                      "deployBeacon", "deployBeaconProxy", "upgradeBeacon", "changeProxyAdmin"}
    /\ Path["deployProxy"] = {"kind", "check", "impl", "admin", "send", "register"}
    /\ Path["upgradeProxy"] = {"upgrader", "kind", "current", "check", "impl", "send"}
    /\ Path["prepareUpgrade"] = {"kind", "current", "check", "impl"}
    /\ Path["forceImport"] = {"current", "impl", "importkind", "admin", "register"}
    /\ Path["deployBeacon"] = {"check", "impl", "send"}
    /\ Path["deployBeaconProxy"] = {"send", "register"}
    /\ Path["upgradeBeacon"] = {"current", "check", "impl", "send"}
    /\ Path["changeProxyAdmin"] = {"upgrader", "send"}
BY DEF Path

\* What holds of a call stays true while other calls take their steps.
LEMMA CallStays ==
    ASSUME NEW r, CallInv(r), Grows
    PROVE  CallInv(r)'
<1> SUFFICES ASSUME r.pc # "idle"
             PROVE  /\ r \in CallType /\ r.pc \in Path[r.op]
                    /\ NamesTarget(r)' /\ RecordsImpl(r)' /\ ComparesLayouts(r)' /\ KeepsKind(r)'
  BY DEF CallInv
<1>1. /\ r \in CallType /\ r.pc \in Path[r.op]
      /\ NamesTarget(r) /\ RecordsImpl(r) /\ ComparesLayouts(r) /\ KeepsKind(r)
  BY DEF CallInv
<1>2. r.op \in DOMAIN Path
  BY <1>1 DEF CallType
<1>3. NamesTarget(r)'
  BY <1>1, <1>2, Paths DEF NamesTarget, Grows, IsBeacon, IsBeaconProxy
<1>4. ASSUME r.target \in Addresses, HasLayout(r.target)
      PROVE  HasLayout(r.target)'
  BY <1>4 DEF HasLayout, IsBeaconProxy, Grows
<1>5. RecordsImpl(r)'
  <2>1. r.pc \in {"admin", "send"} /\ r.op \in {"deployProxy", "upgradeProxy", "deployBeacon", "upgradeBeacon"} =>
            r.version \in impls'
    BY <1>1 DEF RecordsImpl, Grows
  <2>2. r.op = "forceImport" => r.target \in Addresses
    BY <1>1 DEF NamesTarget
  <2>3. r.pc = "impl" /\ r.op = "forceImport" =>
            HasLayout(r.target)' \/ contracts'[r.target].impl = r.version
    <3> SUFFICES ASSUME r.pc = "impl", r.op = "forceImport"
                 PROVE  HasLayout(r.target)' \/ contracts'[r.target].impl = r.version
      OBVIOUS
    <3>1. HasLayout(r.target) \/ contracts[r.target].impl = r.version
      BY <1>1 DEF RecordsImpl
    <3>2. contracts'[r.target].impl = contracts[r.target].impl \/ contracts'[r.target].impl \in impls'
      BY <2>2 DEF Grows
    <3> QED
      BY <3>1, <3>2, <2>2, <1>4 DEF HasLayout
  <2>4. r.pc = "importkind" \/ (r.pc = "admin" /\ r.op = "forceImport") => HasLayout(r.target)'
    <3>1. r.pc = "importkind" => r.op = "forceImport"
      BY <1>1, <1>2, Paths
    <3> QED
      BY <3>1, <2>2, <1>1, <1>4 DEF RecordsImpl
  <2>5. r.pc = "register" => r.target \in Addresses' /\ HasLayout(r.target)' /\ r.kind \in Kinds
    BY <1>1, <1>4 DEF RecordsImpl, Grows
  <2> QED
    BY <2>1, <2>3, <2>4, <2>5 DEF RecordsImpl
<1>6. ComparesLayouts(r)' /\ KeepsKind(r)'
  BY <1>1 DEF ComparesLayouts, KeepsKind
<1> QED
  BY <1>1, <1>3, <1>5, <1>6

\* A process that takes a step, and the others.
LEMMA CallsStay ==
    ASSUME ProxyInv, Grows, NEW p \in Processes, NEW r,
           run' = [run EXCEPT ![p] = r], r \in CallType \union {Idle}, CallInv(r)'
    PROVE  /\ run' \in [Processes -> CallType \union {Idle}]
           /\ \A q \in Processes : CallInv(run[q])'
<1>1. run \in [Processes -> CallType \union {Idle}] /\ \A q \in Processes : CallInv(run[q])
  BY DEF ProxyInv
<1>2. run' \in [Processes -> CallType \union {Idle}]
  BY <1>1
<1>3. ASSUME NEW q \in Processes
      PROVE  CallInv(run[q])'
  <2>1. CASE q = p
    <3>1. run'[q] = r
      BY <1>1, <2>1
    <3> QED
      BY <3>1
  <2>2. CASE q # p
    <3>1. run'[q] = run[q]
      BY <1>1, <2>2
    <3>2. PICK s : s = run[q]
      OBVIOUS
    <3>3. CallInv(s)
      BY <1>1, <3>2
    <3>4. CallInv(s)'
      BY <3>3, CallStays
    <3> QED
      BY <3>1, <3>2, <3>4
  <2> QED
    BY <2>1, <2>2
<1> QED
  BY <1>2, <1>3

\* A call that ends leaves nothing to say of it.
LEMMA IdleInv == Idle.pc = "idle" /\ CallInv(Idle) /\ CallInv(Idle)'
<1>1. Idle.pc = "idle"
  BY DEF Idle, Call
<1> QED
  BY <1>1 DEF CallInv

\* A running call has its type.
LEMMA Running ==
    ASSUME ProxyInv, NEW p \in Processes, run[p].pc # "idle"
    PROVE  /\ run[p] \in CallType /\ run[p].op \in DOMAIN Path /\ run[p].pc \in Path[run[p].op]
           /\ NamesTarget(run[p]) /\ RecordsImpl(run[p]) /\ ComparesLayouts(run[p])
           /\ KeepsKind(run[p])
<1>1. CallInv(run[p])
  BY DEF ProxyInv
<1> QED
  BY <1>1 DEF CallInv, CallType

\* When nothing but the calls changes, the rest of the invariant stays.
LEMMA RestStays ==
    ASSUME ProxyInv, UNCHANGED <<contracts, manifest>>
    PROVE  Grows /\ ContractsOK' /\ ManifestOK' /\ RegisteredHaveLayouts'
<1>1. Grows
  BY DEF Grows, manifest, Addresses
<1> QED
  BY <1>1 DEF ProxyInv, ContractsOK, ManifestOK, RegisteredHaveLayouts, Addresses, IsBeacon,
              IsBeaconProxy, manifest

----------------------------------------------------------------------------
\* The steps of a call.

\* A step that only moves the call on.
LEMMA CallMoves ==
    ASSUME ProxyInv, NEW p \in Processes, NEW r,
           run' = [run EXCEPT ![p] = r], r \in CallType \union {Idle}, CallInv(r),
           UNCHANGED <<contracts, manifest>>
    PROVE  ProxyInv'
<1>1. Grows /\ ContractsOK' /\ ManifestOK' /\ RegisteredHaveLayouts'
  BY RestStays
<1>2. CallInv(r)'
  BY <1>1, CallStays
<1>3. /\ run' \in [Processes -> CallType \union {Idle}]
      /\ \A q \in Processes : CallInv(run[q])'
  BY <1>1, <1>2, CallsStay
<1> QED
  BY <1>1, <1>3 DEF ProxyInv

LEMMA CallEnds ==
    ASSUME ProxyInv, NEW p \in Processes, Ends(p), UNCHANGED <<contracts, manifest>>
    PROVE  ProxyInv'
<1>1. PICK r : r = Idle
  OBVIOUS
<1>2. CallInv(r) /\ r \in CallType \union {Idle}
  BY <1>1, IdleInv
<1>3. run' = [run EXCEPT ![p] = r]
  BY <1>1 DEF Ends
<1> QED
  BY <1>2, <1>3, CallMoves

\* What a user can ask for.
Asked(call) ==
    /\ call \in CallType /\ call.registered = None
    /\ call.op \in {"deployProxy", "deployBeacon"} => call.version \in Versions /\ call.target = None
    /\ call.op \notin {"deployProxy", "deployBeacon"} => call.target \in Addresses
    /\ call.op \in {"upgradeProxy", "prepareUpgrade", "upgradeBeacon"} => call.version \in Versions
    /\ call.op = "upgradeProxy" => call.kind \in {None, call.checkedAs}
    /\ call.op = "changeProxyAdmin" => call.current \in Admins

\* A call that was made has what it was made with.
LEMMA CallFields ==
    ASSUME NEW call, call.op \in DOMAIN Path, call.target \in Nat \union {None},
           call.version \in Versions \union {None}, call.kind \in Kinds \union {None},
           call.skip \in BOOLEAN,
           call = Call(call.op, call.target, call.version, call.kind, call.skip)
    PROVE  call \in CallType /\ call.registered = None /\ call.kind \in {None, call.checkedAs}
<1>1. PICK op, target, version, kind, skip :
          /\ op = call.op /\ target = call.target /\ version = call.version
          /\ kind = call.kind /\ skip = call.skip
  OBVIOUS
<1>2. PICK checkedAs : checkedAs = IF kind = None THEN "transparent" ELSE kind
  OBVIOUS
<1>3. checkedAs \in Kinds /\ kind \in {None, checkedAs}
  BY <1>1, <1>2 DEF Kinds
<1>4. None \in Admins /\ "begin" \in Labels
  BY DEF Admins, Labels
<1>5. call = [pc |-> "begin", op |-> op, target |-> target, version |-> version, kind |-> kind,
              checkedAs |-> checkedAs, skip |-> skip, allow |-> FALSE, current |-> None, registered |-> None]
  BY <1>1, <1>2 DEF Call
<1> HIDE DEF Path, Kinds, Admins, Labels
<1> QED
  BY <1>1, <1>3, <1>4, <1>5 DEF CallType

LEMMA StrictCallsAreAsked ==
    ASSUME ProxyInv, NEW call \in StrictCalls
    PROVE  Asked(call)
<1> DEFINE kinds == Kinds \union {None}
           ProxyDeployments == {Call("deployProxy", None, v, k, FALSE) : v \in Versions, k \in kinds}
           ProxyUpgradeCalls == {Call("upgradeProxy", a, v, k, skip) :
                     a \in Addresses, v \in Versions, k \in kinds, skip \in BOOLEAN}
           Preparations == {Call("prepareUpgrade", a, v, k, FALSE) :
                                a \in Addresses, v \in Versions, k \in kinds}
           ForcedImports == UNION {{Call("forceImport", a, None, k, FALSE) : k \in {None, TrueKind(a)}} :
                            a \in Addresses}
           BeaconDeployments == {Call("deployBeacon", None, v, None, FALSE) : v \in Versions}
           BeaconProxyDeployments == {Call("deployBeaconProxy", a, None, k, FALSE) :
                                          a \in Addresses, k \in kinds}
           BeaconUpgrades == {Call("upgradeBeacon", a, v, None, FALSE) : a \in Addresses, v \in Versions}
           AdminChanges == {[Call("changeProxyAdmin", a, None, None, FALSE) EXCEPT !.current = new] :
                     a \in Addresses, new \in OtherAdmins \union {Admin}}
<1>1. \A a \in Addresses : a \in Nat \union {None} /\ TrueKind(a) \in Kinds \union {None}
  <2> TAKE a \in Addresses
  <2> QED
    BY ContractFields DEF ProxyInv, TrueKind, IsBeaconProxy, Kinds
<1>2. ASSUME call \in ProxyDeployments PROVE Asked(call)
  <2>1. PICK v \in Versions, k \in Kinds \union {None} :
            call = Call("deployProxy", None, v, k, FALSE)
    BY <1>2 DEF Call
  <2>2. /\ call.op = "deployProxy" /\ call.target = None /\ call.version = v
        /\ call.kind = k /\ call.skip = FALSE
    BY <2>1 DEF Call
  <2>3. call = Call(call.op, call.target, call.version, call.kind, call.skip)
    BY <2>1, <2>2
  <2>4. /\ call.target \in Nat \union {None} /\ call.version \in Versions \union {None}
        /\ call.kind \in Kinds \union {None} /\ call.skip \in BOOLEAN
    BY <1>1, <2>1, <2>2
  <2>5. call \in CallType /\ call.registered = None /\ call.kind \in {None, call.checkedAs}
    BY <2>3, <2>4, <2>2, CallFields, Paths
  <2> QED
    BY <2>2, <2>5 DEF Asked
<1>3. ASSUME call \in ProxyUpgradeCalls PROVE Asked(call)
  <2>1. PICK a \in Addresses, v \in Versions, k \in Kinds \union {None}, skip \in BOOLEAN :
            call = Call("upgradeProxy", a, v, k, skip)
    BY <1>3
  <2>2. /\ call.op = "upgradeProxy" /\ call.target = a /\ call.version = v
        /\ call.kind = k /\ call.skip = skip
    BY <2>1 DEF Call
  <2>3. call = Call(call.op, call.target, call.version, call.kind, call.skip)
    BY <2>1, <2>2
  <2>4. /\ call.target \in Nat \union {None} /\ call.version \in Versions \union {None}
        /\ call.kind \in Kinds \union {None} /\ call.skip \in BOOLEAN
    BY <1>1, <2>1, <2>2
  <2>5. call \in CallType /\ call.registered = None /\ call.kind \in {None, call.checkedAs}
    BY <2>3, <2>4, <2>2, CallFields, Paths
  <2> QED
    BY <2>2, <2>5 DEF Asked
<1>4. ASSUME call \in Preparations PROVE Asked(call)
  <2>1. PICK a \in Addresses, v \in Versions, k \in Kinds \union {None} :
            call = Call("prepareUpgrade", a, v, k, FALSE)
    BY <1>4 DEF Call
  <2>2. /\ call.op = "prepareUpgrade" /\ call.target = a /\ call.version = v
        /\ call.kind = k /\ call.skip = FALSE
    BY <2>1 DEF Call
  <2>3. call = Call(call.op, call.target, call.version, call.kind, call.skip)
    BY <2>1, <2>2
  <2>4. /\ call.target \in Nat \union {None} /\ call.version \in Versions \union {None}
        /\ call.kind \in Kinds \union {None} /\ call.skip \in BOOLEAN
    BY <1>1, <2>1, <2>2
  <2>5. call \in CallType /\ call.registered = None /\ call.kind \in {None, call.checkedAs}
    BY <2>3, <2>4, <2>2, CallFields, Paths
  <2> QED
    BY <2>2, <2>5 DEF Asked
<1>5. ASSUME call \in ForcedImports PROVE Asked(call)
  <2>1. PICK a \in Addresses :
            call \in {Call("forceImport", a, None, k, FALSE) : k \in {None, TrueKind(a)}}
    BY <1>5, Zenon
  <2>2. PICK k \in {None, TrueKind(a)} : call = Call("forceImport", a, None, k, FALSE)
    BY <2>1, Zenon
  <2>3. /\ call.op = "forceImport" /\ call.target = a /\ call.version = None
        /\ call.kind = k /\ call.skip = FALSE
    BY <2>2 DEF Call
  <2>4. call = Call(call.op, call.target, call.version, call.kind, call.skip)
    BY <2>2, <2>3
  <2>5. /\ call.target \in Nat \union {None} /\ call.version \in Versions \union {None}
        /\ call.kind \in Kinds \union {None} /\ call.skip \in BOOLEAN
    BY <1>1, <2>2, <2>3
  <2>6. call \in CallType /\ call.registered = None /\ call.kind \in {None, call.checkedAs}
    BY <2>4, <2>5, <2>3, CallFields, Paths
  <2> QED
    BY <2>3, <2>6 DEF Asked
<1>6. ASSUME call \in BeaconDeployments PROVE Asked(call)
  <2>1. PICK v \in Versions :
            call = Call("deployBeacon", None, v, None, FALSE)
    BY <1>6
  <2>2. /\ call.op = "deployBeacon" /\ call.target = None /\ call.version = v
        /\ call.kind = None /\ call.skip = FALSE
    BY <2>1 DEF Call
  <2>3. call = Call(call.op, call.target, call.version, call.kind, call.skip)
    BY <2>1, <2>2
  <2>4. /\ call.target \in Nat \union {None} /\ call.version \in Versions \union {None}
        /\ call.kind \in Kinds \union {None} /\ call.skip \in BOOLEAN
    BY <1>1, <2>1, <2>2
  <2>5. call \in CallType /\ call.registered = None /\ call.kind \in {None, call.checkedAs}
    BY <2>3, <2>4, <2>2, CallFields, Paths
  <2> QED
    BY <2>2, <2>5 DEF Asked
<1>7. ASSUME call \in BeaconProxyDeployments PROVE Asked(call)
  <2>1. PICK a \in Addresses, k \in Kinds \union {None} :
            call = Call("deployBeaconProxy", a, None, k, FALSE)
    BY <1>7 DEF Call
  <2>2. /\ call.op = "deployBeaconProxy" /\ call.target = a /\ call.version = None
        /\ call.kind = k /\ call.skip = FALSE
    BY <2>1 DEF Call
  <2>3. call = Call(call.op, call.target, call.version, call.kind, call.skip)
    BY <2>1, <2>2
  <2>4. /\ call.target \in Nat \union {None} /\ call.version \in Versions \union {None}
        /\ call.kind \in Kinds \union {None} /\ call.skip \in BOOLEAN
    BY <1>1, <2>1, <2>2
  <2>5. call \in CallType /\ call.registered = None /\ call.kind \in {None, call.checkedAs}
    BY <2>3, <2>4, <2>2, CallFields, Paths
  <2> QED
    BY <2>2, <2>5 DEF Asked
<1>8. ASSUME call \in BeaconUpgrades PROVE Asked(call)
  <2>1. PICK a \in Addresses, v \in Versions :
            call = Call("upgradeBeacon", a, v, None, FALSE)
    BY <1>8 DEF Call
  <2>2. /\ call.op = "upgradeBeacon" /\ call.target = a /\ call.version = v
        /\ call.kind = None /\ call.skip = FALSE
    BY <2>1 DEF Call
  <2>3. call = Call(call.op, call.target, call.version, call.kind, call.skip)
    BY <2>1, <2>2
  <2>4. /\ call.target \in Nat \union {None} /\ call.version \in Versions \union {None}
        /\ call.kind \in Kinds \union {None} /\ call.skip \in BOOLEAN
    BY <1>1, <2>1, <2>2
  <2>5. call \in CallType /\ call.registered = None /\ call.kind \in {None, call.checkedAs}
    BY <2>3, <2>4, <2>2, CallFields, Paths
  <2> QED
    BY <2>2, <2>5 DEF Asked
<1>9. ASSUME call \in AdminChanges PROVE Asked(call)
  <2>1. PICK a \in Addresses, new \in OtherAdmins \union {Admin} :
            call = [Call("changeProxyAdmin", a, None, None, FALSE) EXCEPT !.current = new]
    BY <1>9 DEF Call
  <2>2. PICK c : c = Call("changeProxyAdmin", a, None, None, FALSE)
    OBVIOUS
  <2>3. /\ c.op = "changeProxyAdmin" /\ c.target = a /\ c.version = None
        /\ c.kind = None /\ c.skip = FALSE
    BY <2>2 DEF Call
  <2>4. c = Call(c.op, c.target, c.version, c.kind, c.skip)
    BY <2>2, <2>3
  <2>5. /\ c.target \in Nat \union {None} /\ c.version \in Versions \union {None}
        /\ c.kind \in Kinds \union {None} /\ c.skip \in BOOLEAN
    BY <1>1, <2>3
  <2>6. c \in CallType /\ c.registered = None
    BY <2>4, <2>5, <2>3, CallFields, Paths
  <2>7. call = [c EXCEPT !.current = new]
    BY <2>1, <2>2
  <2>8. new \in Admins
    BY DEF Admins
  <2>9. /\ call \in CallType /\ call.op = "changeProxyAdmin" /\ call.target = a
        /\ call.registered = None /\ call.current = new
    BY <2>3, <2>6, <2>7, <2>8 DEF CallType
  <2> QED
    BY <2>8, <2>9 DEF Asked
<1>10. StrictCalls = ProxyDeployments \union ProxyUpgradeCalls \union Preparations \union ForcedImports
               \union BeaconDeployments \union BeaconProxyDeployments \union BeaconUpgrades
               \union AdminChanges
  BY DEF StrictCalls
<1> HIDE DEF ProxyDeployments, ProxyUpgradeCalls, Preparations, ForcedImports, BeaconDeployments,
             BeaconProxyDeployments, BeaconUpgrades, AdminChanges
<1> QED
  BY <1>2, <1>3, <1>4, <1>5, <1>6, <1>7, <1>8, <1>9, <1>10

LEMMA CallsAreAsked ==
    ASSUME ProxyInv, NEW call \in Calls
    PROVE  Asked(call)
<1>1. CASE call \in StrictCalls
  BY <1>1, StrictCallsAreAsked
<1>2. CASE call \notin StrictCalls
  <2>1. PICK c \in StrictCalls : call = [c EXCEPT !.allow = TRUE]
    BY <1>2 DEF Calls
  <2>2. Asked(c)
    BY StrictCallsAreAsked
  <2>3. /\ call \in CallType /\ call.op = c.op /\ call.target = c.target
        /\ call.version = c.version /\ call.kind = c.kind /\ call.checkedAs = c.checkedAs
        /\ call.current = c.current /\ call.registered = c.registered
    BY <2>1, <2>2 DEF Asked, CallType
  <2> QED
    BY <2>2, <2>3 DEF Asked
<1> QED
  BY <1>1, <1>2

\* A call that starts has found nothing yet.
LEMMA Starting ==
    ASSUME NEW r, Asked(r), r.pc \in Path[r.op],
           r.pc \in {"upgrader", "kind", "current"} \/ (r.op = "deployBeacon" /\ r.pc = "check"),
           r.op = "deployProxy" => r.pc = "kind",
           r.op = "upgradeProxy" => r.pc = "upgrader",
           r.op # "deployBeaconProxy"
    PROVE  CallInv(r)
<1>1. r \in CallType /\ r.op \in DOMAIN Path
  BY DEF Asked, CallType
<1>2. NamesTarget(r)
  BY <1>1, Paths DEF Asked, NamesTarget
<1>3. RecordsImpl(r) /\ ComparesLayouts(r)
  BY <1>1, Paths DEF RecordsImpl, ComparesLayouts
<1>4. KeepsKind(r)
  BY <1>1, Paths DEF KeepsKind, Asked
<1> QED
  BY <1>1, <1>2, <1>3, <1>4 DEF CallInv

LEMMA AskedAt ==
    ASSUME NEW call, Asked(call), NEW pc \in Labels, NEW r, r = [call EXCEPT !.pc = pc]
    PROVE  Asked(r) /\ r.pc = pc /\ r.op = call.op /\ r.target = call.target /\ r.kind = call.kind
<1>1. /\ r \in CallType /\ r.pc = pc /\ r.op = call.op /\ r.target = call.target
      /\ r.version = call.version /\ r.kind = call.kind /\ r.checkedAs = call.checkedAs
      /\ r.current = call.current /\ r.registered = call.registered
  BY DEF Asked, CallType
<1> QED
  BY <1>1 DEF Asked

LEMMA BeginKeepsInv ==
    ASSUME ProxyInv, NEW p \in Processes, NEW call \in Calls, Begin(p, call)
    PROVE  ProxyInv'
<1>1. Asked(call) /\ call \in CallType /\ call.op \in DOMAIN Path
  BY CallsAreAsked DEF Asked, CallType
<1>2. UNCHANGED <<contracts, manifest>>
  BY DEF Begin
<1>3. CASE call.op \in {"upgradeProxy", "changeProxyAdmin"}
  <2>1. PICK r : r = [call EXCEPT !.pc = "upgrader"]
    OBVIOUS
  <2>2. run' = [run EXCEPT ![p] = r]
    BY <1>3, <2>1 DEF Begin
  <2>3. Asked(r) /\ r.pc = "upgrader" /\ r.op = call.op
    BY <1>1, <2>1, AskedAt DEF Labels
  <2>4. CallInv(r)
    BY <1>3, <2>3, Starting, Paths
  <2> QED
    BY <1>2, <2>2, <2>3, <2>4, CallMoves DEF Asked
<1>4. CASE call.op = "deployProxy"
  <2>1. PICK r : r = [call EXCEPT !.pc = "kind"]
    OBVIOUS
  <2>2. run' = [run EXCEPT ![p] = r]
    BY <1>4, <2>1 DEF Begin
  <2>3. Asked(r) /\ r.pc = "kind" /\ r.op = call.op
    BY <1>1, <2>1, AskedAt DEF Labels
  <2>4. CallInv(r)
    BY <1>4, <2>3, Starting, Paths
  <2> QED
    BY <1>2, <2>2, <2>3, <2>4, CallMoves DEF Asked
<1>5. CASE call.op = "prepareUpgrade"
  <2>1. call.target \in Addresses
    BY <1>1, <1>5 DEF Asked
  <2>2. CASE IsTransparentOrUUPSProxy(call.target)
    <3>1. PICK r : r = [call EXCEPT !.pc = "kind"]
      OBVIOUS
    <3>2. run' = [run EXCEPT ![p] = r]
      BY <1>5, <2>2, <3>1 DEF Begin
    <3>3. Asked(r) /\ r.pc = "kind" /\ r.op = call.op
      BY <1>1, <3>1, AskedAt DEF Labels
    <3>4. CallInv(r)
      BY <1>5, <3>3, Starting, Paths
    <3> QED
      BY <1>2, <3>2, <3>3, <3>4, CallMoves DEF Asked
  <2>3. CASE ~IsTransparentOrUUPSProxy(call.target) /\ IsBeaconProxy(call.target)
    <3>1. PICK b : b = contracts[call.target].beacon
      OBVIOUS
    <3>2. b \in Addresses /\ b \in Nat \union {None}
      BY <2>1, <2>3, <3>1, ContractFields DEF ProxyInv, ContractsOK
    <3>3. PICK c : c = [call EXCEPT !.target = b]
      OBVIOUS
    <3>4. Asked(c) /\ c.op = call.op
      <4>1. /\ c \in CallType /\ c.op = call.op /\ c.target = b /\ c.version = call.version
            /\ c.registered = call.registered
        BY <1>1, <3>2, <3>3 DEF CallType
      <4> QED
        BY <1>1, <1>5, <3>2, <4>1 DEF Asked
    <3>5. PICK r : r = [c EXCEPT !.pc = "current"]
      OBVIOUS
    <3>6. r = [call EXCEPT !.pc = "current", !.target = b]
      BY <1>1, <3>3, <3>5 DEF CallType
    <3>7. run' = [run EXCEPT ![p] = r]
      BY <1>5, <2>3, <3>1, <3>6 DEF Begin
    <3>8. Asked(r) /\ r.pc = "current" /\ r.op = call.op
      BY <3>4, <3>5, AskedAt DEF Labels
    <3>9. CallInv(r)
      BY <1>5, <3>8, Starting, Paths
    <3> QED
      BY <1>2, <3>7, <3>8, <3>9, CallMoves DEF Asked
  <2>4. CASE ~IsTransparentOrUUPSProxy(call.target) /\ ~IsBeaconProxy(call.target)
    <3>1. PICK r : r = [call EXCEPT !.pc = "current"]
      OBVIOUS
    <3>2. run' = [run EXCEPT ![p] = r]
      BY <1>5, <2>4, <3>1 DEF Begin
    <3>3. Asked(r) /\ r.pc = "current" /\ r.op = call.op
      BY <1>1, <3>1, AskedAt DEF Labels
    <3>4. CallInv(r)
      BY <1>5, <3>3, Starting, Paths
    <3> QED
      BY <1>2, <3>2, <3>3, <3>4, CallMoves DEF Asked
  <2> QED
    BY <2>2, <2>3, <2>4
<1>6. CASE call.op \in {"forceImport", "upgradeBeacon"}
  <2>1. PICK r : r = [call EXCEPT !.pc = "current"]
    OBVIOUS
  <2>2. run' = [run EXCEPT ![p] = r]
    BY <1>6, <2>1 DEF Begin
  <2>3. Asked(r) /\ r.pc = "current" /\ r.op = call.op
    BY <1>1, <2>1, AskedAt DEF Labels
  <2>4. CallInv(r)
    BY <1>6, <2>3, Starting, Paths
  <2> QED
    BY <1>2, <2>2, <2>3, <2>4, CallMoves DEF Asked
<1>7. CASE call.op = "deployBeacon"
  <2>1. PICK r : r = [call EXCEPT !.pc = "check"]
    OBVIOUS
  <2>2. run' = [run EXCEPT ![p] = r]
    BY <1>7, <2>1 DEF Begin
  <2>3. Asked(r) /\ r.pc = "check" /\ r.op = call.op
    BY <1>1, <2>1, AskedAt DEF Labels
  <2>4. CallInv(r)
    BY <1>7, <2>3, Starting, Paths
  <2> QED
    BY <1>2, <2>2, <2>3, <2>4, CallMoves DEF Asked
<1>8. CASE call.op = "deployBeaconProxy"
  <2>1. CASE call.kind \in {None, "beacon"} /\ IsBeacon(call.target)
    <3>1. PICK c : c = [call EXCEPT !.kind = "beacon"]
      OBVIOUS
    <3>2. PICK r : r = [c EXCEPT !.pc = "send"]
      OBVIOUS
    <3>3. r = [call EXCEPT !.pc = "send", !.kind = "beacon"]
      BY <1>1, <3>1, <3>2 DEF CallType
    <3>4. run' = [run EXCEPT ![p] = r]
      BY <1>8, <2>1, <3>3 DEF Begin
    <3>5. c \in CallType /\ c.op = call.op /\ c.target = call.target /\ c.kind = "beacon"
      BY <1>1, <3>1 DEF CallType, Kinds
    <3>6. /\ r \in CallType /\ r.op = call.op /\ r.target = call.target /\ r.kind = "beacon"
          /\ r.pc = "send"
      BY <3>2, <3>5 DEF CallType, Labels
    <3>7. NamesTarget(r) /\ RecordsImpl(r) /\ ComparesLayouts(r) /\ KeepsKind(r)
      BY <1>1, <1>8, <2>1, <3>6 DEF NamesTarget, RecordsImpl, ComparesLayouts, KeepsKind, Asked
    <3>8. CallInv(r)
      BY <1>8, <3>6, <3>7, Paths DEF CallInv
    <3> QED
      BY <1>2, <3>4, <3>6, <3>8, CallMoves
  <2>2. CASE ~(call.kind \in {None, "beacon"} /\ IsBeacon(call.target))
    <3>1. Ends(p)
      BY <1>8, <2>2 DEF Begin, Ends
    <3> QED
      BY <1>2, <3>1, CallEnds
  <2> QED
    BY <2>1, <2>2
<1> QED
  BY <1>1, <1>3, <1>4, <1>5, <1>6, <1>7, <1>8, Paths

\* A call that differs in its step alone.
Moved(r, pc, n) ==
    /\ n \in CallType /\ n.pc = pc
    /\ n.op = r.op /\ n.target = r.target /\ n.version = r.version /\ n.kind = r.kind
    /\ n.checkedAs = r.checkedAs /\ n.skip = r.skip /\ n.allow = r.allow
    /\ n.current = r.current
    /\ n.registered = r.registered

LEMMA Goes ==
    ASSUME ProxyInv, NEW p \in Processes, run[p] \in CallType, NEW pc \in Labels, Goto(p, pc)
    PROVE  \E n : Moved(run[p], pc, n) /\ run' = [run EXCEPT ![p] = n]
<1>1. PICK r : r = run[p]
  OBVIOUS
<1>2. PICK n : n = [r EXCEPT !.pc = pc]
  OBVIOUS
<1>3. Moved(r, pc, n)
  BY <1>1, <1>2 DEF Moved, CallType
<1>4. run' = [run EXCEPT ![p] = n]
  BY <1>1, <1>2 DEF Goto
<1> QED
  BY <1>1, <1>3, <1>4

LEMMA GetUpgraderKeepsInv ==
    ASSUME ProxyInv, NEW p \in Processes, GetUpgrader(p)
    PROVE  ProxyInv'
<1>1. run[p].pc = "upgrader" /\ UNCHANGED <<contracts, manifest>>
  BY DEF GetUpgrader
<1>2. PICK r : r = run[p]
  OBVIOUS
<1>3. /\ r \in CallType /\ r.op \in DOMAIN Path /\ r.pc \in Path[r.op]
      /\ NamesTarget(r) /\ RecordsImpl(r) /\ ComparesLayouts(r) /\ KeepsKind(r)
  BY <1>1, <1>2, Running
<1>4. r.op \in {"upgradeProxy", "changeProxyAdmin"}
  BY <1>1, <1>2, <1>3, Paths
<1>5. CASE r.op = "changeProxyAdmin" /\ Goto(p, "send")
  <2>1. PICK n : Moved(r, "send", n) /\ run' = [run EXCEPT ![p] = n]
    BY <1>2, <1>3, <1>5, Goes DEF Labels
  <2>2. NamesTarget(n) /\ RecordsImpl(n) /\ ComparesLayouts(n) /\ KeepsKind(n)
    BY <1>3, <1>5, <2>1 DEF Moved, NamesTarget, RecordsImpl, ComparesLayouts, KeepsKind
  <2>3. CallInv(n) /\ n \in CallType
    BY <1>5, <2>1, <2>2, Paths DEF Moved, CallInv
  <2> QED
    BY <1>1, <2>1, <2>3, CallMoves
<1>6. CASE r.op = "upgradeProxy" /\ Goto(p, "kind")
  <2>1. PICK n : Moved(r, "kind", n) /\ run' = [run EXCEPT ![p] = n]
    BY <1>2, <1>3, <1>6, Goes DEF Labels
  <2>2. NamesTarget(n) /\ RecordsImpl(n) /\ ComparesLayouts(n) /\ KeepsKind(n)
    BY <1>1, <1>2, <1>3, <1>6, <2>1 DEF Moved, NamesTarget, RecordsImpl, ComparesLayouts, KeepsKind
  <2>3. CallInv(n) /\ n \in CallType
    BY <1>6, <2>1, <2>2, Paths DEF Moved, CallInv
  <2> QED
    BY <1>1, <2>1, <2>3, CallMoves
<1>7. CASE Ends(p)
  BY <1>1, <1>7, CallEnds
<1> QED
  BY <1>2, <1>4, <1>5, <1>6, <1>7 DEF GetUpgrader

LEMMA ProcessProxyKindKeepsInv ==
    ASSUME ProxyInv, NEW p \in Processes, ProcessProxyKind(p)
    PROVE  ProxyInv'
<1>1. run[p].pc = "kind" /\ UNCHANGED <<contracts, manifest>>
  BY DEF ProcessProxyKind
<1>2. PICK r : r = run[p]
  OBVIOUS
<1>3. /\ r \in CallType /\ r.op \in DOMAIN Path /\ r.pc \in Path[r.op]
      /\ NamesTarget(r) /\ RecordsImpl(r) /\ ComparesLayouts(r) /\ KeepsKind(r)
  BY <1>1, <1>2, Running
<1>4. r.op \in {"deployProxy", "upgradeProxy", "prepareUpgrade"}
  BY <1>1, <1>2, <1>3, Paths
<1>5. PICK kind : kind = IF r.kind # None THEN r.kind
                         ELSE IF r.target # None /\ IsBeaconProxy(r.target) THEN "beacon"
                         ELSE InferProxyKind(r.version)
  OBVIOUS
<1>6. PICK registered : registered = IF r.target = None THEN None ELSE RegisteredKind(r.target)
  OBVIOUS
<1>7. PICK pc : pc = IF r.target = None THEN "check" ELSE "current"
  OBVIOUS
<1>8. CASE ~(KindsAgree(kind, registered) /\ kind # "beacon")
  <2>1. Ends(p)
    BY <1>2, <1>5, <1>6, <1>8 DEF ProcessProxyKind
  <2> QED
    BY <1>1, <2>1, CallEnds
<1>9. CASE KindsAgree(kind, registered) /\ kind # "beacon"
  <2>1. kind \in {"transparent", "uups"} /\ registered \in {None, kind}
    BY <1>3, <1>5, <1>9 DEF CallType, Kinds, InferProxyKind, KindsAgree
  <2>2. PICK k : k = [r EXCEPT !.kind = kind]
    OBVIOUS
  <2>3. PICK g : g = [k EXCEPT !.registered = registered]
    OBVIOUS
  <2>4. PICK n : n = [g EXCEPT !.pc = pc]
    OBVIOUS
  <2>5. run' = [run EXCEPT ![p].kind = kind, ![p].registered = registered, ![p].pc = pc]
    BY <1>2, <1>5, <1>6, <1>7, <1>9 DEF ProcessProxyKind
  <2>6. run' = [run EXCEPT ![p] = n]
    BY <1>2, <2>2, <2>3, <2>4, <2>5 DEF ProxyInv
  <2>7. /\ n \in CallType /\ n.pc = pc /\ n.op = r.op /\ n.target = r.target
        /\ n.version = r.version /\ n.kind = kind /\ n.checkedAs = r.checkedAs
        /\ n.registered = registered
    BY <1>3, <1>7, <2>1, <2>2, <2>3, <2>4 DEF CallType, Labels, Kinds
  <2>8. r.target \in Addresses => r.target # None
    BY ContractFields, ProxyAssumption DEF ProxyInv
  <2>9. IF r.op = "deployProxy" THEN pc = "check" ELSE pc = "current"
    BY <1>1, <1>2, <1>3, <1>4, <1>7, <2>8 DEF NamesTarget
  <2>10. NamesTarget(n) /\ RecordsImpl(n) /\ ComparesLayouts(n)
    BY <1>1, <1>2, <1>3, <1>4, <2>7, <2>9 DEF NamesTarget, RecordsImpl, ComparesLayouts
  <2>11. ASSUME r.op = "upgradeProxy", registered = "uups"
         PROVE  r.checkedAs = "uups" \/ r.version \in HasUpgradeTo
    <3>1. kind = "uups"
      BY <2>1, <2>11, ProxyAssumption
    <3>2. r.kind \in {None, r.checkedAs}
      BY <1>1, <1>2, <1>3, <2>11 DEF KeepsKind
    <3> QED
      BY <1>5, <3>1, <3>2 DEF InferProxyKind
  <2>12. KeepsKind(n)
    BY <1>4, <2>1, <2>7, <2>9, <2>11 DEF KeepsKind
  <2>13. CallInv(n)
    BY <1>4, <2>7, <2>9, <2>10, <2>12, Paths DEF CallInv
  <2> QED
    BY <1>1, <2>6, <2>7, <2>13, CallMoves
<1> QED
  BY <1>8, <1>9

LEMMA ReadCurrentKeepsInv ==
    ASSUME ProxyInv, NEW p \in Processes, ReadCurrent(p)
    PROVE  ProxyInv'
<1>1. run[p].pc = "current" /\ UNCHANGED <<contracts, manifest>>
  BY DEF ReadCurrent
<1>2. PICK r : r = run[p]
  OBVIOUS
<1>3. /\ r \in CallType /\ r.op \in DOMAIN Path /\ r.pc \in Path[r.op]
      /\ NamesTarget(r) /\ RecordsImpl(r) /\ ComparesLayouts(r) /\ KeepsKind(r)
  BY <1>1, <1>2, Running
<1>4. r.op \in {"upgradeProxy", "prepareUpgrade", "forceImport", "upgradeBeacon"}
  BY <1>1, <1>2, <1>3, Paths
<1>5. CASE ~IsRightTarget(p)
  <2>1. Ends(p)
    BY <1>5 DEF ReadCurrent
  <2> QED
    BY <1>1, <2>1, CallEnds
<1>6. CASE IsRightTarget(p)
  <2>1. PICK current : current = ImplBehind(r.target)
    OBVIOUS
  <2>2. PICK version : version = IF r.op = "forceImport" THEN current ELSE r.version
    OBVIOUS
  <2>3. PICK pc : pc = IF r.op = "forceImport" THEN "impl" ELSE "check"
    OBVIOUS
  <2>4. r.target \in Addresses
    BY <1>3, <1>4 DEF NamesTarget
  <2>5. current \in Versions
    <3>1. CASE IsBeaconProxy(r.target)
      BY <2>1, <2>4, <3>1 DEF ImplBehind, ProxyInv, ContractsOK, IsBeacon, IsBeaconProxy
    <3>2. CASE ~IsBeaconProxy(r.target)
      BY <2>1, <2>4, <3>2 DEF ImplBehind, ProxyInv, ContractsOK
    <3> QED
      BY <3>1, <3>2
  <2>6. PICK c : c = [r EXCEPT !.current = current]
    OBVIOUS
  <2>7. PICK v : v = [c EXCEPT !.version = version]
    OBVIOUS
  <2>8. PICK n : n = [v EXCEPT !.pc = pc]
    OBVIOUS
  <2>9. run' = [run EXCEPT ![p].current = current, ![p].version = version, ![p].pc = pc]
    BY <1>2, <1>6, <2>1, <2>2, <2>3 DEF ReadCurrent
  <2>10. run' = [run EXCEPT ![p] = n]
    BY <1>2, <2>6, <2>7, <2>8, <2>9 DEF ProxyInv
  <2>11. version \in Versions
    BY <1>3, <1>4, <2>2, <2>5 DEF NamesTarget
  <2>12. /\ n \in CallType /\ n.pc = pc /\ n.op = r.op /\ n.target = r.target
         /\ n.version = version /\ n.kind = r.kind /\ n.checkedAs = r.checkedAs
         /\ n.current = current /\ n.registered = r.registered
    BY <1>3, <2>3, <2>5, <2>6, <2>7, <2>8, <2>11 DEF CallType, Labels
  <2>13. r.op \in {"upgradeProxy", "upgradeBeacon"} => ~IsBeaconProxy(r.target)
    BY <1>2, <1>6 DEF IsRightTarget, IsTransparentOrUUPSProxy, IsBeacon, IsBeaconProxy
  <2>14. NamesTarget(n)
    BY <1>4, <2>4, <2>11, <2>12, <2>13 DEF NamesTarget
  <2>15. RecordsImpl(n)
    BY <1>4, <2>1, <2>2, <2>3, <2>4, <2>12 DEF RecordsImpl, HasLayout, ImplBehind
  <2>16. ComparesLayouts(n)
    BY <1>4, <2>3, <2>5, <2>12 DEF ComparesLayouts
  <2>17. KeepsKind(n)
    BY <1>1, <1>2, <1>3, <1>4, <2>2, <2>3, <2>12 DEF KeepsKind
  <2>18. CallInv(n)
    BY <1>4, <2>3, <2>12, <2>14, <2>15, <2>16, <2>17, Paths DEF CallInv
  <2> QED
    BY <1>1, <2>10, <2>12, <2>18, CallMoves
<1> QED
  BY <1>5, <1>6

LEMMA CheckKeepsInv ==
    ASSUME ProxyInv, NEW p \in Processes, Check(p)
    PROVE  ProxyInv'
<1>1. run[p].pc = "check" /\ UNCHANGED <<contracts, manifest>>
  BY DEF Check
<1>2. PICK r : r = run[p]
  OBVIOUS
<1>3. /\ r \in CallType /\ r.op \in DOMAIN Path /\ r.pc \in Path[r.op]
      /\ NamesTarget(r) /\ RecordsImpl(r) /\ ComparesLayouts(r) /\ KeepsKind(r)
  BY <1>1, <1>2, Running
<1>4. r.op \in {"deployProxy", "upgradeProxy", "prepareUpgrade", "deployBeacon", "upgradeBeacon"}
  BY <1>1, <1>2, <1>3, Paths
<1>5. CASE IsUpgradeSafe(r) /\ IsStorageSafe(r)
  <2>1. Goto(p, "impl")
    BY <1>2, <1>5 DEF Check
  <2>2. PICK n : Moved(r, "impl", n) /\ run' = [run EXCEPT ![p] = n]
    BY <1>2, <1>3, <2>1, Goes DEF Labels
  <2>3. NamesTarget(n) /\ RecordsImpl(n)
    BY <1>1, <1>2, <1>3, <1>4, <2>2 DEF Moved, NamesTarget, RecordsImpl
  <2>4. ComparesLayouts(n)
    <3> SUFFICES ASSUME r.op \in {"upgradeProxy", "upgradeBeacon"}
                 PROVE  r.current \in Versions /\ (r.skip \/ <<r.current, r.version>> \in Compatible)
      BY <2>2 DEF Moved, ComparesLayouts
    <3>1. r.current \in Versions
      BY <1>1, <1>2, <1>3 DEF ComparesLayouts
    <3> QED
      BY <1>5, <3>1, ProxyAssumption DEF IsStorageSafe
  <2>5. KeepsKind(n)
    BY <1>1, <1>2, <1>3, <1>5, <2>2 DEF Moved, KeepsKind, IsUpgradeSafe
  <2>6. CallInv(n) /\ n \in CallType
    BY <1>4, <2>2, <2>3, <2>4, <2>5, Paths DEF Moved, CallInv
  <2> QED
    BY <1>1, <2>2, <2>6, CallMoves
<1>6. CASE ~(IsUpgradeSafe(r) /\ IsStorageSafe(r))
  <2>1. Ends(p)
    BY <1>2, <1>6 DEF Check
  <2> QED
    BY <1>1, <2>1, CallEnds
<1> QED
  BY <1>5, <1>6

\* A step that writes the manifest or the chain.
LEMMA CallWrites ==
    ASSUME ProxyInv, Grows, NEW p \in Processes, NEW r,
           run' = [run EXCEPT ![p] = r], r \in CallType \union {Idle}, CallInv(r)',
           ContractsOK', ManifestOK', RegisteredHaveLayouts'
    PROVE  ProxyInv'
<1>1. /\ run' \in [Processes -> CallType \union {Idle}]
      /\ \A q \in Processes : CallInv(run[q])'
  BY CallsStay
<1> QED
  BY <1>1 DEF ProxyInv

LEMMA CallEndsWriting ==
    ASSUME ProxyInv, Grows, NEW p \in Processes, Ends(p),
           ContractsOK', ManifestOK', RegisteredHaveLayouts'
    PROVE  ProxyInv'
<1>1. PICK r : r = Idle
  OBVIOUS
<1>2. CallInv(r)' /\ r \in CallType \union {Idle}
  BY <1>1, IdleInv
<1>3. run' = [run EXCEPT ![p] = r]
  BY <1>1 DEF Ends
<1> QED
  BY <1>2, <1>3, CallWrites

LEMMA DeployImplKeepsInv ==
    ASSUME ProxyInv, NEW p \in Processes, DeployImpl(p)
    PROVE  ProxyInv'
<1>1. run[p].pc = "impl" /\ UNCHANGED <<contracts, admin, proxies>>
  BY DEF DeployImpl
<1>2. PICK r : r = run[p]
  OBVIOUS
<1>3. /\ r \in CallType /\ r.op \in DOMAIN Path /\ r.pc \in Path[r.op]
      /\ NamesTarget(r) /\ RecordsImpl(r) /\ ComparesLayouts(r) /\ KeepsKind(r)
  BY <1>1, <1>2, Running
<1>4. impls' = impls \union {r.version}
  BY <1>2 DEF DeployImpl, WithImpl
<1>5. Grows
  BY <1>1, <1>4 DEF Grows, Addresses
<1>6. ContractsOK' /\ ManifestOK' /\ RegisteredHaveLayouts'
  BY <1>1, <1>4 DEF ProxyInv, ContractsOK, ManifestOK, RegisteredHaveLayouts, Addresses, IsBeacon,
                    IsBeaconProxy
<1>7. ASSUME NEW pc \in {"send", "admin", "importkind"}, Goto(p, pc), r.op # "prepareUpgrade",
             pc = "admin" <=> (r.op = "deployProxy" /\ r.kind = "transparent"),
             pc = "importkind" <=> r.op = "forceImport"
      PROVE  ProxyInv'
  <2>1. PICK n : Moved(r, pc, n) /\ run' = [run EXCEPT ![p] = n]
    BY <1>2, <1>3, <1>7, Goes DEF Labels
  <2>2. r.op \in {"deployProxy", "upgradeProxy", "forceImport", "deployBeacon", "upgradeBeacon"}
    BY <1>1, <1>2, <1>3, <1>7, Paths
  <2>3. NamesTarget(n)'
    BY <1>1, <1>2, <1>3, <1>7, <2>1, <2>2 DEF Moved, NamesTarget, Addresses, IsBeaconProxy
  <2>4. r.op = "forceImport" => HasLayout(r.target)'
    BY <1>1, <1>2, <1>3, <1>4 DEF RecordsImpl, HasLayout, IsBeaconProxy
  <2>5. RecordsImpl(n)'
    BY <1>4, <1>7, <2>1, <2>2, <2>4 DEF Moved, RecordsImpl
  <2>6. ComparesLayouts(n)' /\ KeepsKind(n)'
    BY <1>1, <1>2, <1>3, <1>7, <2>1, <2>2 DEF Moved, ComparesLayouts, KeepsKind
  <2>7. n.pc \in Path[n.op]
    BY <1>7, <2>1, <2>2, Paths DEF Moved
  <2>8. CallInv(n)' /\ n \in CallType
    BY <2>1, <2>3, <2>5, <2>6, <2>7 DEF Moved, CallInv
  <2> QED
    BY <1>5, <1>6, <2>1, <2>8, CallWrites
<1>8. CASE Ends(p)
  BY <1>5, <1>6, <1>8, CallEndsWriting
<1>9. CASE r.op = "deployProxy" /\ r.kind = "transparent" /\ Goto(p, "admin")
  BY <1>7, <1>9
<1>10. CASE r.op = "forceImport" /\ Goto(p, "importkind")
  BY <1>7, <1>10
<1>11. CASE /\ r.op \notin {"prepareUpgrade", "forceImport"}
            /\ ~(r.op = "deployProxy" /\ r.kind = "transparent") /\ Goto(p, "send")
  BY <1>7, <1>11
<1> QED
  BY <1>2, <1>8, <1>9, <1>10, <1>11 DEF DeployImpl

LEMMA ChooseImportKindKeepsInv ==
    ASSUME ProxyInv, NEW p \in Processes, ChooseImportKind(p)
    PROVE  ProxyInv'
<1>1. run[p].pc = "importkind" /\ UNCHANGED <<contracts, manifest>>
  BY DEF ChooseImportKind
<1>2. PICK r : r = run[p]
  OBVIOUS
<1>3. /\ r \in CallType /\ r.op \in DOMAIN Path /\ r.pc \in Path[r.op]
      /\ NamesTarget(r) /\ RecordsImpl(r) /\ ComparesLayouts(r) /\ KeepsKind(r)
  BY <1>1, <1>2, Running
<1>4. r.op = "forceImport"
  BY <1>1, <1>2, <1>3, Paths
<1>5. PICK kind : kind = ImportKind(r)
  OBVIOUS
<1>6. kind \in Kinds
  BY <1>3, <1>5 DEF ImportKind, InferProxyKind, CallType, Kinds
<1>7. PICK pc : pc = IF kind = "transparent" THEN "admin" ELSE "register"
  OBVIOUS
<1>8. PICK k : k = [r EXCEPT !.kind = kind]
  OBVIOUS
<1>9. PICK n : n = [k EXCEPT !.pc = pc]
  OBVIOUS
<1>10. run' = [run EXCEPT ![p].kind = kind, ![p].pc = pc]
  BY <1>2, <1>5, <1>7 DEF ChooseImportKind
<1>11. run' = [run EXCEPT ![p] = n]
  BY <1>2, <1>8, <1>9, <1>10 DEF ProxyInv
<1>12. n \in CallType /\ n.pc = pc /\ n.op = r.op /\ n.target = r.target /\ n.kind = kind
  BY <1>3, <1>6, <1>7, <1>8, <1>9 DEF CallType, Labels
<1>13. r.target \in Addresses /\ HasLayout(r.target)
  BY <1>1, <1>2, <1>3, <1>4 DEF NamesTarget, RecordsImpl
<1>14. NamesTarget(n) /\ RecordsImpl(n) /\ ComparesLayouts(n) /\ KeepsKind(n)
  BY <1>4, <1>6, <1>7, <1>12, <1>13 DEF NamesTarget, RecordsImpl, ComparesLayouts, KeepsKind
<1>15. CallInv(n)
  BY <1>4, <1>7, <1>12, <1>14, Paths DEF CallInv
<1> QED
  BY <1>1, <1>11, <1>12, <1>15, CallMoves

LEMMA DeployAdminKeepsInv ==
    ASSUME ProxyInv, NEW p \in Processes, DeployAdmin(p)
    PROVE  ProxyInv'
<1>1. run[p].pc = "admin" /\ UNCHANGED <<contracts, impls, proxies>>
  BY DEF DeployAdmin
<1>2. PICK r : r = run[p]
  OBVIOUS
<1>3. /\ r \in CallType /\ r.op \in DOMAIN Path /\ r.pc \in Path[r.op]
      /\ NamesTarget(r) /\ RecordsImpl(r) /\ ComparesLayouts(r) /\ KeepsKind(r)
  BY <1>1, <1>2, Running
<1>4. r.op \in {"deployProxy", "forceImport"}
  BY <1>1, <1>2, <1>3, Paths
<1>5. Grows
  BY <1>1 DEF Grows, Addresses
<1>6. admin' \in Admins
  <2>1. r.op = "forceImport" => contracts[r.target].admin \in Admins
    BY <1>3, ContractFields DEF NamesTarget, ProxyInv
  <2> QED
    BY <1>2, <1>4, <2>1 DEF DeployAdmin, ProxyInv, ManifestOK, Admins
<1>7. ContractsOK' /\ ManifestOK' /\ RegisteredHaveLayouts'
  BY <1>1, <1>6 DEF ProxyInv, ContractsOK, ManifestOK, RegisteredHaveLayouts, Addresses, IsBeacon,
                    IsBeaconProxy
<1>8. CASE r.op = "deployProxy" /\ Goto(p, "send")
  <2>1. PICK n : Moved(r, "send", n) /\ run' = [run EXCEPT ![p] = n]
    BY <1>2, <1>3, <1>8, Goes DEF Labels
  <2>2. NamesTarget(n) /\ RecordsImpl(n) /\ ComparesLayouts(n) /\ KeepsKind(n)
    BY <1>1, <1>2, <1>3, <1>8, <2>1 DEF Moved, NamesTarget, RecordsImpl, ComparesLayouts, KeepsKind
  <2>3. CallInv(n) /\ n \in CallType
    BY <1>8, <2>1, <2>2, Paths DEF Moved, CallInv
  <2>4. CallInv(n)'
    BY <1>5, <2>3, CallStays
  <2> QED
    BY <1>5, <1>7, <2>1, <2>3, <2>4, CallWrites
<1>9. CASE r.op = "forceImport" /\ Goto(p, "register")
  <2>1. PICK n : Moved(r, "register", n) /\ run' = [run EXCEPT ![p] = n]
    BY <1>2, <1>3, <1>9, Goes DEF Labels
  <2>2. r.target \in Addresses /\ HasLayout(r.target) /\ r.kind \in Kinds
    BY <1>1, <1>2, <1>3, <1>9 DEF NamesTarget, RecordsImpl, KeepsKind, Kinds
  <2>3. NamesTarget(n) /\ RecordsImpl(n) /\ ComparesLayouts(n) /\ KeepsKind(n)
    BY <1>9, <2>1, <2>2 DEF Moved, NamesTarget, RecordsImpl, ComparesLayouts, KeepsKind
  <2>4. CallInv(n) /\ n \in CallType
    BY <1>9, <2>1, <2>3, Paths DEF Moved, CallInv
  <2>5. CallInv(n)'
    BY <1>5, <2>4, CallStays
  <2> QED
    BY <1>5, <1>7, <2>1, <2>4, <2>5, CallWrites
<1>10. CASE Ends(p)
  BY <1>5, <1>7, <1>10, CallEndsWriting
<1> QED
  BY <1>2, <1>4, <1>8, <1>9, <1>10 DEF DeployAdmin

LEMMA CreateContractKeepsInv ==
    ASSUME ProxyInv, NEW p \in Processes, CreateContract(p)
    PROVE  ProxyInv'
<1>1. run[p].pc = "send" /\ UNCHANGED manifest
  BY DEF CreateContract
<1>2. PICK r : r = run[p]
  OBVIOUS
<1>3. /\ r \in CallType /\ r.op \in DOMAIN Path /\ r.pc \in Path[r.op]
      /\ NamesTarget(r) /\ RecordsImpl(r) /\ ComparesLayouts(r) /\ KeepsKind(r)
  BY <1>1, <1>2, Running
<1>4. contracts \in Seq(ContractType) /\ Addresses = 1 .. Len(contracts) /\ Len(contracts) \in Nat
  BY DEF ProxyInv, ContractsOK, Addresses
<1>5. ASSUME NEW c \in ContractType, Create(p, c),
             IF c.type = "beaconproxy" THEN c.beacon \in Addresses /\ IsBeacon(c.beacon)
             ELSE c.impl \in Versions,
             r.op \in {"deployProxy", "deployBeacon", "deployBeaconProxy"},
             c.type = "beacon" <=> r.op = "deployBeacon",
             c.type = "beaconproxy" \/ c.impl \in impls, r.kind \in Kinds \/ r.op = "deployBeacon"
      PROVE  ProxyInv'
  <2>1. PICK new : new = Len(contracts) + 1
    OBVIOUS
  <2>2. /\ contracts' \in Seq(ContractType) /\ Addresses' = Addresses \union {new}
        /\ contracts'[new] = c /\ new \in Nat /\ new \notin Addresses
        /\ \A a \in Addresses : contracts'[a] = contracts[a]
    BY <1>4, <1>5, <2>1 DEF Create, Addresses
  <2>3. Grows
    BY <1>1, <2>2 DEF Grows, manifest
  <2>4. ASSUME NEW a \in Addresses, IsBeacon(a)
        PROVE  IsBeacon(a)'
    BY <2>2, <2>4 DEF IsBeacon
  <2>5. ContractsOK'
    <3>1. ASSUME NEW a \in Addresses'
          PROVE  IF IsBeaconProxy(a)' THEN contracts'[a].beacon \in Addresses' /\ IsBeacon(contracts[a].beacon)'
                 ELSE contracts'[a].impl \in Versions
      <4>1. CASE a \in Addresses
        <5>1. contracts'[a] = contracts[a]
          BY <2>2, <4>1
        <5>2. IF IsBeaconProxy(a) THEN contracts[a].beacon \in Addresses /\ IsBeacon(contracts[a].beacon)
              ELSE contracts[a].impl \in Versions
          BY <4>1 DEF ProxyInv, ContractsOK
        <5> QED
          BY <2>2, <2>4, <5>1, <5>2 DEF IsBeaconProxy, IsBeacon
      <4>2. CASE a = new
        BY <1>5, <2>2, <2>4, <4>2 DEF IsBeaconProxy, IsBeacon
      <4> QED
        BY <2>2, <4>1, <4>2
    <3> QED
      BY <2>2, <3>1 DEF ContractsOK
  <2>6. ManifestOK' /\ RegisteredHaveLayouts'
    BY <1>1, <2>2 DEF ProxyInv, ManifestOK, RegisteredHaveLayouts, manifest, IsBeaconProxy
  <2>7. CASE c.type = "beacon"
    <3>1. Ends(p)
      BY <1>5, <2>7 DEF Create
    <3> QED
      BY <2>3, <2>5, <2>6, <3>1, CallEndsWriting
  <2>8. CASE c.type # "beacon"
    <3>1. PICK t : t = [r EXCEPT !.target = new]
      OBVIOUS
    <3>2. PICK n : n = [t EXCEPT !.pc = "register"]
      OBVIOUS
    <3>3. run' = [run EXCEPT ![p].pc = "register", ![p].target = new]
      BY <1>5, <2>1, <2>8 DEF Create
    <3>4. n = [r EXCEPT !.pc = "register", !.target = new]
      BY <1>3, <3>1, <3>2 DEF CallType
    <3>5. run' = [run EXCEPT ![p] = n]
      BY <1>2, <3>3, <3>4 DEF ProxyInv
    <3>6. /\ n \in CallType /\ n.pc = "register" /\ n.op = r.op /\ n.target = new
          /\ n.version = r.version /\ n.kind = r.kind
      BY <1>3, <2>2, <3>1, <3>2 DEF CallType, Labels
    <3>7. r.op \in {"deployProxy", "deployBeaconProxy"}
      BY <1>5, <2>8
    <3>8. HasLayout(new)'
      BY <1>1, <1>5, <2>2 DEF HasLayout, IsBeaconProxy, manifest
    <3>9. NamesTarget(n)' /\ RecordsImpl(n)' /\ ComparesLayouts(n)' /\ KeepsKind(n)'
      BY <1>3, <1>5, <2>2, <3>6, <3>7, <3>8 DEF NamesTarget, RecordsImpl, ComparesLayouts, KeepsKind
    <3>10. CallInv(n)'
      BY <3>6, <3>7, <3>9, Paths DEF CallInv
    <3> QED
      BY <2>3, <2>5, <2>6, <3>5, <3>6, <3>10, CallWrites
  <2> QED
    BY <2>7, <2>8
<1>6. None \in Admins /\ admin \in Admins
  BY DEF Admins, ProxyInv, ManifestOK
<1>7. CASE r.op = "deployProxy"
  <2>1. PICK adm \in Admins : adm = IF r.kind = "transparent" THEN admin ELSE None
    BY <1>6
  <2>2. PICK c : c = Contract(r.kind, r.version, adm, None)
    OBVIOUS
  <2>3. r.kind \in {"transparent", "uups"} /\ r.version \in Versions /\ r.version \in impls
    BY <1>1, <1>2, <1>3, <1>7 DEF NamesTarget, RecordsImpl, KeepsKind
  <2>4. c \in ContractType /\ c.type = r.kind /\ c.impl = r.version
    BY <2>2, <2>3 DEF Contract, ContractType, Kinds
  <2>5. Create(p, c)
    BY <1>2, <1>7, <2>1, <2>2 DEF CreateContract
  <2> QED
    BY <1>5, <1>7, <2>3, <2>4, <2>5 DEF Kinds
<1>8. CASE r.op = "deployBeacon"
  <2>1. PICK c : c = Contract("beacon", r.version, None, None)
    OBVIOUS
  <2>2. r.version \in Versions /\ r.version \in impls
    BY <1>1, <1>2, <1>3, <1>8 DEF NamesTarget, RecordsImpl
  <2>3. c \in ContractType /\ c.type = "beacon" /\ c.impl = r.version
    BY <1>6, <2>1, <2>2 DEF Contract, ContractType, Kinds
  <2>4. Create(p, c)
    BY <1>2, <1>8, <2>1 DEF CreateContract
  <2> QED
    BY <1>5, <1>8, <2>2, <2>3, <2>4
<1>9. CASE r.op = "deployBeaconProxy"
  <2>1. PICK c : c = Contract("beaconproxy", None, None, r.target)
    OBVIOUS
  <2>2. r.target \in Addresses /\ IsBeacon(r.target) /\ r.kind = "beacon"
    BY <1>1, <1>2, <1>3, <1>9 DEF NamesTarget, KeepsKind
  <2>3. c \in ContractType /\ c.type = "beaconproxy" /\ c.beacon = r.target
    BY <1>4, <1>6, <2>1, <2>2 DEF Contract, ContractType, Kinds
  <2>4. Create(p, c)
    BY <1>2, <1>9, <2>1 DEF CreateContract
  <2> QED
    BY <1>5, <1>9, <2>2, <2>3, <2>4 DEF Kinds
<1> QED
  BY <1>2, <1>7, <1>8, <1>9 DEF CreateContract

LEMMA UpgradeKeepsInv ==
    ASSUME ProxyInv, NEW p \in Processes, Upgrade(p)
    PROVE  ProxyInv'
<1>1. run[p].pc = "send" /\ run[p].op \in {"upgradeProxy", "upgradeBeacon"} /\ UNCHANGED manifest
  BY DEF Upgrade
<1>2. PICK r : r = run[p]
  OBVIOUS
<1>3. NamesTarget(r) /\ RecordsImpl(r)
  BY <1>1, <1>2, Running
<1>4. PICK a : a = r.target
  OBVIOUS
<1>5. a \in Addresses /\ r.version \in Versions /\ r.version \in impls /\ ~IsBeaconProxy(a)
  BY <1>1, <1>2, <1>3, <1>4 DEF NamesTarget, RecordsImpl
<1>6. CASE contracts' = contracts
  <2>1. Ends(p) /\ UNCHANGED <<contracts, manifest>>
    BY <1>1, <1>6 DEF Upgrade
  <2> QED
    BY <2>1, CallEnds
<1>7. CASE contracts' = [contracts EXCEPT ![a].impl = r.version]
  <2>1. contracts[a] \in ContractType
    BY <1>5, ContractFields DEF ProxyInv
  <2>2. PICK c : c = [contracts[a] EXCEPT !.impl = r.version]
    OBVIOUS
  <2>3. /\ c \in ContractType /\ c.impl = r.version /\ c.type = contracts[a].type
        /\ c.beacon = contracts[a].beacon
    BY <1>5, <2>1, <2>2 DEF ContractType
  <2>4. contracts' = [contracts EXCEPT ![a] = c]
    BY <1>7, <2>2
  <2>5. contracts \in Seq(ContractType)
    BY DEF ProxyInv, ContractsOK
  <2>6. /\ contracts' \in Seq(ContractType) /\ Addresses' = Addresses
        /\ contracts'[a] = c /\ \A b \in Addresses : b # a => contracts'[b] = contracts[b]
    BY <1>5, <2>3, <2>4, <2>5 DEF Addresses
  <2>7. Grows
    BY <1>1, <1>5, <2>3, <2>6 DEF Grows, manifest
  <2>8. \A b \in Addresses : /\ contracts'[b].type = contracts[b].type
                            /\ contracts'[b].beacon = contracts[b].beacon
    BY <2>3, <2>6
  <2>9. ContractsOK'
    BY <1>5, <2>3, <2>6, <2>8 DEF ProxyInv, ContractsOK, IsBeacon, IsBeaconProxy
  <2>10. ManifestOK' /\ RegisteredHaveLayouts'
    BY <1>1, <1>5, <2>3, <2>6, <2>8 DEF ProxyInv, ManifestOK, RegisteredHaveLayouts, manifest,
                                       IsBeaconProxy
  <2>11. Ends(p)
    BY DEF Upgrade
  <2> QED
    BY <2>7, <2>9, <2>10, <2>11, CallEndsWriting
<1> QED
  BY <1>2, <1>4, <1>6, <1>7 DEF Upgrade

LEMMA ChangeProxyAdminKeepsInv ==
    ASSUME ProxyInv, NEW p \in Processes, ChangeProxyAdmin(p)
    PROVE  ProxyInv'
<1>1. run[p].pc = "send" /\ run[p].op = "changeProxyAdmin" /\ UNCHANGED manifest
  BY DEF ChangeProxyAdmin
<1>2. PICK r : r = run[p]
  OBVIOUS
<1>3. NamesTarget(r)
  BY <1>1, <1>2, Running
<1>4. PICK a : a = r.target
  OBVIOUS
<1>5. a \in Addresses /\ r.current \in Admins
  BY <1>1, <1>2, <1>3, <1>4 DEF NamesTarget
<1>6. CASE contracts' = contracts
  <2>1. Ends(p) /\ UNCHANGED <<contracts, manifest>>
    BY <1>1, <1>6 DEF ChangeProxyAdmin
  <2> QED
    BY <2>1, CallEnds
<1>7. CASE contracts' = [contracts EXCEPT ![a].admin = r.current]
  <2>1. contracts[a] \in ContractType
    BY <1>5, ContractFields DEF ProxyInv
  <2>2. PICK c : c = [contracts[a] EXCEPT !.admin = r.current]
    OBVIOUS
  <2>3. /\ c \in ContractType /\ c.impl = contracts[a].impl /\ c.type = contracts[a].type
        /\ c.beacon = contracts[a].beacon
    BY <1>5, <2>1, <2>2 DEF ContractType
  <2>4. contracts' = [contracts EXCEPT ![a] = c]
    BY <1>7, <2>2
  <2>5. contracts \in Seq(ContractType)
    BY DEF ProxyInv, ContractsOK
  <2>6. /\ contracts' \in Seq(ContractType) /\ Addresses' = Addresses
        /\ contracts'[a] = c /\ \A b \in Addresses : b # a => contracts'[b] = contracts[b]
    BY <1>5, <2>3, <2>4, <2>5 DEF Addresses
  <2>7. \A b \in Addresses : /\ contracts'[b].type = contracts[b].type
                            /\ contracts'[b].impl = contracts[b].impl
                            /\ contracts'[b].beacon = contracts[b].beacon
    BY <2>3, <2>6
  <2>8. Grows
    BY <1>1, <2>6, <2>7 DEF Grows, manifest
  <2>9. ContractsOK'
    BY <2>6, <2>7 DEF ProxyInv, ContractsOK, IsBeacon, IsBeaconProxy
  <2>10. ManifestOK' /\ RegisteredHaveLayouts'
    BY <1>1, <2>6, <2>7 DEF ProxyInv, ManifestOK, RegisteredHaveLayouts, manifest, IsBeaconProxy
  <2>11. Ends(p)
    BY DEF ChangeProxyAdmin
  <2> QED
    BY <2>8, <2>9, <2>10, <2>11, CallEndsWriting
<1> QED
  BY <1>2, <1>4, <1>6, <1>7 DEF ChangeProxyAdmin

LEMMA AddProxyKeepsInv ==
    ASSUME ProxyInv, NEW p \in Processes, AddProxy(p)
    PROVE  ProxyInv'
<1>1. run[p].pc = "register" /\ UNCHANGED <<contracts, impls, admin>>
  BY DEF AddProxy
<1>2. PICK r : r = run[p]
  OBVIOUS
<1>3. r.target \in Addresses /\ HasLayout(r.target) /\ r.kind \in Kinds
  BY <1>1, <1>2, Running DEF RecordsImpl
<1>4. /\ DOMAIN proxies' = DOMAIN proxies \union {r.target} /\ proxies'[r.target] = r.kind
      /\ \A a \in DOMAIN proxies : a # r.target => proxies'[a] = proxies[a]
  BY <1>2 DEF AddProxy
<1>5. Grows
  BY <1>1 DEF Grows, Addresses
<1>6. ContractsOK' /\ ManifestOK' /\ RegisteredHaveLayouts'
  BY <1>1, <1>3, <1>4 DEF ProxyInv, ContractsOK, ManifestOK, RegisteredHaveLayouts, Addresses,
                          IsBeacon, IsBeaconProxy, HasLayout
<1>7. Ends(p)
  BY DEF AddProxy
<1> QED
  BY <1>5, <1>6, <1>7, CallEndsWriting

LEMMA StepKeepsProxyInv ==
    ASSUME ProxyInv, [ProxyNext]_proxyVars
    PROVE  ProxyInv'
<1>1. CASE UNCHANGED proxyVars
  BY <1>1, RestStays DEF proxyVars, ProxyInv, CallInv, NamesTarget, RecordsImpl, ComparesLayouts,
                         KeepsKind, HasLayout, IsBeacon, IsBeaconProxy, Addresses, manifest
<1>2. ASSUME NEW p \in Processes, NEW call \in Calls, Begin(p, call)
      PROVE  ProxyInv'
  BY <1>2, BeginKeepsInv
<1>3. ASSUME NEW p \in Processes, Fail(p)
      PROVE  ProxyInv'
  BY <1>3, CallEnds DEF Fail
<1>4. ASSUME NEW p \in Processes,
             \/ GetUpgrader(p) \/ ProcessProxyKind(p) \/ ReadCurrent(p) \/ Check(p)
             \/ DeployImpl(p) \/ ChooseImportKind(p) \/ DeployAdmin(p)
             \/ CreateContract(p) \/ Upgrade(p) \/ ChangeProxyAdmin(p) \/ AddProxy(p)
      PROVE  ProxyInv'
  BY <1>4, GetUpgraderKeepsInv, ProcessProxyKindKeepsInv, ReadCurrentKeepsInv, CheckKeepsInv,
     DeployImplKeepsInv, ChooseImportKindKeepsInv, DeployAdminKeepsInv, CreateContractKeepsInv,
     UpgradeKeepsInv, ChangeProxyAdminKeepsInv, AddProxyKeepsInv
<1> QED
  BY <1>1, <1>2, <1>3, <1>4 DEF ProxyNext

LEMMA StartHasProxyInv ==
    ASSUME ProxyInit
    PROVE  ProxyInv
<1>1. PICK start \in Starts : /\ contracts = start.contracts /\ impls = start.impls
                              /\ admin = start.admin /\ proxies = start.proxies
  BY DEF ProxyInit
<1>2. /\ start.contracts \in Seq(ContractType)
      /\ \A a \in DOMAIN start.contracts :
             IF start.contracts[a].type = "beaconproxy"
             THEN /\ start.contracts[a].beacon \in DOMAIN start.contracts
                  /\ start.contracts[start.contracts[a].beacon].type = "beacon"
             ELSE start.contracts[a].impl \in Versions
      /\ start.admin \in Admins
      /\ DOMAIN start.proxies \subseteq DOMAIN start.contracts
      /\ \A a \in DOMAIN start.proxies :
             /\ start.proxies[a] \in Kinds
             /\ \/ start.contracts[a].type = "beaconproxy"
                \/ start.contracts[a].impl \in start.impls
  BY StartAssumption
<1>3. ContractsOK /\ ManifestOK /\ RegisteredHaveLayouts
  BY <1>1, <1>2 DEF ContractsOK, ManifestOK, RegisteredHaveLayouts, Addresses, IsBeacon, IsBeaconProxy
<1>4. \A p \in Processes : run[p] = Idle
  BY DEF ProxyInit
<1>5. run \in [Processes -> CallType \union {Idle}]
  BY DEF ProxyInit
<1> QED
  BY <1>3, <1>4, <1>5, IdleInv DEF ProxyInv

\* The invariant holds of every behaviour: what is deployed, registered and
\* on its way stays well-formed whoever dies, races or imports.
THEOREM ProxyInvIsInvariant == ProxySpec => []ProxyInv
<1>1. ProxyInit => ProxyInv
  BY StartHasProxyInv
<1>2. ProxyInv /\ [ProxyNext]_proxyVars => ProxyInv'
  BY StepKeepsProxyInv
<1> QED
  BY <1>1, <1>2, PTL DEF ProxySpec

\* Every registered proxy that is not a beacon proxy has an implementation
\* that the manifest knows, so its next upgrade can be compared with it.
THEOREM RegisteredHaveLayouts_Safe == ProxySpec => []RegisteredHaveLayouts
<1>1. ProxyInv => RegisteredHaveLayouts
  BY DEF ProxyInv
<1> QED
  BY <1>1, ProxyInvIsInvariant, PTL

\* What an upgrade replaces is what the plugin compared it with, unless the
\* user skipped the comparison or another call came between.
THEOREM UpgradesAreCompatible_Safe == ProxySpec => UpgradesAreCompatible
<1>1. ASSUME ProxyInv, NEW p \in Processes, Upgrade(p)
      PROVE  LET r    == run[p]
                 then == contracts[r.target].impl
             IN \/ r.skip \/ r.current # then
                \/ <<then, r.version>> \in Compatible
  <2>1. run[p].pc = "send" /\ run[p].op \in {"upgradeProxy", "upgradeBeacon"}
    BY <1>1 DEF Upgrade
  <2>2. ComparesLayouts(run[p])
    BY <1>1, <2>1, Running
  <2> QED
    BY <2>1, <2>2 DEF ComparesLayouts
<1>2. ProxyInv /\ [ProxyNext]_proxyVars =>
          [\A p \in Processes : Upgrade(p) =>
              LET r    == run[p]
                  then == contracts[r.target].impl
              IN \/ r.skip \/ r.current # then
                 \/ <<then, r.version>> \in Compatible]_proxyVars
  BY <1>1
<1> QED
  BY <1>2, ProxyInvIsInvariant, PTL DEF ProxySpec, UpgradesAreCompatible

\* A call that found a UUPS proxy registered as one gives it no implementation
\* that cannot be upgraded again, unless its user allowed that, whatever other
\* calls do between its steps.  Of a proxy that it found unregistered, or
\* registered as another kind, the theorem says nothing.
THEOREM UupsStaysUpgradeable_Safe == ProxySpec => UupsStaysUpgradeable
<1>1. ASSUME ProxyInv, NEW p \in Processes, Upgrade(p), contracts' # contracts
      PROVE  LET r == run[p]
             IN (contracts[r.target].type = "uups" /\ r.registered = "uups")
                    => r.version \in HasUpgradeTo \/ r.allow
  <2>1. run[p].pc = "send" /\ run[p].op \in {"upgradeProxy", "upgradeBeacon"}
    BY <1>1 DEF Upgrade
  <2>2. KeepsKind(run[p])
    BY <1>1, <2>1, Running
  <2> QED
    BY <2>1, <2>2, ProxyAssumption DEF KeepsKind
<1>2. ProxyInv /\ [ProxyNext]_proxyVars =>
          [\A p \in Processes : (Upgrade(p) /\ contracts' # contracts) =>
              LET r == run[p]
              IN (contracts[r.target].type = "uups" /\ r.registered = "uups")
                     => r.version \in HasUpgradeTo \/ r.allow]_proxyVars
  BY <1>1
<1> QED
  BY <1>2, ProxyInvIsInvariant, PTL DEF ProxySpec, UupsStaysUpgradeable

----------------------------------------------------------------------------
\* The deployment scripts.

Addr == Nat \union {NoAddress}
Config == [KeySet -> Addr]

Deployed ==
    [key : KeySet, args : Seq(Addr) \union UNION {[keys -> Addr] : keys \in SUBSET KeySet},
     isSetUp : BOOLEAN, knows : SUBSET (KeySet \X Addr)]

\* The contract at the address of a key is of that key, and was built from
\* the contracts of the config.
Built(config, key) ==
    /\ config[key] \in DOMAIN created /\ created[config[key]].key = key
    /\ DOMAIN created[config[key]].args \subseteq Needs(key)
    /\ script # "pcog" =>
           \A d \in DOMAIN created[config[key]].args :
               config[d] # NoAddress /\ created[config[key]].args[d] = config[d]

IsComplete(config, key) ==
    /\ Built(config, key)
    /\ created[config[key]].isSetUp
    /\ key = "FACTORY" => /\ config["HR"] \in DOMAIN created
                          /\ <<"FACTORY", config[key]>> \in created[config["HR"]].knows

\* The key that is deployed and not yet in the file, or not yet set up.
Current(key) == step \in 1 .. Len(Keys) /\ stage # "deploy" /\ key = Keys[step]
InSetup(key) == step \in 1 .. Len(Keys) /\ stage = "setup" /\ key = Keys[step]

\* Every key before the step has an address, and the one of the step none
\* until it is deployed.
StepOK ==
    /\ step \in 1 .. LastStep + 1 /\ stage \in {"deploy", "setup", "write"}
    /\ step > Len(Keys) => stage = "deploy"
    /\ stage = "setup" => HasSetup(Keys[step])
    /\ \A i \in 1 .. Len(Keys) : i < step => addresses[Keys[i]] # NoAddress
    /\ step <= Len(Keys) => (stage = "deploy" <=> addresses[Keys[step]] = NoAddress)

\* What is required and what is deployed, and which of it is repeated.
LocalsOK ==
    /\ configs \in Config /\ addresses \in Config /\ newConfig \subseteq KeySet
    /\ \A k \in KeySet : configs[k] # NoAddress => addresses[k] = configs[k]
    /\ \A k \in newConfig : addresses[k] # NoAddress
    /\ \A k \in KeySet : addresses[k] # NoAddress =>
           /\ Built(addresses, k)
           /\ InSetup(k) \/ IsComplete(addresses, k)
           /\ Remembers(k) /\ ~Current(k) => k \in newConfig \/ configs[k] = addresses[k]

\* The file follows the variables, but for keys that later writes drop.
FileFollows ==
    /\ file \in Config
    /\ \A k \in KeySet : /\ file[k] # NoAddress => file[k] = addresses[k]
                         /\ Remembers(k) /\ ~Current(k) => file[k] = addresses[k]

\* The storage knows the contracts that are already registered, no others.
StorageFollows ==
    script = "precog" => \A m \in 1 .. Len(Registered) : Len(Keys) + m < step =>
        \A a : <<Registered[m], a>> \in created[addresses["PRECOG_STORAGE"]].knows
                   <=> a = addresses[Registered[m]]

ScriptInv ==
    /\ script \in Scripts /\ created \in Seq(Deployed)
    /\ \/ file = Damaged
       \/ file \in Config /\ \A k \in KeySet : file[k] # NoAddress => IsComplete(file, k)
    /\ step \in 0 .. LastStep + 1
    /\ step # 0 => StepOK /\ LocalsOK /\ FileFollows /\ StorageFollows

----------------------------------------------------------------------------
\* The lists of contracts.

LEMMA KeyLists ==
    /\ script = "precog" => Keys = PrecogKeys /\ Len(Keys) = 11 /\ Finals = 9
    /\ script = "pcog" => Keys = PcogKeys /\ Len(Keys) = 3 /\ Finals = 0
    /\ script = "staking" => Keys = StakingKeys /\ Len(Keys) = 10 /\ Finals = 2
BY DEF Keys, PrecogKeys, PcogKeys, StakingKeys, Finals, Registered

LEMMA KeysAreDistinct ==
    ASSUME script \in Scripts, NEW i \in 1 .. Len(Keys), NEW j \in 1 .. Len(Keys), Keys[i] = Keys[j]
    PROVE  i = j
<1>1. CASE script = "precog"
  <2>1. i \in 1 .. 11 /\ j \in 1 .. 11 /\ PrecogKeys[i] = PrecogKeys[j]
    BY <1>1, KeyLists
  <2>2. \A m, n \in 1 .. 11 : PrecogKeys[m] = PrecogKeys[n] => m = n
    BY DEF PrecogKeys
  <2> QED
    BY <2>1, <2>2
<1>2. CASE script = "pcog"
  BY <1>2, KeyLists DEF PcogKeys
<1>3. CASE script = "staking"
  <2>1. i \in 1 .. 10 /\ j \in 1 .. 10 /\ StakingKeys[i] = StakingKeys[j]
    BY <1>3, KeyLists
  <2>2. \A m, n \in 1 .. 10 : StakingKeys[m] = StakingKeys[n] => m = n
    BY DEF StakingKeys
  <2> QED
    BY <2>1, <2>2
<1> QED
  BY <1>1, <1>2, <1>3, ScriptAssumption

LEMMA KeyFacts ==
    ASSUME script \in Scripts
    PROVE  /\ Len(Keys) \in {3, 10, 11} /\ DOMAIN Keys = 1 .. Len(Keys)
           /\ \A i \in 1 .. Len(Keys) : Keys[i] \in KeySet
           /\ \A key \in KeySet : \E i \in 1 .. Len(Keys) : Keys[i] = key
           /\ Finals \in Nat /\ LastStep \in Nat /\ LastStep = Len(Keys) + Finals
<1>1. Len(Keys) \in {3, 10, 11} /\ Finals \in Nat
  BY KeyLists, ScriptAssumption
<1>2. DOMAIN Keys = 1 .. Len(Keys)
  BY KeyLists, ScriptAssumption DEF PrecogKeys, PcogKeys, StakingKeys
<1> QED
  BY <1>1, <1>2 DEF KeySet, LastStep

\* A contract that another one needs is deployed before it, and written again
\* with it.
LEMMA NeedsComeFirst ==
    ASSUME script \in Scripts, script # "pcog", NEW i \in 1 .. Len(Keys), NEW d \in Needs(Keys[i])
    PROVE  Remembers(d) /\ \E j \in 1 .. i - 1 : Keys[j] = d
<1>1. CASE script = "precog"
  <2>1. i \in 1 .. 11 /\ Keys[i] = PrecogKeys[i] /\ Len(Keys) = 11
    BY <1>1, KeyLists
  <2>2. Keys[i] \in {"PRECOG_INTERNAL", "PRECOG_CORE", "PRECOG_FACTORY", "PRECOG_VAULT",
                     "PRECOG_PROFIT", "PRECOG", "WITHDRAWAL_REGISTER"}
    BY <2>1 DEF PrecogKeys, Needs
  <2>3. CASE Keys[i] = "PRECOG_INTERNAL"
    BY <1>1, <2>1, <2>3, KeyLists DEF PrecogKeys, Needs, Remembers
  <2>4. CASE Keys[i] \in {"PRECOG_CORE", "PRECOG_VAULT", "PRECOG_PROFIT", "PRECOG"}
    BY <1>1, <2>1, <2>4, KeyLists DEF PrecogKeys, Needs, Remembers
  <2>5. CASE Keys[i] = "PRECOG_FACTORY"
    BY <1>1, <2>1, <2>5, KeyLists DEF PrecogKeys, Needs, Remembers
  <2>6. CASE Keys[i] = "WITHDRAWAL_REGISTER"
    BY <1>1, <2>1, <2>6, KeyLists DEF PrecogKeys, Needs, Remembers
  <2> QED
    BY <2>2, <2>3, <2>4, <2>5, <2>6
<1>2. CASE script = "staking"
  <2>1. i \in 1 .. 10 /\ Keys[i] = StakingKeys[i] /\ Len(Keys) = 10
    BY <1>2, KeyLists
  <2>2. Keys[i] \in {"REWARD_APR", "REWARD_FLEXIBLE", "FACTORY"}
    BY <2>1 DEF StakingKeys, Needs
  <2>3. CASE Keys[i] = "REWARD_APR"
    BY <1>2, <2>1, <2>3, KeyLists DEF StakingKeys, Needs, Remembers
  <2>4. CASE Keys[i] = "REWARD_FLEXIBLE"
    BY <1>2, <2>1, <2>4, KeyLists DEF StakingKeys, Needs, Remembers
  <2>5. CASE Keys[i] = "FACTORY"
    BY <1>2, <2>1, <2>5, KeyLists DEF StakingKeys, Needs, Remembers
  <2> QED
    BY <2>2, <2>3, <2>4, <2>5
<1> QED
  BY <1>1, <1>2, ScriptAssumption

\* The staking factory comes last, after the HR that it needs a role in.
LEMMA FactoryIsStaking ==
    ASSUME script \in Scripts, "FACTORY" \in KeySet
    PROVE  /\ script = "staking" /\ "HR" \in KeySet /\ Remembers("HR") /\ HasSetup("FACTORY")
           /\ "HR" \in Needs("FACTORY")
<1>1. script # "precog"
  BY KeyLists DEF KeySet, PrecogKeys
<1>2. script # "pcog"
  BY KeyLists DEF KeySet, PcogKeys
<1>3. script = "staking"
  BY <1>1, <1>2, ScriptAssumption
<1>4. Keys[1] = "HR" /\ 1 \in DOMAIN Keys
  BY <1>3, KeyLists DEF StakingKeys
<1> QED
  BY <1>3, <1>4 DEF KeySet, Remembers, HasSetup, Needs

LEMMA NeedsAreKeys ==
    ASSUME script \in Scripts, script # "pcog", NEW key \in KeySet, NEW d \in Needs(key)
    PROVE  d \in KeySet /\ Remembers(d)
<1>1. PICK i \in 1 .. Len(Keys) : Keys[i] = key
  BY KeyFacts
<1>2. Remembers(d) /\ \E j \in 1 .. i - 1 : Keys[j] = d
  BY <1>1, NeedsComeFirst
<1> QED
  BY <1>2, KeyFacts

LEMMA RegisteredKeys ==
    ASSUME script = "precog"
    PROVE  /\ Len(Registered) = 9 /\ DOMAIN Registered = 1 .. 9
           /\ "PRECOG_STORAGE" \in KeySet /\ Remembers("PRECOG_STORAGE")
           /\ \A m \in 1 .. 9 : Registered[m] \in KeySet
           /\ \A m, n \in 1 .. 9 : Registered[m] = Registered[n] => m = n
<1>1. Keys = PrecogKeys /\ DOMAIN PrecogKeys = 1 .. 11
  BY KeyLists DEF PrecogKeys
<1>2. Len(Registered) = 9 /\ DOMAIN Registered = 1 .. 9
  BY DEF Registered
<1>3. KeySet = {"PCOG", "EXCHANGE_MIDDLEWARE", "IPCOG_FACTORY", "PRECOG_STORAGE", "PRECOG_INTERNAL",
      "PRECOG_CORE", "PRECOG_FACTORY", "PRECOG_VAULT", "PRECOG_PROFIT", "PRECOG",
      "WITHDRAWAL_REGISTER"}
  BY <1>1 DEF KeySet, PrecogKeys
<1>4. \A m \in 1 .. 9 : Registered[m] \in KeySet
  BY <1>3 DEF Registered
<1>5. \A m, n \in 1 .. 9 : Registered[m] = Registered[n] => m = n
  BY DEF Registered
<1> QED
  BY <1>2, <1>3, <1>4, <1>5 DEF Remembers

\* The next step is the first key without an address, or the one after them.
LEMMA NextStep ==
    ASSUME script \in Scripts, NEW known, NEW i \in 1 .. Len(Keys) + 1
    PROVE  /\ From(i, known) \in i .. Len(Keys) + 1
           /\ From(i, known) <= Len(Keys) => known[Keys[From(i, known)]] = NoAddress
           /\ \A k \in i .. From(i, known) - 1 : known[Keys[k]] # NoAddress
<1>1. PICK n : n = Len(Keys)
  OBVIOUS
<1>2. n \in {3, 10, 11} /\ LastStep \in Nat /\ LastStep >= n
  BY <1>1, KeyFacts
<1> DEFINE IsFirst(h, j) == /\ j <= n => known[Keys[j]] = NoAddress
                            /\ \A k \in h .. j - 1 : k <= n /\ known[Keys[k]] # NoAddress
           HasFirst(h) == \E j \in h .. n + 1 : IsFirst(h, j)
<1>3. HasFirst(n + 1)
  BY <1>2
<1>4. ASSUME NEW h \in 1 .. n, HasFirst(h + 1)
      PROVE  HasFirst(h)
  <2>1. CASE known[Keys[h]] = NoAddress
    BY <1>2, <2>1
  <2>2. CASE known[Keys[h]] # NoAddress
    <3>1. PICK j \in h + 1 .. n + 1 : IsFirst(h + 1, j)
      BY <1>4
    <3>2. IsFirst(h, j) /\ j \in h .. n + 1
      BY <1>2, <2>2, <3>1
    <3> QED
      BY <3>2
  <2> QED
    BY <2>1, <2>2
<1> HIDE DEF HasFirst
<1>5. \A h \in 1 .. n + 1 : h >= n - 1 => HasFirst(h)
  BY <1>2, <1>3, <1>4
<1>6. \A h \in 1 .. n + 1 : h >= n - 3 => HasFirst(h)
  BY <1>2, <1>5, <1>4
<1>7. \A h \in 1 .. n + 1 : h >= n - 5 => HasFirst(h)
  BY <1>2, <1>6, <1>4
<1>8. \A h \in 1 .. n + 1 : h >= n - 7 => HasFirst(h)
  BY <1>2, <1>7, <1>4
<1>9. \A h \in 1 .. n + 1 : h >= n - 9 => HasFirst(h)
  BY <1>2, <1>8, <1>4
<1>10. \A h \in 1 .. n + 1 : HasFirst(h)
  BY <1>2, <1>9, <1>4
<1>11. PICK j \in i .. n + 1 : IsFirst(i, j)
  BY <1>1, <1>10 DEF HasFirst
<1>12. j \in i .. LastStep + 1
  BY <1>2
<1>13. From(i, known) = CHOOSE m \in i .. LastStep + 1 : IsFirst(i, m)
  BY <1>1 DEF From
<1>14. From(i, known) \in i .. LastStep + 1 /\ IsFirst(i, From(i, known))
  BY <1>11, <1>12, <1>13
<1>15. From(i, known) \in i .. n + 1
  BY <1>2, <1>14, <1>1
<1> QED
  BY <1>1, <1>14, <1>15

----------------------------------------------------------------------------
\* What a step leaves on the chain and in the file.

\* No contract goes, or loses what it was built from or told.
Kept ==
    /\ DOMAIN created \subseteq DOMAIN created'
    /\ \A a \in DOMAIN created :
           /\ created'[a].key = created[a].key /\ created'[a].args = created[a].args
           /\ created[a].isSetUp => created'[a].isSetUp
           /\ script # "precog" => created[a].knows \subseteq created'[a].knows

LEMMA ScriptStays ==
    ASSUME script' = script
    PROVE  /\ Keys' = Keys /\ KeySet' = KeySet /\ LastStep' = LastStep
           /\ Config' = Config /\ Deployed' = Deployed
           /\ \A k : Remembers(k)' = Remembers(k) /\ HasSetup(k)' = HasSetup(k)
BY DEF Keys, KeySet, LastStep, Finals, Config, Deployed, Remembers, HasSetup

LEMMA BuiltStays ==
    ASSUME script' = script, Kept, NEW config, NEW key, Built(config, key)
    PROVE  Built(config, key)'
BY DEF Built, Kept

LEMMA CompleteStays ==
    ASSUME script \in Scripts, script' = script, Kept, NEW config, NEW key \in KeySet,
           IsComplete(config, key)
    PROVE  IsComplete(config, key)'
<1>1. Built(config, key)'
  BY BuiltStays DEF IsComplete
<1>2. created'[config[key]].isSetUp
  BY DEF IsComplete, Built, Kept
<1>3. ASSUME key = "FACTORY"
      PROVE  /\ config["HR"] \in DOMAIN created'
             /\ <<"FACTORY", config[key]>> \in created'[config["HR"]].knows
  <2>1. script # "precog"
    BY <1>3, FactoryIsStaking
  <2> QED
    BY <1>3, <2>1 DEF IsComplete, Kept
<1> QED
  BY <1>1, <1>2, <1>3 DEF IsComplete

\* Another config with the same contract, and the same ones for its needs.
LEMMA BuiltIn ==
    ASSUME script \in Scripts, NEW config, NEW other, NEW key \in KeySet, Built(config, key),
           other[key] = config[key],
           script # "pcog" => \A d \in Needs(key) : config[d] # NoAddress => other[d] = config[d]
    PROVE  Built(other, key)
BY DEF Built

LEMMA CompleteIn ==
    ASSUME script \in Scripts, NEW config, NEW other, NEW key \in KeySet, IsComplete(config, key),
           other[key] = config[key], created \in Seq(Deployed),
           script # "pcog" => \A d \in Needs(key) : config[d] # NoAddress => other[d] = config[d]
    PROVE  IsComplete(other, key)
<1>1. Built(other, key)
  BY BuiltIn DEF IsComplete
<1>2. ASSUME key = "FACTORY"
      PROVE  other["HR"] = config["HR"]
  <2>1. script # "pcog" /\ "HR" \in Needs(key)
    BY <1>2, FactoryIsStaking
  <2>2. config["HR"] # NoAddress
    BY <1>2, ScriptAssumption DEF IsComplete
  <2> QED
    BY <2>1, <2>2
<1> QED
  BY <1>1, <1>2 DEF IsComplete

\* A file that is not written stays as complete as it was.
LEMMA FileStays ==
    ASSUME ScriptInv, script' = script, Kept, file' = file
    PROVE  \/ file' = Damaged
           \/ file' \in Config' /\ \A k \in KeySet' : file'[k] # NoAddress => IsComplete(file, k)'
<1>1. PICK f : f = file
  OBVIOUS
<1>2. CASE f \in Config /\ \A k \in KeySet : f[k] # NoAddress => IsComplete(f, k)
  <2>1. \A k \in KeySet : f[k] # NoAddress => IsComplete(f, k)'
    BY <1>2, CompleteStays DEF ScriptInv
  <2> QED
    BY <1>1, <1>2, <2>1, ScriptStays
<1> QED
  BY <1>1, <1>2 DEF ScriptInv

----------------------------------------------------------------------------
\* The steps of a script.

LEMMA StopKeepsInv ==
    ASSUME ScriptInv, Stop
    PROVE  ScriptInv'
<1>1. script' = script /\ created' = created /\ step' = 0
  BY DEF Stop
<1>2. Kept
  BY <1>1 DEF Kept
<1>3. file' = file \/ file' = Damaged
  BY DEF Stop
<1>4. \/ file' = Damaged
      \/ file' \in Config' /\ \A k \in KeySet' : file'[k] # NoAddress => IsComplete(file, k)'
  BY <1>1, <1>2, <1>3, FileStays
<1> QED
  BY <1>1, <1>4, ScriptStays, KeyFacts DEF ScriptInv

LEMMA StartScriptKeepsInv ==
    ASSUME ScriptInv, StartScript
    PROVE  ScriptInv'
<1>1. script' = script /\ created' = created /\ file' = file /\ script \in Scripts
  BY DEF StartScript, ScriptInv
<1>2. Kept
  BY <1>1 DEF Kept
<1>3. \/ file' = Damaged
      \/ file' \in Config' /\ \A k \in KeySet' : file'[k] # NoAddress => IsComplete(file, k)'
  BY <1>1, <1>2, FileStays
<1>4. PICK f : f = file
  OBVIOUS
<1>5. f \in Config /\ \A k \in KeySet : f[k] # NoAddress => IsComplete(f, k)
  BY <1>4 DEF ScriptInv, StartScript
<1>6. configs' = f /\ addresses' = f /\ newConfig' = {} /\ stage' = "deploy" /\ step' = From(1, f)
  BY <1>4 DEF StartScript
<1>7. /\ step' \in 1 .. Len(Keys) + 1
      /\ step' <= Len(Keys) => f[Keys[step']] = NoAddress
      /\ \A k \in 1 .. step' - 1 : f[Keys[k]] # NoAddress
  <2>1. Len(Keys) \in Nat
    BY <1>1, KeyFacts
  <2>2. 1 \in 1 .. Len(Keys) + 1
    BY <2>1
  <2> QED
    BY <1>1, <1>6, <2>2, NextStep
<1>8. StepOK'
  <2>1. Len(Keys) \in Nat /\ LastStep \in Nat /\ LastStep >= Len(Keys)
    BY <1>1, KeyFacts
  <2>2. step' \in 1 .. LastStep' + 1 /\ stage' \in {"deploy", "setup", "write"}
    BY <1>1, <1>6, <1>7, <2>1, ScriptStays
  <2>3. \A i \in 1 .. Len(Keys') : i < step' => addresses'[Keys'[i]] # NoAddress
    BY <1>1, <1>6, <1>7, <2>1, ScriptStays
  <2> QED
    BY <1>1, <1>6, <1>7, <2>2, <2>3, ScriptStays DEF StepOK
<1>9. LocalsOK'
  <2>1. ASSUME NEW k \in KeySet, f[k] # NoAddress
        PROVE  IsComplete(f, k)' /\ Built(f, k)'
    <3>1. IsComplete(f, k)'
      BY <1>1, <1>2, <1>5, <2>1, CompleteStays
    <3> QED
      BY <3>1 DEF IsComplete
  <2>2. ASSUME NEW k \in KeySet, f[k] # NoAddress
        PROVE  IsComplete(addresses, k)' /\ Built(addresses, k)'
    BY <1>6, <2>1, <2>2 DEF IsComplete, Built
  <2>3. configs' \in Config' /\ addresses' \in Config' /\ newConfig' \subseteq KeySet'
    BY <1>1, <1>5, <1>6, ScriptStays
  <2> QED
    BY <1>1, <1>6, <2>2, <2>3, ScriptStays DEF LocalsOK
<1>10. FileFollows'
  BY <1>1, <1>4, <1>5, <1>6, ScriptStays DEF FileFollows
<1>11. StorageFollows'
  <2>1. \A m \in 1 .. Len(Registered) : ~(Len(Keys') + m < step')
    BY <1>1, <1>7, KeyFacts, ScriptStays DEF Registered
  <2> QED
    BY <2>1 DEF StorageFollows
<1>12. step' \in 0 .. LastStep' + 1
  BY <1>1, <1>8, KeyFacts, ScriptStays DEF StepOK
<1> QED
  BY <1>1, <1>3, <1>8, <1>9, <1>10, <1>11, <1>12, ScriptStays DEF ScriptInv

LEMMA CreatePoolKeepsInv ==
    ASSUME ScriptInv, CreatePool
    PROVE  ScriptInv'
<1>1. /\ script' = script /\ created' = created /\ file' = file /\ script \in Scripts
      /\ stage' = stage /\ locals' = locals /\ step' = step + 1 /\ script = "staking"
      /\ step \in Len(Keys) + 1 .. LastStep
  BY DEF CreatePool, ScriptInv
<1>2. Kept
  BY <1>1 DEF Kept
<1>3. \/ file' = Damaged
      \/ file' \in Config' /\ \A k \in KeySet' : file'[k] # NoAddress => IsComplete(file, k)'
  BY <1>1, <1>2, FileStays
<1>4. StepOK /\ LocalsOK /\ FileFollows /\ StorageFollows
  BY <1>1, KeyFacts DEF ScriptInv
<1>5. step' \in 1 .. LastStep' + 1 /\ step' > Len(Keys) /\ step > Len(Keys) /\ Len(Keys) \in Nat
  BY <1>1, KeyFacts, ScriptStays
<1>6. stage = "deploy"
  BY <1>4, <1>5 DEF StepOK
<1>7. StepOK'
  BY <1>1, <1>4, <1>5, <1>6, ScriptStays DEF StepOK, locals
<1>8. LocalsOK'
  BY <1>1, <1>4, <1>6, ScriptStays DEF LocalsOK, locals, Built, IsComplete, InSetup, Current
<1>9. FileFollows' /\ StorageFollows'
  BY <1>1, <1>4, <1>6, ScriptStays DEF FileFollows, StorageFollows, locals, Current
<1>10. step' \in 0 .. LastStep' + 1
  BY <1>5
<1> QED
  BY <1>1, <1>3, <1>7, <1>8, <1>9, <1>10, ScriptStays DEF ScriptInv

\* The needs of migration 2 are keys of it as well.
LEMMA NeedsOfKeys ==
    ASSUME script \in Scripts, NEW key \in KeySet
    PROVE  Needs(key) \subseteq KeySet
<1>1. CASE script = "pcog"
  <2>1. KeySet = {"PCOG", "PROXY_ADMIN", "TRANSPARENT_PROXY"}
    BY <1>1, KeyLists DEF KeySet, PcogKeys
  <2> QED
    BY <2>1 DEF Needs
<1> QED
  BY <1>1, NeedsAreKeys

LEMMA DeployKeepsInv ==
    ASSUME ScriptInv, Deploy
    PROVE  ScriptInv'
<1>1. /\ script' = script /\ file' = file /\ script \in Scripts /\ step' = step
      /\ configs' = configs /\ newConfig' = newConfig /\ stage = "deploy"
      /\ step \in 1 .. Len(Keys)
  BY DEF Deploy, ScriptInv
<1>2. StepOK /\ LocalsOK /\ FileFollows /\ created \in Seq(Deployed)
  BY <1>1, KeyFacts DEF ScriptInv
<1>3. PICK key : key = Keys[step]
  OBVIOUS
<1>4. key \in KeySet /\ addresses[key] = NoAddress
  BY <1>1, <1>2, <1>3, KeyFacts DEF StepOK
<1>5. PICK n : n = Len(created) + 1
  OBVIOUS
<1>6. PICK args : args = [d \in Needs(key) |-> addresses[d]]
  OBVIOUS
<1>7. PICK isSetUp \in BOOLEAN : isSetUp = ~HasSetup(key)
  OBVIOUS
<1>8. PICK c : c = [key |-> key, args |-> args, isSetUp |-> isSetUp, knows |-> {}]
  OBVIOUS
<1>9. /\ created' = Append(created, c)
      /\ addresses' = [addresses EXCEPT ![key] = n]
      /\ stage' = IF HasSetup(key) THEN "setup" ELSE "write"
  BY <1>3, <1>5, <1>6, <1>7, <1>8 DEF Deploy
<1>10. addresses \in [KeySet -> Addr]
  BY <1>2 DEF LocalsOK, Config
<1>11. c \in Deployed /\ c.key = key /\ c.args = args /\ c.isSetUp = isSetUp
  <2>1. args \in [Needs(key) -> Addr] /\ Needs(key) \in SUBSET KeySet
    BY <1>1, <1>4, <1>6, <1>10, NeedsOfKeys
  <2>2. args \in UNION {[keys -> Addr] : keys \in SUBSET KeySet}
    BY <2>1
  <2> QED
    BY <1>4, <1>7, <1>8, <2>2 DEF Deployed
<1>12. /\ created' \in Seq(Deployed) /\ DOMAIN created' = DOMAIN created \union {n}
       /\ created'[n] = c /\ n \in Nat /\ n # NoAddress /\ n \in DOMAIN created'
       /\ \A a \in DOMAIN created : created'[a] = created[a]
  BY <1>2, <1>5, <1>9, <1>11, ScriptAssumption
<1>13. Kept
  BY <1>12 DEF Kept
<1>14. \/ file' = Damaged
       \/ file' \in Config' /\ \A k \in KeySet' : file'[k] # NoAddress => IsComplete(file, k)'
  BY <1>1, <1>13, FileStays
<1>15. PICK old : old = addresses
  OBVIOUS
<1>16. PICK new : new = [old EXCEPT ![key] = n]
  OBVIOUS
<1>17. /\ addresses' = new /\ new \in [KeySet -> Addr] /\ new[key] = n
       /\ \A k : k # key => new[k] = old[k]
       /\ \A k : old[k] # NoAddress => new[k] = old[k]
  BY <1>4, <1>9, <1>10, <1>12, <1>15, <1>16 DEF Addr
<1>18. ASSUME NEW k \in KeySet, old[k] # NoAddress
       PROVE  IsComplete(new, k)' /\ Built(new, k)'
  <2>1. IsComplete(old, k)
    BY <1>1, <1>2, <1>15, <1>18 DEF LocalsOK, InSetup, IsComplete, Built
  <2>2. new[k] = old[k] /\ \A d \in Needs(k) : old[d] # NoAddress => new[d] = old[d]
    BY <1>17, <1>18
  <2>3. IsComplete(new, k)
    BY <1>1, <1>2, <2>1, <2>2, CompleteIn
  <2>4. IsComplete(new, k)'
    BY <1>1, <1>13, <2>3, CompleteStays
  <2> QED
    BY <2>4 DEF IsComplete
<1>19. Built(new, key)'
  <2>1. \A d \in Needs(key) : script # "pcog" => new[d] # NoAddress /\ args[d] = new[d]
    <3> SUFFICES ASSUME NEW d \in Needs(key), script # "pcog"
                 PROVE  new[d] # NoAddress /\ args[d] = new[d]
      OBVIOUS
    <3>1. PICK j \in 1 .. step - 1 : Keys[j] = d
      BY <1>1, <1>3, NeedsComeFirst
    <3>2. j \in 1 .. Len(Keys) /\ j < step
      BY <1>1, <3>1, KeyFacts
    <3>3. old[d] # NoAddress
      BY <1>2, <1>15, <3>1, <3>2 DEF StepOK
    <3> QED
      BY <1>6, <1>15, <1>17, <3>3
  <2>2. DOMAIN args = Needs(key)
    BY <1>6
  <2> QED
    BY <1>1, <1>11, <1>12, <1>17, <2>1, <2>2 DEF Built
<1>20. HasSetup(key) \/ IsComplete(new, key)'
  <2>1. ~HasSetup(key) => key # "FACTORY" /\ created'[n].isSetUp
    BY <1>7, <1>11, <1>12 DEF HasSetup
  <2> QED
    BY <1>17, <1>19, <2>1 DEF IsComplete
<1>21. StepOK'
  <2>1. \A i \in 1 .. Len(Keys) : i < step => new[Keys[i]] # NoAddress
    BY <1>2, <1>15, <1>17 DEF StepOK
  <2>2. step \in 1 .. LastStep + 1 /\ step <= Len(Keys)
    BY <1>1, <1>2, KeyFacts DEF StepOK
  <2>3. step' \in 1 .. LastStep' + 1 /\ step' <= Len(Keys') /\ Keys'[step'] = key
    BY <1>1, <1>3, <2>2, ScriptStays
  <2>4. /\ stage' \in {"deploy", "setup", "write"} /\ stage' # "deploy"
        /\ stage' = "setup" => HasSetup(key)'
    BY <1>1, <1>9, ScriptStays
  <2>5. addresses'[key] # NoAddress
    BY <1>12, <1>17
  <2>6. \A i \in 1 .. Len(Keys') : i < step' => addresses'[Keys'[i]] # NoAddress
    BY <1>1, <1>17, <2>1, ScriptStays
  <2>7. ~(step' > Len(Keys'))
    BY <1>1, <2>3, KeyFacts, ScriptStays
  <2>8. stage' = "setup" => HasSetup(Keys[step])'
    BY <2>3, <2>4 DEF HasSetup
  <2> QED
    BY <2>3, <2>4, <2>5, <2>6, <2>7, <2>8 DEF StepOK
<1>22. LocalsOK'
  <2>1. configs' \in Config' /\ addresses' \in Config' /\ newConfig' \subseteq KeySet'
    BY <1>1, <1>2, <1>17, ScriptStays DEF LocalsOK, Config
  <2>2. \A k \in KeySet : configs'[k] # NoAddress => addresses'[k] = configs'[k]
    BY <1>1, <1>2, <1>15, <1>17 DEF LocalsOK
  <2>3. \A k \in newConfig' : addresses'[k] # NoAddress
    BY <1>1, <1>2, <1>15, <1>17 DEF LocalsOK
  <2>4. ASSUME NEW k \in KeySet, new[k] # NoAddress
        PROVE  /\ Built(addresses, k)'
               /\ InSetup(k)' \/ IsComplete(addresses, k)'
               /\ Remembers(k) /\ ~Current(k)' => k \in newConfig \/ configs[k] = new[k]
    <3>1. CASE k = key
      <4>1. Built(addresses, k)' /\ (HasSetup(key) \/ IsComplete(addresses, k)')
        BY <1>17, <1>19, <1>20, <3>1 DEF Built, IsComplete
      <4>2. Current(k)' /\ (HasSetup(key) => InSetup(k)')
        BY <1>1, <1>3, <1>9, <3>1, ScriptStays DEF Current, InSetup
      <4> QED
        BY <4>1, <4>2
    <3>2. CASE k # key
      <4>1. old[k] # NoAddress
        BY <1>17, <2>4, <3>2
      <4>2. IsComplete(addresses, k)' /\ Built(addresses, k)'
        BY <1>17, <1>18, <4>1 DEF Built, IsComplete
      <4>3. ~Current(k)
        BY <1>1 DEF Current
      <4>4. Remembers(k) => k \in newConfig \/ configs[k] = old[k]
        BY <1>2, <1>15, <4>1, <4>3 DEF LocalsOK
      <4> QED
        BY <1>17, <3>2, <4>2, <4>4
    <3> QED
      BY <3>1, <3>2
  <2> QED
    BY <1>1, <1>17, <2>1, <2>2, <2>3, <2>4, ScriptStays DEF LocalsOK
<1>23. FileFollows'
  <2>1. file[key] = NoAddress
    BY <1>2, <1>4 DEF FileFollows
  <2>2. Current(key)'
    BY <1>1, <1>3, <1>9, ScriptStays DEF Current
  <2>3. ASSUME NEW k \in KeySet, k # key
        PROVE  /\ file[k] # NoAddress => file[k] = new[k]
               /\ Remembers(k) => file[k] = new[k]
    <3>1. ~Current(k)
      BY <1>1 DEF Current
    <3> QED
      BY <1>2, <1>15, <1>17, <2>3, <3>1 DEF FileFollows
  <2>4. file \in Config
    BY <1>2 DEF FileFollows
  <2> QED
    BY <1>1, <1>17, <2>1, <2>2, <2>3, <2>4, ScriptStays DEF FileFollows
<1>24. StorageFollows'
  <2>1. \A m \in 1 .. Len(Registered) : ~(Len(Keys') + m < step')
    BY <1>1, KeyFacts, ScriptStays DEF Registered
  <2> QED
    BY <2>1 DEF StorageFollows
<1>25. step' \in 0 .. LastStep' + 1
  BY <1>1, <1>21, KeyFacts, ScriptStays DEF StepOK
<1> QED
  BY <1>1, <1>12, <1>14, <1>21, <1>22, <1>23, <1>24, <1>25, ScriptStays DEF ScriptInv

LEMMA FinishSetupKeepsInv ==
    ASSUME ScriptInv, FinishSetup
    PROVE  ScriptInv'
<1>1. /\ script' = script /\ file' = file /\ script \in Scripts /\ step' = step
      /\ configs' = configs /\ newConfig' = newConfig /\ addresses' = addresses
      /\ stage = "setup" /\ stage' = "write" /\ step \in 1 .. Len(Keys)
  BY DEF FinishSetup, ScriptInv, locals
<1>2. StepOK /\ LocalsOK /\ FileFollows /\ created \in Seq(Deployed)
  BY <1>1, KeyFacts DEF ScriptInv
<1>3. PICK key : key = Keys[step]
  OBVIOUS
<1>4. key \in KeySet /\ addresses[key] # NoAddress
  BY <1>1, <1>2, <1>3, KeyFacts DEF StepOK
<1>5. PICK a : a = addresses[key]
  OBVIOUS
<1>6. Built(addresses, key) /\ a \in DOMAIN created /\ created[a].key = key
  BY <1>2, <1>4, <1>5 DEF LocalsOK, Built
<1>7. PICK c : c = [created[a] EXCEPT !.isSetUp = TRUE]
  OBVIOUS
<1>8. /\ c \in Deployed /\ c.key = key /\ c.args = created[a].args /\ c.isSetUp
      /\ c.knows = created[a].knows
  <2>1. PICK d : d = created[a]
    OBVIOUS
  <2>2. d \in Deployed /\ d.key = key
    BY <1>2, <1>6, <2>1
  <2>3. c = [d EXCEPT !.isSetUp = TRUE]
    BY <1>7, <2>1
  <2>4. c \in Deployed /\ c.key = key /\ c.args = d.args /\ c.knows = d.knows
    BY <2>2, <2>3 DEF Deployed
  <2>5. c.isSetUp
    BY <2>2, <2>3 DEF Deployed
  <2> QED
    BY <2>1, <2>4, <2>5
<1>9. PICK done : done = [created EXCEPT ![a] = c]
  OBVIOUS
<1>10. done = SetUp(key)
  BY <1>5, <1>7, <1>9 DEF SetUp
<1>11. /\ done \in Seq(Deployed) /\ DOMAIN done = DOMAIN created /\ done[a] = c
       /\ \A b \in DOMAIN created : b # a => done[b] = created[b]
  BY <1>2, <1>6, <1>8, <1>9
<1>12. /\ created' \in Seq(Deployed) /\ Kept /\ created'[a].isSetUp
       /\ key = "FACTORY" => /\ addresses["HR"] \in DOMAIN created'
                             /\ <<"FACTORY", a>> \in created'[addresses["HR"]].knows
  <2>1. CASE key # "FACTORY"
    <3>1. created' = done
      BY <1>3, <1>10, <2>1 DEF FinishSetup
    <3> QED
      BY <1>6, <1>8, <1>11, <2>1, <3>1 DEF Kept
  <2>2. CASE key = "FACTORY"
    <3>1. script = "staking" /\ "HR" \in KeySet /\ "HR" \in Needs("FACTORY")
      BY <1>1, <1>4, <2>2, FactoryIsStaking
    <3>2. PICK h : h = addresses["HR"]
      OBVIOUS
    <3>3. h # NoAddress
      <4>1. PICK j \in 1 .. step - 1 : Keys[j] = "HR"
        BY <1>1, <1>3, <2>2, <3>1, NeedsComeFirst
      <4>2. j \in 1 .. Len(Keys) /\ j < step
        BY <1>1, <4>1, KeyFacts
      <4> QED
        BY <1>2, <3>2, <4>1, <4>2 DEF StepOK
    <3>4. h \in DOMAIN created /\ created[h].key = "HR"
      BY <1>2, <3>1, <3>2, <3>3 DEF LocalsOK, Built
    <3>5. h # a
      BY <1>6, <2>2, <3>4
    <3>6. PICK hr : hr = [created[h] EXCEPT !.knows = @ \union {<<"FACTORY", a>>}]
      OBVIOUS
    <3>7. a \in Addr /\ "FACTORY" \in KeySet
      BY <1>2, <1>4, <1>5, <2>2 DEF LocalsOK, Config
    <3>8. created[h] \in Deployed
      BY <1>2, <3>4
    <3>9. PICK knows : knows = created[h].knows \union {<<"FACTORY", a>>}
      OBVIOUS
    <3>10. knows \in SUBSET (KeySet \X Addr)
      BY <3>7, <3>8, <3>9 DEF Deployed
    <3>11. hr = [created[h] EXCEPT !.knows = knows]
      BY <3>6, <3>9
    <3>12. /\ hr \in Deployed /\ hr.key = created[h].key /\ hr.args = created[h].args
           /\ hr.isSetUp = created[h].isSetUp /\ hr.knows = knows
      BY <3>8, <3>10, <3>11 DEF Deployed
    <3>13. done[h] = created[h]
      BY <1>11, <3>4, <3>5
    <3>14. created' = [done EXCEPT ![h] = hr]
      BY <1>3, <1>5, <1>10, <2>2, <3>2, <3>6, <3>13 DEF FinishSetup
    <3>15. /\ created' \in Seq(Deployed) /\ DOMAIN created' = DOMAIN created
           /\ created'[h] = hr /\ created'[a] = c
           /\ \A b \in DOMAIN created : b # a /\ b # h => created'[b] = created[b]
      BY <1>6, <1>11, <3>4, <3>5, <3>12, <3>14
    <3>16. Kept
      BY <1>6, <1>8, <3>9, <3>12, <3>15 DEF Kept
    <3> QED
      BY <1>8, <3>2, <3>4, <3>9, <3>12, <3>15, <3>16
  <2> QED
    BY <2>1, <2>2
<1>13. \/ file' = Damaged
       \/ file' \in Config' /\ \A k \in KeySet' : file'[k] # NoAddress => IsComplete(file, k)'
  BY <1>1, <1>12, FileStays
<1>14. PICK old : old = addresses
  OBVIOUS
<1>15. Built(old, key)'
  BY <1>1, <1>6, <1>12, <1>14, BuiltStays DEF Built
<1>16. IsComplete(old, key)'
  BY <1>5, <1>12, <1>14, <1>15, <1>1 DEF IsComplete
<1>17. ASSUME NEW k \in KeySet, old[k] # NoAddress
       PROVE  IsComplete(old, k)' /\ Built(old, k)'
  <2>1. CASE k = key
    BY <1>15, <1>16, <2>1
  <2>2. CASE k # key
    <3>1. IsComplete(old, k)
      BY <1>2, <1>3, <1>14, <1>17, <2>2 DEF LocalsOK, InSetup, IsComplete, Built
    <3>2. IsComplete(old, k)'
      BY <1>1, <1>12, <3>1, CompleteStays
    <3> QED
      BY <3>2 DEF IsComplete
  <2> QED
    BY <2>1, <2>2
<1>18. ASSUME NEW k \in KeySet
       PROVE  Current(k)' = Current(k)
  BY <1>1, ScriptStays DEF Current
<1>19. StepOK'
  BY <1>1, <1>2, <1>3, <1>4, KeyFacts, ScriptStays DEF StepOK
<1>20. LocalsOK'
  <2>1. configs' \in Config' /\ addresses' \in Config' /\ newConfig' \subseteq KeySet'
    BY <1>1, <1>2, ScriptStays DEF LocalsOK
  <2>2. /\ \A k \in KeySet : configs'[k] # NoAddress => addresses'[k] = configs'[k]
        /\ \A k \in newConfig' : addresses'[k] # NoAddress
    BY <1>1, <1>2 DEF LocalsOK
  <2>3. ASSUME NEW k \in KeySet, addresses'[k] # NoAddress
        PROVE  /\ Built(addresses, k)'
               /\ InSetup(k)' \/ IsComplete(addresses, k)'
               /\ Remembers(k) /\ ~Current(k)' => k \in newConfig' \/ configs'[k] = addresses'[k]
    <3>1. IsComplete(addresses, k)' /\ Built(addresses, k)'
      BY <1>1, <1>14, <1>17, <2>3 DEF IsComplete, Built
    <3>2. Remembers(k) /\ ~Current(k)' => k \in newConfig' \/ configs'[k] = addresses'[k]
      BY <1>1, <1>2, <1>18, <2>3 DEF LocalsOK
    <3> QED
      BY <3>1, <3>2
  <2> QED
    BY <1>1, <2>1, <2>2, <2>3, ScriptStays DEF LocalsOK
<1>21. FileFollows'
  BY <1>1, <1>2, <1>18, ScriptStays DEF FileFollows
<1>22. StorageFollows'
  <2>1. \A m \in 1 .. Len(Registered) : ~(Len(Keys') + m < step')
    BY <1>1, KeyFacts, ScriptStays DEF Registered
  <2> QED
    BY <2>1 DEF StorageFollows
<1>23. step' \in 0 .. LastStep' + 1
  BY <1>1, <1>19, KeyFacts, ScriptStays DEF StepOK
<1> QED
  BY <1>1, <1>12, <1>13, <1>19, <1>20, <1>21, <1>22, <1>23, ScriptStays DEF ScriptInv

LEMMA WriteKeepsInv ==
    ASSUME ScriptInv, Write
    PROVE  ScriptInv'
<1>1. /\ script' = script /\ created' = created /\ script \in Scripts
      /\ configs' = configs /\ addresses' = addresses
      /\ stage = "write" /\ stage' = "deploy" /\ step \in 1 .. Len(Keys)
      /\ step' = From(step + 1, addresses)
  BY DEF Write, ScriptInv
<1>2. StepOK /\ LocalsOK /\ FileFollows /\ created \in Seq(Deployed)
  BY <1>1, KeyFacts DEF ScriptInv
<1>3. PICK key : key = Keys[step]
  OBVIOUS
<1>4. key \in KeySet /\ addresses[key] # NoAddress
  BY <1>1, <1>2, <1>3, KeyFacts DEF StepOK
<1>5. Kept
  BY <1>1 DEF Kept
<1>6. PICK old : old = addresses
  OBVIOUS
<1>7. PICK new : new = [k \in KeySet |-> IF k \in newConfig \union {key} THEN old[k] ELSE configs[k]]
  OBVIOUS
<1>8. /\ file' = new
      /\ newConfig' = IF Remembers(key) THEN newConfig \union {key} ELSE newConfig
  BY <1>3, <1>6, <1>7 DEF Write, ConfigWith
<1>9. new \in Config
  BY <1>2, <1>6, <1>7 DEF LocalsOK, Config
<1>10. ASSUME NEW k \in KeySet
       PROVE  /\ new[k] # NoAddress => new[k] = old[k]
              /\ Remembers(k) => new[k] = old[k]
  <2>1. CASE k \in newConfig \union {key}
    BY <1>7, <2>1
  <2>2. CASE k \notin newConfig \union {key}
    <3>1. new[k] = configs[k] /\ (configs[k] # NoAddress => old[k] = configs[k])
      BY <1>2, <1>6, <1>7, <2>2 DEF LocalsOK
    <3>2. ~Current(k)
      BY <1>3, <2>2 DEF Current
    <3>3. Remembers(k) /\ old[k] # NoAddress => configs[k] = old[k]
      BY <1>2, <1>6, <2>2, <3>2 DEF LocalsOK
    <3> QED
      BY <3>1, <3>3
  <2> QED
    BY <2>1, <2>2
<1>11. ASSUME NEW k \in KeySet, old[k] # NoAddress
       PROVE  IsComplete(old, k)
  BY <1>1, <1>2, <1>6, <1>11 DEF LocalsOK, InSetup, IsComplete, Built
<1>12. ASSUME NEW k \in KeySet, new[k] # NoAddress
       PROVE  IsComplete(new, k)'
  <2>1. new[k] = old[k]
    BY <1>10, <1>12
  <2>2. IsComplete(old, k)
    BY <1>11, <1>12, <2>1
  <2>3. script # "pcog" => \A d \in Needs(k) : old[d] # NoAddress => new[d] = old[d]
    BY <1>1, <1>10, NeedsAreKeys
  <2>4. IsComplete(new, k)
    BY <1>1, <1>2, <2>1, <2>2, <2>3, CompleteIn
  <2> QED
    BY <1>1, <1>5, <2>4, CompleteStays
<1>13. file' \in Config' /\ \A k \in KeySet' : file'[k] # NoAddress => IsComplete(file, k)'
  <2>1. ASSUME NEW k \in KeySet, new[k] # NoAddress
        PROVE  IsComplete(file, k)'
    BY <1>8, <1>12, <2>1 DEF IsComplete, Built
  <2> QED
    BY <1>1, <1>8, <1>9, <2>1, ScriptStays
<1>14. /\ step' \in step + 1 .. Len(Keys) + 1
       /\ step' <= Len(Keys) => old[Keys[step']] = NoAddress
       /\ \A k \in step + 1 .. step' - 1 : old[Keys[k]] # NoAddress
  <2>1. step + 1 \in 1 .. Len(Keys) + 1
    BY <1>1, KeyFacts
  <2> QED
    BY <1>1, <1>6, <2>1, NextStep
<1>15. StepOK'
  <2>1. Len(Keys) \in Nat /\ LastStep \in Nat /\ LastStep >= Len(Keys) /\ step \in Nat
    BY <1>1, KeyFacts
  <2>2. step' \in 1 .. LastStep' + 1
    BY <1>1, <1>14, <2>1, ScriptStays
  <2>3. \A i \in 1 .. Len(Keys) : i < step' => old[Keys[i]] # NoAddress
    <3> SUFFICES ASSUME NEW i \in 1 .. Len(Keys), i < step'
                 PROVE  old[Keys[i]] # NoAddress
      OBVIOUS
    <3>1. CASE i < step
      BY <1>2, <1>6, <3>1 DEF StepOK
    <3>2. CASE i = step
      BY <1>3, <1>4, <1>6, <3>2
    <3>3. CASE i > step
      <4>1. PICK next : next = step'
        OBVIOUS
      <4>2. next \in step + 1 .. Len(Keys) + 1
        BY <1>14, <4>1
      <4>3. i < next /\ i > step
        BY <3>3, <4>1
      <4>4. i \in step + 1 .. next - 1
        BY <2>1, <4>2, <4>3
      <4> QED
        BY <1>14, <4>1, <4>4
    <3> QED
      BY <2>1, <3>1, <3>2, <3>3
  <2>4. \A i \in 1 .. Len(Keys') : i < step' => addresses'[Keys'[i]] # NoAddress
    BY <1>1, <1>6, <2>3, ScriptStays
  <2>5. step' <= Len(Keys') => addresses'[Keys'[step']] = NoAddress
    BY <1>1, <1>6, <1>14, ScriptStays
  <2> QED
    BY <1>1, <2>2, <2>4, <2>5 DEF StepOK
<1>16. LocalsOK'
  <2>1. configs' \in Config' /\ addresses' \in Config' /\ newConfig' \subseteq KeySet'
    BY <1>1, <1>2, <1>4, <1>8, ScriptStays DEF LocalsOK
  <2>2. /\ \A k \in KeySet : configs'[k] # NoAddress => addresses'[k] = configs'[k]
        /\ \A k \in newConfig' : addresses'[k] # NoAddress
    BY <1>1, <1>2, <1>4, <1>8 DEF LocalsOK
  <2>3. ASSUME NEW k \in KeySet, addresses'[k] # NoAddress
        PROVE  /\ Built(addresses, k)' /\ IsComplete(addresses, k)'
               /\ Remembers(k) => k \in newConfig' \/ configs'[k] = addresses'[k]
    <3>1. IsComplete(old, k)
      BY <1>1, <1>6, <1>11, <2>3
    <3>2. IsComplete(old, k)'
      BY <1>1, <1>5, <3>1, CompleteStays
    <3>3. IsComplete(addresses, k)' /\ Built(addresses, k)'
      BY <1>1, <1>6, <3>2 DEF IsComplete, Built
    <3>4. Remembers(k) => k \in newConfig' \/ configs'[k] = addresses'[k]
      <4>1. CASE k = key
        BY <1>8, <4>1
      <4>2. CASE k # key
        <5>1. ~Current(k)
          BY <1>3, <4>2 DEF Current
        <5> QED
          BY <1>1, <1>2, <1>8, <2>3, <5>1 DEF LocalsOK
      <4> QED
        BY <4>1, <4>2
    <3> QED
      BY <3>3, <3>4
  <2> QED
    BY <1>1, <2>1, <2>2, <2>3, ScriptStays DEF LocalsOK
<1>17. FileFollows'
  BY <1>1, <1>6, <1>8, <1>9, <1>10, ScriptStays DEF FileFollows
<1>18. StorageFollows'
  <2>1. \A m \in 1 .. Len(Registered) : ~(Len(Keys') + m < step')
    BY <1>1, <1>14, KeyFacts, ScriptStays DEF Registered
  <2> QED
    BY <2>1 DEF StorageFollows
<1>19. step' \in 0 .. LastStep' + 1
  BY <1>1, <1>15, KeyFacts, ScriptStays DEF StepOK
<1> QED
  BY <1>1, <1>2, <1>13, <1>15, <1>16, <1>17, <1>18, <1>19, ScriptStays DEF ScriptInv

LEMMA RegisterKeepsInv ==
    ASSUME ScriptInv, Register
    PROVE  ScriptInv'
<1>1. /\ script' = script /\ file' = file /\ script \in Scripts /\ script = "precog"
      /\ stage' = stage /\ step' = step + 1 /\ step \in Len(Keys) + 1 .. LastStep
      /\ configs' = configs /\ newConfig' = newConfig /\ addresses' = addresses
  BY DEF Register, ScriptInv, locals
<1>2. /\ StepOK /\ LocalsOK /\ FileFollows /\ StorageFollows /\ created \in Seq(Deployed)
      /\ Len(Keys) = 11 /\ LastStep = 20 /\ Len(Registered) = 9
  <2>1. Len(Keys) = 11 /\ Finals = 9 /\ LastStep = Len(Keys) + Finals
    BY <1>1, KeyFacts, KeyLists
  <2>2. step # 0
    BY <1>1, <2>1
  <2> QED
    BY <1>1, <2>1, <2>2, RegisteredKeys DEF ScriptInv
<1>3. PICK m : m = step - 11
  OBVIOUS
<1>4. m \in 1 .. 9 /\ step = 11 + m
  BY <1>1, <1>2, <1>3
<1>5. PICK key : key = Registered[m]
  OBVIOUS
<1>6. key \in KeySet /\ "PRECOG_STORAGE" \in KeySet
  BY <1>1, <1>4, <1>5, RegisteredKeys
<1>7. \A k \in KeySet : addresses[k] # NoAddress /\ addresses[k] \in Addr
  <2> TAKE k \in KeySet
  <2>1. PICK i \in 1 .. 11 : Keys[i] = k
    BY <1>1, <1>2, KeyFacts
  <2>2. addresses[Keys[i]] # NoAddress
    BY <1>2, <1>4 DEF StepOK
  <2> QED
    BY <1>2, <2>1, <2>2 DEF LocalsOK, Config
<1>8. PICK s : s = addresses["PRECOG_STORAGE"]
  OBVIOUS
<1>9. s \in DOMAIN created /\ created[s] \in Deployed
  BY <1>2, <1>6, <1>7, <1>8 DEF LocalsOK, Built
<1>10. PICK d : d = created[s]
  OBVIOUS
<1>11. PICK knows : knows = {known \in d.knows : known[1] # key} \union {<<key, addresses[key]>>}
  OBVIOUS
<1>12. PICK c : c = [d EXCEPT !.knows = knows]
  OBVIOUS
<1>13. created' = [created EXCEPT ![s] = c]
  BY <1>2, <1>3, <1>5, <1>8, <1>10, <1>11, <1>12 DEF Register, AddressOf
<1>14. d.knows \in SUBSET (KeySet \X Addr) /\ knows \in SUBSET (KeySet \X Addr)
  BY <1>6, <1>7, <1>9, <1>10, <1>11 DEF Deployed
<1>15. c \in Deployed /\ c.key = d.key /\ c.args = d.args /\ c.isSetUp = d.isSetUp /\ c.knows = knows
  BY <1>9, <1>10, <1>12, <1>14 DEF Deployed
<1>16. /\ created' \in Seq(Deployed) /\ DOMAIN created' = DOMAIN created /\ created'[s] = c
       /\ \A a \in DOMAIN created : a # s => created'[a] = created[a]
  BY <1>2, <1>9, <1>13, <1>15
<1>17. Kept
  BY <1>1, <1>10, <1>15, <1>16 DEF Kept
<1>18. \/ file' = Damaged
       \/ file' \in Config' /\ \A k \in KeySet' : file'[k] # NoAddress => IsComplete(file, k)'
  BY <1>1, <1>17, FileStays
<1>19. stage = "deploy"
  BY <1>1, <1>2, <1>4 DEF StepOK
<1>20. StepOK'
  <2>1. step' \in 1 .. LastStep' + 1 /\ step' > Len(Keys') /\ ~(step' <= Len(Keys'))
    <3>1. Len(Keys') = 11 /\ LastStep' = 20 /\ step' = 12 + m
      BY <1>1, <1>2, <1>4, ScriptStays
    <3> QED
      BY <1>4, <3>1
  <2>2. \A i \in 1 .. Len(Keys') : addresses'[Keys'[i]] # NoAddress
    BY <1>1, <1>7, KeyFacts, ScriptStays
  <2> QED
    BY <1>1, <1>19, <2>1, <2>2 DEF StepOK
<1>21. PICK old : old = addresses
  OBVIOUS
<1>22. ASSUME NEW k \in KeySet
       PROVE  IsComplete(addresses, k)' /\ Built(addresses, k)'
  <2>1. IsComplete(old, k)
    BY <1>2, <1>7, <1>19, <1>21 DEF LocalsOK, InSetup, IsComplete, Built
  <2>2. IsComplete(old, k)'
    BY <1>1, <1>17, <2>1, CompleteStays
  <2> QED
    BY <1>1, <1>21, <2>2 DEF IsComplete, Built
<1>23. \A k : ~Current(k) /\ ~Current(k)'
  BY <1>1, <1>19 DEF Current
<1>24. LocalsOK'
  <2>1. configs' \in Config' /\ addresses' \in Config' /\ newConfig' \subseteq KeySet'
    BY <1>1, <1>2, ScriptStays DEF LocalsOK
  <2>2. /\ \A k \in KeySet : configs'[k] # NoAddress => addresses'[k] = configs'[k]
        /\ \A k \in newConfig' : addresses'[k] # NoAddress
        /\ \A k \in KeySet : addresses'[k] # NoAddress =>
               (Remembers(k) => k \in newConfig' \/ configs'[k] = addresses'[k])
    BY <1>1, <1>2, <1>23 DEF LocalsOK
  <2> QED
    BY <1>1, <1>22, <2>1, <2>2, ScriptStays DEF LocalsOK
<1>25. FileFollows'
  BY <1>1, <1>2, <1>23, ScriptStays DEF FileFollows
<1>26. StorageFollows'
  <2>1. ASSUME NEW n \in 1 .. 9, 11 + n < step + 1, NEW a
        PROVE  <<Registered[n], a>> \in knows <=> a = addresses[Registered[n]]
    <3>1. CASE n = m
      BY <1>5, <1>11, <3>1
    <3>2. CASE n # m
      <4>1. 11 + n < step
        BY <1>4, <2>1, <3>2
      <4>2. <<Registered[n], a>> \in d.knows <=> a = addresses[Registered[n]]
        BY <1>1, <1>2, <1>8, <1>10, <4>1 DEF StorageFollows
      <4>3. Registered[n] # key
        BY <1>1, <1>4, <1>5, <3>2, RegisteredKeys
      <4> QED
        BY <1>11, <4>2, <4>3
    <3> QED
      BY <3>1, <3>2
  <2>2. created'[addresses'["PRECOG_STORAGE"]].knows = knows
    BY <1>1, <1>8, <1>15, <1>16
  <2>3. Len(Keys') = 11 /\ step' = step + 1
    BY <1>1, <1>2, ScriptStays
  <2> QED
    BY <1>1, <1>2, <2>1, <2>2, <2>3 DEF StorageFollows
<1>27. step' \in 0 .. LastStep' + 1
  BY <1>1, <1>2, <1>4, ScriptStays
<1> QED
  BY <1>1, <1>16, <1>18, <1>20, <1>24, <1>25, <1>26, <1>27, ScriptStays DEF ScriptInv

\* Whatever the file starts with is a contract that needs no other.
LEMMA StartHasScriptInv ==
    ASSUME ScriptInit
    PROVE  ScriptInv
<1>1. script \in Scripts /\ step = 0
  BY DEF ScriptInit
<1> DEFINE StartsWith(keys, known) ==
               /\ \A k \in keys : \E n \in DOMAIN known : known[n] = k
               /\ created = [n \in DOMAIN known |->
                      [key |-> known[n], args |-> <<>>, isSetUp |-> TRUE, knows |-> {}]]
               /\ file = [k \in KeySet |->
                      IF k \in keys THEN CHOOSE n \in DOMAIN known : known[n] = k ELSE NoAddress]
<1>2. PICK given \in Given :
          \E known \in [1 .. Cardinality(given \intersect KeySet) -> given \intersect KeySet] :
              StartsWith(given \intersect KeySet, known)
  BY Zenon DEF ScriptInit
<1> HIDE DEF StartsWith
<1>3. PICK keys : keys = given \intersect KeySet
  OBVIOUS
<1>4. PICK known \in [1 .. Cardinality(keys) -> keys] : StartsWith(keys, known)
  BY <1>2, <1>3, Zenon
<1> USE DEF StartsWith
<1>5. Cardinality(keys) \in Nat
  <2>1. IsFiniteSet(1 .. Len(Keys))
    BY <1>1, KeyFacts, FS_Interval
  <2>2. PICK list : list = [i \in 1 .. Len(Keys) |-> Keys[i]]
    OBVIOUS
  <2>3. list \in Surjection(1 .. Len(Keys), KeySet)
    BY <1>1, <2>2, KeyFacts DEF Surjection
  <2>4. IsFiniteSet(KeySet)
    BY <2>1, <2>3, FS_Surjection DEF ExistsSurjection
  <2> QED
    BY <1>3, <2>4, FS_Subset, FS_CardinalityType
<1>6. PICK size \in Nat : size = Cardinality(keys)
  BY <1>5
<1>7. DOMAIN known = 1 .. size /\ \A n \in 1 .. size : known[n] \in keys
  BY <1>4, <1>6
<1>8. ASSUME NEW n \in 1 .. size
      PROVE  [key |-> known[n], args |-> <<>>, isSetUp |-> TRUE, knows |-> {}] \in Deployed
  <2>1. known[n] \in KeySet
    BY <1>3, <1>7
  <2>2. <<>> \in Seq(Addr)
    OBVIOUS
  <2> QED
    BY <2>1, <2>2 DEF Deployed
<1>9. created \in [1 .. size -> Deployed]
  BY <1>4, <1>7, <1>8
<1>10. created \in Seq(Deployed) /\ DOMAIN created = 1 .. size
  BY <1>9, SeqDef
<1>11. ASSUME NEW k \in KeySet, file[k] # NoAddress
       PROVE  file[k] \in Addr /\ IsComplete(file, k)
  <2>1. k \in keys /\ file[k] = CHOOSE n \in DOMAIN known : known[n] = k
    BY <1>4, <1>11
  <2>2. PICK n : n = file[k]
    OBVIOUS
  <2>3. n \in 1 .. size /\ known[n] = k
    BY <1>4, <1>7, <2>1, <2>2
  <2>4. created[n] = [key |-> k, args |-> <<>>, isSetUp |-> TRUE, knows |-> {}]
    BY <1>4, <1>7, <2>3
  <2>5. created[n].key = k /\ created[n].args = <<>> /\ created[n].isSetUp
    BY <2>4
  <2>6. k # "FACTORY"
    BY <1>3, <2>1, GivenAssumption DEF Needs
  <2>7. DOMAIN created[n].args = {}
    BY <2>5
  <2> QED
    BY <1>10, <2>2, <2>3, <2>5, <2>6, <2>7 DEF IsComplete, Built, Addr
<1>12. file \in Config
  <2>1. \A k \in KeySet : file[k] \in Addr
    BY <1>11 DEF Addr
  <2>2. file = [k \in KeySet |-> file[k]]
    BY <1>4
  <2> QED
    BY <2>1, <2>2 DEF Config
<1> QED
  BY <1>1, <1>10, <1>11, <1>12, KeyFacts DEF ScriptInv

LEMMA StepKeepsScriptInv ==
    ASSUME ScriptInv, [ScriptNext]_scriptVars
    PROVE  ScriptInv'
<1>1. CASE UNCHANGED scriptVars
  <2>1. /\ script' = script /\ file' = file /\ created' = created /\ step' = step
        /\ stage' = stage /\ configs' = configs /\ addresses' = addresses
        /\ newConfig' = newConfig
    BY <1>1 DEF scriptVars, locals
  <2>2. /\ \A config, key : IsComplete(config, key)' = IsComplete(config, key)
        /\ \A config, key : Built(config, key)' = Built(config, key)
    BY <2>1 DEF IsComplete, Built
  <2>3. \A key : InSetup(key)' = InSetup(key) /\ Current(key)' = Current(key)
    BY <2>1, ScriptStays DEF InSetup, Current
  <2>4. StepOK' = StepOK /\ FileFollows' = FileFollows /\ StorageFollows' = StorageFollows
    BY <2>1, <2>3, ScriptStays DEF StepOK, FileFollows, StorageFollows
  <2>5. LocalsOK' = LocalsOK
    BY <2>1, <2>2, <2>3, ScriptStays DEF LocalsOK
  <2> QED
    BY <2>1, <2>2, <2>4, <2>5, ScriptStays DEF ScriptInv
<1>2. CASE ScriptNext
  BY <1>2, StartScriptKeepsInv, DeployKeepsInv, FinishSetupKeepsInv, WriteKeepsInv,
     RegisterKeepsInv, CreatePoolKeepsInv, StopKeepsInv DEF ScriptNext
<1> QED
  BY <1>1, <1>2

\* The invariant of the scripts holds however often they are stopped, at
\* whichever await, and started again.
THEOREM ScriptInvIsInvariant == ScriptSpec => []ScriptInv
<1>1. ScriptInit => ScriptInv
  BY StartHasScriptInv
<1>2. ScriptInv /\ [ScriptNext]_scriptVars => ScriptInv'
  BY StepKeepsScriptInv
<1> QED
  BY <1>1, <1>2, PTL DEF ScriptSpec

\* A contract in the config file is set up, was built from the contracts in
\* the file, and the staking factory has its role, whatever runs stopped.
THEOREM RecordedAreComplete_Safe == ScriptSpec => []RecordedAreComplete
<1>1. ASSUME ScriptInv
      PROVE  RecordedAreComplete
  <2> SUFFICES ASSUME NEW key \in KeySet, IsRecorded(file, key)
               PROVE  /\ created[file[key]].key = key
                      /\ created[file[key]].isSetUp
                      /\ script # "pcog" => \A d \in DOMAIN created[file[key]].args :
                                                created[file[key]].args[d] = file[d]
                      /\ key = "FACTORY" => <<"FACTORY", file[key]>> \in created[file["HR"]].knows
    BY DEF RecordedAreComplete
  <2>1. IsComplete(file, key)
    BY <1>1 DEF ScriptInv, IsRecorded
  <2> QED
    BY <2>1 DEF IsComplete, Built
<1> QED
  BY <1>1, ScriptInvIsInvariant, PTL

\* When migration 8 is done, the storage knows the contracts of the file and
\* no others under their keys, whatever was deployed in earlier runs.
THEOREM StorageKnowsConfig_Safe == ScriptSpec => []StorageKnowsConfig
<1>1. ASSUME ScriptInv
      PROVE  StorageKnowsConfig
  <2> SUFFICES ASSUME script = "precog", IsDone,
                      NEW key \in {Registered[i] : i \in DOMAIN Registered}, IsRecorded(file, key)
               PROVE  {a \in {known[2] : known \in created[file["PRECOG_STORAGE"]].knows} :
                          <<key, a>> \in created[file["PRECOG_STORAGE"]].knows} = {file[key]}
    BY DEF StorageKnowsConfig
  <2>1. /\ Len(Keys) = 11 /\ LastStep = 20 /\ step = 21 /\ Len(Registered) = 9
        /\ DOMAIN Registered = 1 .. 9
    <3>1. Len(Keys) = 11 /\ Finals = 9 /\ LastStep = Len(Keys) + Finals
      BY <1>1, KeyFacts, KeyLists DEF ScriptInv
    <3> QED
      BY <3>1, RegisteredKeys DEF IsDone
  <2>2. FileFollows /\ StorageFollows
    BY <1>1, <2>1 DEF ScriptInv
  <2>3. PICK m \in 1 .. 9 : Registered[m] = key
    BY <2>1
  <2>4. key \in KeySet /\ "PRECOG_STORAGE" \in KeySet /\ Remembers("PRECOG_STORAGE")
    BY <2>3, RegisteredKeys
  <2>5. \A k : ~Current(k)
    BY <2>1 DEF Current
  <2>6. file["PRECOG_STORAGE"] = addresses["PRECOG_STORAGE"]
    BY <2>2, <2>4, <2>5 DEF FileFollows
  <2>7. file[key] = addresses[key]
    BY <2>2, <2>4 DEF FileFollows, IsRecorded
  <2>8. PICK knows : knows = created[file["PRECOG_STORAGE"]].knows
    OBVIOUS
  <2>9. \A a : <<key, a>> \in knows <=> a = file[key]
    BY <2>1, <2>2, <2>3, <2>6, <2>7, <2>8 DEF StorageFollows
  <2>10. file[key] \in {known[2] : known \in knows}
    <3>1. <<key, file[key]>> \in knows /\ <<key, file[key]>>[2] = file[key]
      BY <2>9
    <3> QED
      BY <3>1
  <2>11. {a \in {known[2] : known \in knows} : <<key, a>> \in knows} = {file[key]}
    BY <2>9, <2>10
  <2> QED
    BY <2>8, <2>11
<1> QED
  BY <1>1, ScriptInvIsInvariant, PTL

----------------------------------------------------------------------------
\* Validation of contracts (Validations).  What can be reached along imports,
\* parents or libraries is the least set that holds the start and is closed
\* under the edges; then the invariant, one lemma per action.

\* The sets that a step makes of the one before.
LEMMA Iteration ==
    ASSUME NEW A, NEW a \in A, NEW next \in [A -> A]
    PROVE  \E G \in [Nat -> A] : G[0] = a /\ \A n \in Nat : G[n + 1] = next[G[n]]
  <1> DEFINE IsPart(g, n) == /\ g \in [0 .. n -> A] /\ g[0] = a
                             /\ \A i \in 0 .. n - 1 : g[i + 1] = next[g[i]]
             F == {n \in Nat : \E g : IsPart(g, n)}
             Part(n) == CHOOSE g : IsPart(g, n)
             E == {n \in Nat : Part(n + 1)[n] = Part(n)[n]}
  <1>1. 0 \in F
    <2>1. IsPart([i \in 0 .. 0 |-> a], 0)
      OBVIOUS
    <2> QED BY <2>1
  <1>2. ASSUME NEW n \in Nat, n \in F PROVE n + 1 \in F
    <2>1. PICK g : IsPart(g, n)
      BY <1>2
    <2> DEFINE h == [i \in 0 .. n + 1 |-> IF i = n + 1 THEN next[g[n]] ELSE g[i]]
    <2>2. g[n] \in A
      BY <2>1
    <2>3. h \in [0 .. n + 1 -> A] /\ h[0] = a
      BY <2>1, <2>2
    <2>4. ASSUME NEW i \in 0 .. n PROVE h[i + 1] = next[h[i]]
      <3>1. CASE i = n
        BY <3>1
      <3>2. CASE i # n
        <4>1. i \in 0 .. n - 1
          BY <3>2
        <4> QED BY <2>1, <4>1
      <3> QED BY <3>1, <3>2
    <2>5. IsPart(h, n + 1)
      BY <2>3, <2>4
    <2> HIDE DEF IsPart, h
    <2> QED BY <2>5
  <1>3. ASSUME NEW n \in Nat PROVE IsPart(Part(n), n)
    <2>1. n \in F
      <3> HIDE DEF F
      <3> QED BY <1>1, <1>2, NatSetInduction
    <2> HIDE DEF IsPart
    <2> QED BY <2>1
  <1> HIDE DEF Part
  <1>4. ASSUME NEW n \in Nat PROVE Part(n + 1)[n] = Part(n)[n]
    <2> DEFINE P == {i \in Nat : i <= n => Part(n + 1)[i] = Part(n)[i]}
    <2>1. IsPart(Part(n), n) /\ IsPart(Part(n + 1), n + 1)
      BY <1>3
    <2>2. 0 \in P
      BY <2>1
    <2>3. ASSUME NEW i \in Nat, i \in P PROVE i + 1 \in P
      <3>1. CASE i + 1 <= n
        <4>1. i \in 0 .. n - 1 /\ i \in 0 .. (n + 1) - 1
          BY <3>1
        <4>2. Part(n + 1)[i] = Part(n)[i]
          BY <2>3, <3>1
        <4> QED BY <2>1, <4>1, <4>2
      <3> QED BY <3>1
    <2>4. n \in P
      <3> HIDE DEF P
      <3> QED BY <2>2, <2>3, NatSetInduction
    <2> QED BY <2>4
  <1> DEFINE G == [n \in Nat |-> Part(n)[n]]
  <1>5. G \in [Nat -> A] /\ G[0] = a
    <2>1. ASSUME NEW n \in Nat PROVE Part(n)[n] \in A
      BY <1>3
    <2> QED BY <1>3, <2>1
  <1>6. ASSUME NEW n \in Nat PROVE G[n + 1] = next[G[n]]
    <2>1. IsPart(Part(n + 1), n + 1) /\ n \in 0 .. (n + 1) - 1
      BY <1>3
    <2>2. Part(n + 1)[n + 1] = next[Part(n + 1)[n]]
      BY <2>1
    <2> QED BY <1>4, <2>2
  <1> HIDE DEF G
  <1> QED BY <1>5, <1>6

\* R is what can be reached from a set: it holds it, what follows it, and
\* nothing else.
IsReached(R, from, succ) ==
    /\ from \subseteq R
    /\ \A x \in R : succ[x] \subseteq R
    /\ \A T : from \subseteq T /\ (\A x \in T \intersect R : succ[x] \subseteq T) => R \subseteq T

\* As many steps as there are elements with successors reach everything.
LEMMA GrowReaches ==
    ASSUME NEW U, NEW from \in SUBSET U, NEW succ \in [U -> SUBSET U],
           NEW S \in SUBSET U, IsFiniteSet(S), \A x \in U \ S : succ[x] = {},
           NEW G, G[0] = from,
           \A n \in Nat :
               G[n] \subseteq U => G[n + 1] = G[n] \union UNION {succ[x] : x \in G[n]},
           NEW K \in Nat, Cardinality(S) <= K
    PROVE  G[K] \in SUBSET U /\ IsReached(G[K], from, succ)
  <1> DEFINE Follow(s) == UNION {succ[x] : x \in s}
             H(n) == G[n] \intersect S
             Stable(n) == Follow(G[n]) \subseteq G[n]
  <1>1. G[0] = from
    OBVIOUS
  <1>2. ASSUME NEW n \in Nat PROVE G[n] \in SUBSET U
    <2> DEFINE F == {m \in Nat : G[m] \in SUBSET U}
    <2>1. 0 \in F
      OBVIOUS
    <2>2. ASSUME NEW m \in Nat, m \in F PROVE m + 1 \in F
      <3>1. UNION {succ[x] : x \in G[m]} \subseteq U
        BY <2>2
      <3> QED BY <2>2, <3>1
    <2>3. n \in F
      <3> HIDE DEF F
      <3> QED BY <2>1, <2>2, NatSetInduction
    <2> QED BY <2>3
  <1>3. ASSUME NEW n \in Nat PROVE G[n + 1] = G[n] \union Follow(G[n])
    BY <1>2
  <1> HIDE DEF Follow
  <1>4. ASSUME NEW n \in Nat, NEW m \in Nat, m <= n PROVE G[m] \subseteq G[n]
    <2> DEFINE F == {i \in Nat : m <= i => G[m] \subseteq G[i]}
    <2>1. 0 \in F
      OBVIOUS
    <2>2. ASSUME NEW i \in Nat, i \in F PROVE i + 1 \in F
      <3>1. m <= i + 1 => m <= i \/ m = i + 1
        OBVIOUS
      <3> QED BY <1>3, <2>2, <3>1
    <2>3. n \in F
      <3> HIDE DEF F
      <3> QED BY <2>1, <2>2, NatSetInduction
    <2> QED BY <1>4, <2>3
  <1>5. ASSUME NEW n \in Nat PROVE Follow(G[n]) = Follow(H(n))
    BY <1>2 DEF Follow
  <1>6. ASSUME NEW n \in Nat PROVE IsFiniteSet(H(n)) /\ Cardinality(H(n)) \in Nat
    BY FS_Subset, FS_CardinalityType
  <1> HIDE DEF H, Stable
  <1>7. \E m \in Nat : m <= Cardinality(S) /\ Stable(m)
    <2> DEFINE F == {n \in Nat : \/ \E m \in Nat : m <= n /\ Stable(m)
                                 \/ Cardinality(H(n)) >= n + 1}
    <2>1. 0 \in F
      <3>1. CASE H(0) = {}
        <4>1. Follow(H(0)) = {}
          BY <3>1 DEF Follow
        <4>2. Stable(0)
          BY <1>5, <4>1 DEF Stable
        <4> QED BY <4>2
      <3>2. CASE H(0) # {}
        <4>1. Cardinality(H(0)) \in Nat /\ Cardinality(H(0)) # 0
          BY <1>6, <3>2, FS_EmptySet
        <4>2. Cardinality(H(0)) >= 0 + 1
          BY <4>1
        <4> QED BY <4>2
      <3> QED BY <3>1, <3>2
    <2>2. ASSUME NEW n \in Nat, n \in F PROVE n + 1 \in F
      <3>1. CASE \E m \in Nat : m <= n /\ Stable(m)
        <4>1. PICK m \in Nat : m <= n /\ Stable(m)
          BY <3>1
        <4>2. m <= n + 1
          BY <4>1
        <4> QED BY <4>1, <4>2
      <3>2. CASE Cardinality(H(n)) >= n + 1
        <4>1. CASE H(n + 1) = H(n)
          <5>1. Follow(G[n + 1]) = Follow(G[n])
            BY <1>5, <4>1
          <5>2. Stable(n + 1)
            BY <1>3, <5>1 DEF Stable
          <5>3. n + 1 <= n + 1
            OBVIOUS
          <5> QED BY <5>2, <5>3
        <4>2. CASE H(n + 1) # H(n)
          <5>1. H(n) \in SUBSET H(n + 1)
            BY <1>4 DEF H
          <5>2. Cardinality(H(n)) < Cardinality(H(n + 1))
            <6>1. /\ Cardinality(H(n)) <= Cardinality(H(n + 1))
                  /\ Cardinality(H(n)) # Cardinality(H(n + 1))
              BY <1>6, <4>2, <5>1, FS_Subset
            <6> QED BY <1>6, <6>1
          <5>3. Cardinality(H(n)) \in Nat /\ Cardinality(H(n + 1)) \in Nat
            BY <1>6
          <5>4. Cardinality(H(n + 1)) >= (n + 1) + 1
            BY <3>2, <5>2, <5>3
          <5> QED BY <5>4
        <4> QED BY <4>1, <4>2
      <3> QED BY <2>2, <3>1, <3>2
    <2>3. Cardinality(S) \in Nat
      BY FS_CardinalityType
    <2>4. Cardinality(S) \in F
      <3> HIDE DEF F
      <3> QED BY <2>1, <2>2, <2>3, NatSetInduction
    <2>5. Cardinality(H(Cardinality(S))) <= Cardinality(S)
      BY FS_Subset DEF H
    <2>6. ~ Cardinality(H(Cardinality(S))) >= Cardinality(S) + 1
      BY <1>6, <2>3, <2>5
    <2> QED BY <2>4, <2>6
  <1>8. PICK m \in Nat : m <= Cardinality(S) /\ Stable(m)
    BY <1>7
  <1>9. ASSUME NEW T, from \subseteq T, \A x \in T \intersect G[K] : succ[x] \subseteq T
        PROVE  G[K] \subseteq T
    <2> DEFINE F == {n \in Nat : n <= K => G[n] \subseteq T}
    <2>1. 0 \in F
      BY <1>1, <1>9
    <2>2. ASSUME NEW n \in Nat, n \in F PROVE n + 1 \in F
      <3>1. CASE n + 1 <= K
        <4>1. G[n] \subseteq T /\ G[n] \subseteq G[K]
          BY <1>4, <2>2, <3>1
        <4>2. Follow(G[n]) \subseteq T
          BY <1>9, <4>1 DEF Follow
        <4> QED BY <1>3, <4>1, <4>2
      <3> QED BY <3>1
    <2>3. K \in F
      <3> HIDE DEF F
      <3> QED BY <2>1, <2>2, NatSetInduction
    <2> QED BY <2>3
  <1>10. \A n \in Nat : G[n] \subseteq G[m]
    <2> DEFINE F == {n \in Nat : G[n] \subseteq G[m]}
    <2>1. 0 \in F
      BY <1>4
    <2>2. ASSUME NEW n \in Nat, n \in F PROVE n + 1 \in F
      <3>1. Follow(G[n]) \subseteq Follow(G[m])
        BY <2>2 DEF Follow
      <3> QED BY <1>3, <1>8, <2>2, <3>1 DEF Stable
    <2>3. Nat \subseteq F
      <3> HIDE DEF F
      <3> QED BY <2>1, <2>2, NatSetInduction
    <2> QED BY <2>3
  <1>11. G[K] = G[m]
    <2>1. Cardinality(S) \in Nat
      BY FS_CardinalityType
    <2>2. m <= K
      BY <1>8, <2>1
    <2>3. G[m] \subseteq G[K] /\ G[K] \subseteq G[m]
      BY <1>4, <1>8, <1>10, <2>2
    <2> QED BY <2>3
  <1>12. \A x \in G[K] : succ[x] \subseteq G[K]
    BY <1>8, <1>11 DEF Follow, Stable
  <1>13. from \subseteq G[K]
    BY <1>1, <1>4
  <1> QED BY <1>2, <1>9, <1>12, <1>13 DEF IsReached

\* The recursion of Reachable has a solution.
Iterates(G, from, succ) ==
    G = [n \in Nat |-> IF n = 0 THEN from
                       ELSE G[n - 1] \union UNION {succ[x] : x \in G[n - 1]}]

LEMMA GrowIsDefined ==
    ASSUME NEW U, NEW from \in SUBSET U, NEW succ \in [U -> SUBSET U]
    PROVE  \E G \in [Nat -> SUBSET U] : Iterates(G, from, succ)
  <1> DEFINE next == [s \in SUBSET U |-> s \union UNION {succ[x] : x \in s}]
             A == SUBSET U
  <1>1. from \in A /\ next \in [A -> A]
    OBVIOUS
  <1>2. PICK G \in [Nat -> A] : G[0] = from /\ \A n \in Nat : G[n + 1] = next[G[n]]
    <2> HIDE DEF next, A
    <2> QED BY <1>1, Iteration, Z3
  <1>3. ASSUME NEW n \in Nat
        PROVE  G[n] = IF n = 0 THEN from ELSE G[n - 1] \union UNION {succ[x] : x \in G[n - 1]}
    <2>1. CASE n = 0
      BY <1>2, <2>1
    <2>2. CASE n # 0
      <3>1. n - 1 \in Nat /\ n = (n - 1) + 1
        BY <2>2
      <3>2. G[n] = next[G[n - 1]] /\ G[n - 1] \in SUBSET U
        BY <1>2, <3>1
      <3> QED BY <2>2, <3>2
    <2> QED BY <2>1, <2>2
  <1> HIDE DEF next
  <1>4. Iterates(G, from, succ)
    BY <1>2, <1>3 DEF Iterates
  <1> QED BY <1>4

\* What a function of successors reaches.
ReachedBy(from, succ) == Reachable(from, LAMBDA x : succ[x])

Rounds == Cardinality(Contracts) + Cardinality(Sources)

LEMMA ReachedByIsReached ==
    ASSUME NEW U, NEW from \in SUBSET U, NEW succ \in [U -> SUBSET U],
           IsFiniteSet(U), Rounds \in Nat, Cardinality(U) <= Rounds
    PROVE  ReachedBy(from, succ) \in SUBSET U /\ IsReached(ReachedBy(from, succ), from, succ)
  <1> DEFINE Grow == CHOOSE G : Iterates(G, from, succ)
  <1>1. \E G : Iterates(G, from, succ)
    BY GrowIsDefined
  <1>2. Iterates(Grow, from, succ)
    BY <1>1
  <1>3. Grow[Rounds] = ReachedBy(from, succ)
    BY DEF ReachedBy, Reachable, Rounds, Iterates
  <1>4. ASSUME NEW n \in Nat PROVE Grow[n + 1] = Grow[n] \union UNION {succ[x] : x \in Grow[n]}
    <2> HIDE DEF Grow
    <2>1. n + 1 \in Nat /\ n + 1 # 0 /\ (n + 1) - 1 = n
      OBVIOUS
    <2> QED BY <1>2, <2>1 DEF Iterates
  <1>5. Grow[0] = from
    <2> HIDE DEF Grow
    <2> QED BY <1>2 DEF Iterates
  <1> DEFINE S == U
  <1>6. /\ S \in SUBSET U /\ IsFiniteSet(S) /\ Cardinality(S) <= Rounds
        /\ \A x \in U \ S : succ[x] = {}
    OBVIOUS
  <1>7. \A n \in Nat :
            Grow[n] \subseteq U => Grow[n + 1] = Grow[n] \union UNION {succ[x] : x \in Grow[n]}
    BY <1>4
  <1> HIDE DEF Grow, S
  <1>8. Grow[Rounds] \in SUBSET U /\ IsReached(Grow[Rounds], from, succ)
    BY <1>5, <1>6, <1>7, GrowReaches
  <1> QED BY <1>3, <1>8

\* What imports lead to, unknown paths included, which lead no further.
LEMMA ReachedByImports ==
    ASSUME NEW U, NEW from \in SUBSET U, Sources \subseteq U,
           \A x \in U : Imports(x) \subseteq U,
           IsFiniteSet(Sources), Rounds \in Nat, Cardinality(Sources) <= Rounds
    PROVE  IsReached(Reachable(from, Imports), from, [x \in U |-> Imports(x)])
  <1> DEFINE succ == [x \in U |-> Imports(x)]
             Solves(G) == G = [n \in Nat |-> IF n = 0 THEN from
                                  ELSE G[n - 1] \union UNION {Imports(x) : x \in G[n - 1]}]
             Grow == CHOOSE G : Solves(G)
  <1>1. succ \in [U -> SUBSET U] /\ \A x \in U \ Sources : succ[x] = {}
    BY DEF Imports
  <1>2. \E G : Solves(G)
    <2>1. PICK G \in [Nat -> SUBSET U] : Iterates(G, from, succ)
      <3> HIDE DEF succ
      <3> QED BY <1>1, GrowIsDefined
    <2>2. ASSUME NEW n \in Nat
          PROVE  G[n] = IF n = 0 THEN from
                        ELSE G[n - 1] \union UNION {Imports(x) : x \in G[n - 1]}
      <3>1. CASE n = 0
        BY <2>1, <3>1 DEF Iterates
      <3>2. CASE n # 0
        <4>1. n - 1 \in Nat
          BY <3>2
        <4>2. G[n - 1] \in SUBSET U
          BY <4>1
        <4>3. UNION {succ[x] : x \in G[n - 1]} = UNION {Imports(x) : x \in G[n - 1]}
          BY <4>2
        <4> HIDE DEF succ
        <4>4. G[n] = G[n - 1] \union UNION {succ[x] : x \in G[n - 1]}
          BY <2>1, <3>2 DEF Iterates
        <4> QED BY <3>2, <4>3, <4>4
      <3> QED BY <3>1, <3>2
    <2>3. Solves(G)
      BY <2>2
    <2> HIDE DEF Solves
    <2> QED BY <2>3
  <1>3. Solves(Grow)
    <2> HIDE DEF Solves
    <2> QED BY <1>2
  <1>4. Grow[Rounds] = Reachable(from, Imports)
    BY DEF Reachable, Rounds
  <1>5. ASSUME NEW n \in Nat, Grow[n] \subseteq U
        PROVE  Grow[n + 1] = Grow[n] \union UNION {succ[x] : x \in Grow[n]}
    <2> HIDE DEF Grow
    <2>1. n + 1 \in Nat /\ n + 1 # 0 /\ (n + 1) - 1 = n
      OBVIOUS
    <2>2. UNION {succ[x] : x \in Grow[n]} = UNION {Imports(x) : x \in Grow[n]}
      BY <1>5
    <2> HIDE DEF succ
    <2> QED BY <1>3, <2>1, <2>2
  <1>6. Grow[0] = from
    <2> HIDE DEF Grow
    <2> QED BY <1>3
  <1> HIDE DEF Grow, succ
  <1>7. IsReached(Grow[Rounds], from, succ)
    BY <1>1, <1>5, <1>6, GrowReaches
  <1> QED BY <1>4, <1>7 DEF succ

\* What the checked contracts use.
UsedFrom(from) ==
    Reachable(from, LAMBDA c : IF c = Undefined THEN {} ELSE validation[c].libraries)

UseIn(U) == [x \in U |-> IF x = Undefined THEN {} ELSE validation[x].libraries]

LEMMA ReachedByUse ==
    ASSUME NEW U, NEW from \in SUBSET U,
           \A x \in U : x # Undefined => validation[x].libraries \subseteq U,
           IsFiniteSet(U), Rounds \in Nat, Cardinality(U \ {Undefined}) <= Rounds
    PROVE  UsedFrom(from) \in SUBSET U /\ IsReached(UsedFrom(from), from, UseIn(U))
  <1> DEFINE Use(x) == IF x = Undefined THEN {} ELSE validation[x].libraries
             succ == [x \in U |-> Use(x)]
             Solves(G) == G = [n \in Nat |-> IF n = 0 THEN from
                                  ELSE G[n - 1] \union UNION {Use(x) : x \in G[n - 1]}]
             Grow == CHOOSE G : Solves(G)
  <1>1. succ \in [U -> SUBSET U] /\ \A x \in U \ (U \ {Undefined}) : succ[x] = {}
    OBVIOUS
  <1>2. \E G : Solves(G)
    <2>1. PICK G \in [Nat -> SUBSET U] : Iterates(G, from, succ)
      <3> HIDE DEF succ
      <3> QED BY <1>1, GrowIsDefined
    <2>2. ASSUME NEW n \in Nat
          PROVE  G[n] = IF n = 0 THEN from
                        ELSE G[n - 1] \union UNION {Use(x) : x \in G[n - 1]}
      <3>1. CASE n = 0
        BY <2>1, <3>1 DEF Iterates
      <3>2. CASE n # 0
        <4>1. n - 1 \in Nat
          BY <3>2
        <4>2. G[n - 1] \in SUBSET U
          BY <4>1
        <4> HIDE DEF Use
        <4>3. UNION {succ[x] : x \in G[n - 1]} = UNION {Use(x) : x \in G[n - 1]}
          BY <4>2
        <4> HIDE DEF succ
        <4>4. G[n] = G[n - 1] \union UNION {succ[x] : x \in G[n - 1]}
          BY <2>1, <3>2 DEF Iterates
        <4> QED BY <3>2, <4>3, <4>4
      <3> QED BY <3>1, <3>2
    <2>3. Solves(G)
      <3> HIDE DEF Use
      <3> QED BY <2>2
    <2> HIDE DEF Solves
    <2> QED BY <2>3
  <1>3. Solves(Grow)
    <2> HIDE DEF Solves
    <2> QED BY <1>2
  <1>4. Grow[Rounds] = UsedFrom(from)
    BY DEF UsedFrom, Reachable, Rounds
  <1>5. ASSUME NEW n \in Nat, Grow[n] \subseteq U
        PROVE  Grow[n + 1] = Grow[n] \union UNION {succ[x] : x \in Grow[n]}
    <2> HIDE DEF Grow, Use
    <2>1. n + 1 \in Nat /\ n + 1 # 0 /\ (n + 1) - 1 = n
      OBVIOUS
    <2>2. UNION {succ[x] : x \in Grow[n]} = UNION {Use(x) : x \in Grow[n]}
      BY <1>5
    <2> HIDE DEF succ
    <2> QED BY <1>3, <2>1, <2>2
  <1>6. Grow[0] = from
    <2> HIDE DEF Grow, Use
    <2> QED BY <1>3
  <1>7. IsFiniteSet(U \ {Undefined})
    BY FS_Subset
  <1> HIDE DEF Grow, succ
  <1>8. Grow[Rounds] \in SUBSET U /\ IsReached(Grow[Rounds], from, succ)
    <2> DEFINE S == U \ {Undefined}
    <2>1. S \in SUBSET U /\ IsFiniteSet(S) /\ Cardinality(S) <= Rounds
          /\ \A x \in U \ S : succ[x] = {}
      BY <1>1, <1>7
    <2> HIDE DEF S
    <2> QED BY <1>1, <1>5, <1>6, <2>1, GrowReaches
  <1>9. succ = UseIn(U)
    BY DEF succ, UseIn
  <1> QED BY <1>4, <1>8, <1>9

\* The project.
LEMMA ProjectIsFinite ==
    ASSUME project \in Projects
    PROVE  /\ IsFiniteSet(Contracts) /\ IsFiniteSet(Sources)
           /\ Rounds \in Nat /\ Cardinality(Contracts) <= Rounds /\ Cardinality(Sources) <= Rounds
  <1>1. IsFiniteSet(Contracts) /\ project.artifacts \in SUBSET Contracts
    BY ValidationAssumption DEF Contracts
  <1>2. IsFiniteSet(project.artifacts)
    BY <1>1, FS_Subset
  <1>3. IsFiniteSet(Sources)
    <2> DEFINE f == [c \in project.artifacts |-> SourceOf(c)]
    <2>1. f \in Surjection(project.artifacts, Sources)
      BY DEF Surjection, Sources
    <2> HIDE DEF f
    <2> QED BY <1>2, <2>1, FS_Surjection
  <1>4. Cardinality(Contracts) \in Nat /\ Cardinality(Sources) \in Nat
    BY <1>1, <1>3, FS_CardinalityType
  <1> QED BY <1>1, <1>3, <1>4 DEF Rounds

LEMMA ImportsAreFound ==
    ASSUME project \in Projects, NEW s \in Sources
    PROVE  /\ DOMAIN project.imports[s] \subseteq Nat
           /\ Imports(s) = {project.imports[s][k] : k \in DOMAIN project.imports[s]}
  <1>1. PICK c \in project.artifacts : s = project.source[c]
    BY DEF Sources, SourceOf
  <1>2. project.imports[s] \in Seq(Range(project.imports[s]))
    BY <1>1, ValidationAssumption
  <1>3. DOMAIN project.imports[s] \subseteq Nat
    BY <1>2
  <1> QED BY <1>3 DEF Imports, Range

\* A path that can be imported, or the source of one that can.
ImportPaths == Sources \union UNION {Imports(s) : s \in Sources}

\* What importing leads to from one place or from several.
LEMMA FollowImports ==
    ASSUME project \in Projects, NEW from \in SUBSET ImportPaths
    PROVE  LET R == Reachable(from, Imports)
           IN  /\ from \subseteq R
               /\ \A x \in R : Imports(x) \subseteq R
               /\ \A T : from \subseteq T /\ (\A x \in T \intersect R : Imports(x) \subseteq T)
                             => R \subseteq T
  <1> DEFINE U == ImportPaths
             R == Reachable(from, Imports)
             succ == [x \in U |-> Imports(x)]
  <1>1. Sources \subseteq U /\ from \in SUBSET U /\ \A x \in U : Imports(x) \subseteq U
    BY DEF Imports, ImportPaths
  <1>2. IsReached(R, from, succ)
    <2> HIDE DEF U
    <2> QED BY <1>1, ProjectIsFinite, ReachedByImports
  <1> HIDE DEF R
  <1>3. R \subseteq U
    <2>1. \A x \in U \intersect R : succ[x] \subseteq U
      BY <1>1
    <2> HIDE DEF U, succ
    <2> QED BY <1>1, <1>2, <2>1 DEF IsReached
  <1>4. \A x \in R : succ[x] = Imports(x)
    BY <1>3
  <1> HIDE DEF succ
  <1>5. /\ from \subseteq R
        /\ \A x \in R : Imports(x) \subseteq R
    BY <1>2, <1>4 DEF IsReached
  <1>6. ASSUME NEW T, from \subseteq T, \A x \in T \intersect R : Imports(x) \subseteq T
        PROVE  R \subseteq T
    <2>1. \A x \in T \intersect R : succ[x] \subseteq T
      BY <1>4, <1>6
    <2> QED BY <1>2, <1>6, <2>1 DEF IsReached
  <1> QED BY <1>5, <1>6 DEF R

\* Edges of the import consistency check: each one is an import.
AreImports(deps) ==
    /\ deps \in [Sources -> SUBSET Sources]
    /\ \A p \in Sources : \A s \in deps[p] : p \in Imports(s)

LEMMA FollowDependencies ==
    ASSUME project \in Projects, NEW deps, AreImports(deps), NEW from \in SUBSET Sources
    PROVE  LET R == Reachable(from, LAMBDA p : deps[p])
           IN  R \in SUBSET Sources /\ IsReached(R, from, deps)
  <1>1. ReachedBy(from, deps) \in SUBSET Sources /\ IsReached(ReachedBy(from, deps), from, deps)
    BY ProjectIsFinite, ReachedByIsReached DEF AreImports
  <1> QED BY <1>1 DEF ReachedBy

\* A source that is dropped imports, in the end, the path that is missing.
LEMMA DroppedImports ==
    ASSUME project \in Projects, NEW deps, AreImports(deps),
           NEW s \in Sources, NEW path \in Imports(s), NEW x \in Dropped(s, deps)
    PROVE  x \in Sources /\ path \in Reachable({x}, Imports)
  <1> DEFINE R == Dropped(s, deps)
             T == {y \in Sources : path \in Reachable({y}, Imports)}
  <1>1. R \in SUBSET Sources /\ IsReached(R, {s}, deps)
    BY FollowDependencies DEF Dropped
  <1>2. ASSUME NEW y \in Sources
        PROVE  /\ y \in Reachable({y}, Imports)
               /\ \A z \in Reachable({y}, Imports) : Imports(z) \subseteq Reachable({y}, Imports)
    <2>1. {y} \in SUBSET ImportPaths
      BY DEF ImportPaths
    <2> QED BY <2>1, FollowImports
  <1>3. {s} \subseteq T
    BY <1>2
  <1>4. ASSUME NEW y \in T \intersect R, NEW z \in deps[y] PROVE z \in T
    <2>1. z \in Sources /\ y \in Imports(z)
      BY <1>4 DEF AreImports
    <2>2. y \in Reachable({z}, Imports)
      BY <1>2, <2>1
    <2>3. {y} \in SUBSET ImportPaths
      BY DEF ImportPaths
    <2>4. Reachable({y}, Imports) \subseteq Reachable({z}, Imports)
      <3> DEFINE Z == Reachable({z}, Imports)
      <3>1. {y} \subseteq Z /\ \A w \in Z : Imports(w) \subseteq Z
        BY <1>2, <2>1, <2>2
      <3> HIDE DEF Z
      <3>2. Reachable({y}, Imports) \subseteq Z
        BY <2>3, <3>1, FollowImports
      <3> QED BY <3>2 DEF Z
    <2> QED BY <2>1, <2>4
  <1> HIDE DEF T
  <1>5. R \subseteq T
    BY <1>1, <1>3, <1>4 DEF IsReached
  <1> QED BY <1>5 DEF T

\* The loop that drops sources goes on for ever only where imports lead back.
LEMMA ComingBackIsCyclic ==
    ASSUME project \in Projects, NEW deps, AreImports(deps),
           NEW s \in Sources, ComesBack(s, deps)
    PROVE  \E p \in Sources : p \in Reachable(Imports(p), Imports)
  <1>1. Dropped(s, deps) \in SUBSET Sources /\ IsReached(Dropped(s, deps), {s}, deps)
    BY FollowDependencies DEF Dropped
  <1>2. PICK p \in Sources : p \in Reachable(deps[p], LAMBDA q : deps[q])
    BY <1>1 DEF ComesBack
  <1> DEFINE R == Reachable(deps[p], LAMBDA q : deps[q])
             T == {x \in Sources : p \in Reachable(Imports(x), Imports)}
  <1>3. R \in SUBSET Sources /\ IsReached(R, deps[p], deps)
    <2>1. deps[p] \in SUBSET Sources
      BY DEF AreImports
    <2>2. ReachedBy(deps[p], deps) \in SUBSET Sources
          /\ IsReached(ReachedBy(deps[p], deps), deps[p], deps)
      BY <2>1, ProjectIsFinite, ReachedByIsReached DEF AreImports
    <2> QED BY <2>2 DEF ReachedBy
  <1>4. ASSUME NEW x \in Sources
        PROVE  /\ Imports(x) \subseteq Reachable(Imports(x), Imports)
               /\ \A z \in Reachable(Imports(x), Imports) :
                      Imports(z) \subseteq Reachable(Imports(x), Imports)
    <2>1. Imports(x) \in SUBSET ImportPaths
      BY DEF ImportPaths
    <2> QED BY <2>1, FollowImports
  <1>5. deps[p] \subseteq T
    BY <1>4 DEF AreImports
  <1>6. ASSUME NEW x \in T \intersect R, NEW y \in deps[x] PROVE y \in T
    <2>1. y \in Sources /\ x \in Imports(y)
      BY <1>6 DEF AreImports
    <2> DEFINE Y == Reachable(Imports(y), Imports)
    <2>2. x \in Y /\ Imports(x) \subseteq Y /\ \A w \in Y : Imports(w) \subseteq Y
      BY <1>4, <2>1
    <2>3. Imports(x) \in SUBSET ImportPaths
      BY DEF ImportPaths
    <2> HIDE DEF Y
    <2>4. Reachable(Imports(x), Imports) \subseteq Y
      BY <2>2, <2>3, FollowImports
    <2> QED BY <2>1, <2>4 DEF Y
  <1> HIDE DEF T
  <1>7. R \subseteq T
    BY <1>3, <1>5, <1>6 DEF IsReached
  <1> QED BY <1>2, <1>7 DEF T

\* The least of some natural numbers.
LEMMA LeastIsOne ==
    ASSUME NEW S, S \subseteq Nat, S # {}
    PROVE  (CHOOSE k \in S : \A l \in S : k <= l) \in S
  <1>1. PICK m \in S : \A l \in S : ~ (<<l, m>> \in OpToRel(<, Nat))
    BY WFMin, NatLessThanWellFounded
  <1>2. ASSUME NEW l \in S PROVE m <= l
    <2>1. m \in Nat /\ l \in Nat
      OBVIOUS
    <2>2. ~ l < m
      BY <1>1, <2>1 DEF OpToRel
    <2> QED BY <2>1, <2>2
  <1> QED BY <1>2

\* The scan for placeholders finds one where there is one.
LEMMA PlaceholdersAreFound ==
    ASSUME NEW placeholders, placeholders \subseteq Nat, IsFiniteSet(placeholders),
           placeholders # {}
    PROVE  LinkReferences(placeholders) # {}
  <1> DEFINE Later(i) == {p \in placeholders : p >= i}
             NextAt(i) == CHOOSE p \in Later(i) : \A q \in Later(i) : p <= q
             Scan(g, i) == IF Later(i) = {} THEN {} ELSE {NextAt(i)} \union g[i + NextAt(i) + 4]
             Upper(n, b) == {i \in Nat : i + n >= b}
  <1>1. PICK b \in Nat : \A p \in placeholders : p < b
    <2> DEFINE F == {s \in SUBSET placeholders : \E b \in Nat : \A p \in s : p < b}
    <2>1. ASSUME NEW s \in SUBSET placeholders, \A r \in SUBSET s : r # s => r \in F
          PROVE  s \in F
      <3>1. CASE s = {}
        BY <3>1
      <3>2. CASE s # {}
        <4>1. PICK x \in s : TRUE
          BY <3>2
        <4>2. s \ {x} \in SUBSET s /\ s \ {x} # s
          BY <4>1
        <4>3. PICK b \in Nat : \A p \in s \ {x} : p < b
          BY <2>1, <4>2
        <4>4. x \in Nat
          BY <4>1
        <4>5. \A p \in s : p < b + x + 1
          <5>1. ASSUME NEW p \in s PROVE p < b + x + 1
            <6>1. p \in Nat
              OBVIOUS
            <6>2. p = x \/ p < b
              BY <4>3
            <6> QED BY <4>4, <6>1, <6>2
          <5> QED BY <5>1
        <4>6. b + x + 1 \in Nat
          BY <4>4
        <4> QED BY <4>5, <4>6
      <3> QED BY <3>1, <3>2
    <2>2. SUBSET placeholders \subseteq F
      <3> HIDE DEF F
      <3> QED BY <2>1, SubsetInduction
    <2>3. placeholders \in F
      <3> HIDE DEF F
      <3> QED BY <2>2
    <2> QED BY <2>3
  <1>2. ASSUME NEW i \in Nat, Later(i) # {} PROVE NextAt(i) \in Nat
    <2>1. Later(i) \subseteq Nat
      OBVIOUS
    <2> HIDE DEF Later
    <2>2. NextAt(i) \in Later(i)
      BY <1>2, <2>1, LeastIsOne
    <2> QED BY <2>1, <2>2
  <1> HIDE DEF Later, NextAt
  <1> DEFINE F == {n \in Nat : \E g : g = [i \in Upper(n, b) |-> Scan(g, i)]}
  <1>3. 0 \in F
    <2> DEFINE g == [i \in Upper(0, b) |-> {}]
    <2>1. ASSUME NEW i \in Upper(0, b) PROVE Later(i) = {}
      <3>1. ASSUME NEW p \in placeholders PROVE ~ p >= i
        <4>1. p \in Nat /\ i \in Nat /\ p < b /\ i >= b
          BY <1>1
        <4> QED BY <4>1
      <3> QED BY <3>1 DEF Later
    <2>2. g = [i \in Upper(0, b) |-> Scan(g, i)]
      <3> HIDE DEF Upper
      <3> QED BY <2>1
    <2> QED BY <2>2
  <1>4. ASSUME NEW n \in Nat, n \in F PROVE n + 1 \in F
    <2>1. PICK g : g = [i \in Upper(n, b) |-> Scan(g, i)]
      BY <1>4
    <2> DEFINE h == [i \in Upper(n + 1, b) |-> Scan(g, i)]
    <2>2. ASSUME NEW i \in Upper(n, b) PROVE i \in Upper(n + 1, b) /\ h[i] = g[i]
      <3>1. i \in Upper(n + 1, b)
        OBVIOUS
      <3> HIDE DEF Upper, Scan
      <3> QED BY <2>1, <3>1
    <2>3. ASSUME NEW i \in Upper(n + 1, b) PROVE Scan(g, i) = Scan(h, i)
      <3>1. CASE Later(i) = {}
        BY <3>1
      <3>2. CASE Later(i) # {}
        <4>1. i + NextAt(i) + 4 \in Upper(n, b)
          BY <1>2, <3>2
        <4> HIDE DEF h, Upper
        <4> QED BY <2>2, <4>1
      <3> QED BY <3>1, <3>2
    <2>4. h = [i \in Upper(n + 1, b) |-> Scan(h, i)]
      <3> HIDE DEF Upper, Scan
      <3> QED BY <2>3
    <2> HIDE DEF h, Upper, Scan
    <2> QED BY <2>4
  <1>5. b \in F
    <2> HIDE DEF F
    <2> QED BY <1>3, <1>4, NatSetInduction
  <1>6. Upper(b, b) = Nat
    BY <1>1
  <1> DEFINE Found == CHOOSE g : g = [i \in Nat |-> Scan(g, i)]
  <1>7. \E g : g = [i \in Nat |-> Scan(g, i)]
    <2> HIDE DEF Upper, Scan
    <2> QED BY <1>5, <1>6
  <1>8. Found = [i \in Nat |-> Scan(Found, i)]
    <2> HIDE DEF Scan
    <2> QED BY <1>7
  <1>9. Found[0] = LinkReferences(placeholders)
    BY DEF LinkReferences, Later, NextAt
  <1>10. Later(0) # {}
    <2>1. PICK p \in placeholders : p \in Nat
      OBVIOUS
    <2>2. p >= 0
      BY <2>1
    <2> QED BY <2>2 DEF Later
  <1>11. NextAt(0) \in Found[0]
    <2> HIDE DEF Found
    <2> QED BY <1>8, <1>10
  <1> QED BY <1>9, <1>11

Missing(s) == \E path \in Reachable({s}, Imports) : IsUnknown(path)
Cyclic == \E s \in Sources : s \in Reachable(Imports(s), Imports)

LEMMA ProjectStays ==
    ASSUME project' = project
    PROVE  /\ Contracts' = Contracts /\ Sources' = Sources
           /\ \A s : Imports(s)' = Imports(s) /\ Missing(s)' = Missing(s)
           /\ Cyclic' = Cyclic
           /\ \A c : Ancestors(c)' = Ancestors(c) /\ Code(c)' = Code(c)
           /\ output' = output =>
                  /\ Left' = Left /\ FromIds' = FromIds
                  /\ NamesResolve' = NamesResolve
                  /\ \A fromId : Validations(fromId)' = Validations(fromId)
  <1>1. Contracts' = Contracts /\ Sources' = Sources /\ (\A s : Imports(s)' = Imports(s))
    BY DEF Contracts, Sources, SourceOf, Imports
  <1>2. ASSUME NEW s PROVE Missing(s)' = Missing(s)
    BY DEF Missing, Reachable, Contracts, Sources, SourceOf, Imports, IsUnknown
  <1>3. Cyclic' = Cyclic
    BY DEF Cyclic, Reachable, Contracts, Sources, SourceOf, Imports, IsUnknown
  <1>4. ASSUME NEW c PROVE Ancestors(c)' = Ancestors(c)
    BY DEF Ancestors, Reachable, Contracts, Sources, SourceOf
  <1>5. ASSUME NEW c PROVE Code(c)' = Code(c)
    BY DEF Ancestors, Code, Reachable, Contracts, Sources, SourceOf
  <1>6. ASSUME output' = output
        PROVE  /\ Left' = Left /\ FromIds' = FromIds
               /\ NamesResolve' = NamesResolve
               /\ \A fromId : Validations(fromId)' = Validations(fromId)
    <2>1. Left' = Left /\ \A s, x : Id(s, x)' = Id(s, x)
      BY <1>1, <1>6 DEF Left, Id, SourceOf
    <2>2. \A c : Name(c)' = Name(c) /\ SourceOf(c)' = SourceOf(c) /\ ErrorsOf(c)' = ErrorsOf(c)
      BY <2>1 DEF Name, SourceOf, ErrorsOf
    <2>3. FromIds' = FromIds
      BY <1>1, <2>1, <2>2 DEF FromIds
    <2>4. NamesResolve' = NamesResolve
      BY <1>4, <2>1, <2>2 DEF NamesResolve
    <2>5. ASSUME NEW fromId, NEW c
          PROVE  ContractValidation(c, fromId)' = ContractValidation(c, fromId)
      BY <1>4, <2>1, <2>2 DEF ContractValidation
    <2>6. ASSUME NEW fromId PROVE Validations(fromId)' = Validations(fromId)
      BY <2>1, <2>5 DEF Validations
    <2> QED BY <2>1, <2>3, <2>4, <2>6
  <1> QED BY <1>1, <1>2, <1>3, <1>4, <1>5, <1>6

ValidationInv ==
    /\ project \in Projects
    /\ output \subseteq Sources
    /\ AreImports(dependencies)
    /\ validation # Undefined =>
           /\ unvisited = <<>>
           /\ \E fromId \in FromIds : validation = Validations(fromId)
    /\ \A s \in Sources \ output : Missing(s)
    /\ verdict = NeverEnds => Cyclic
    /\ PassedIsSafe

\* Before the call for a contract nothing has passed.
LEMMA NothingPassed ==
    ASSUME verdict = Undefined \/ \E how : verdict = Fails(how)
    PROVE  PassedIsSafe
  BY DEF PassedIsSafe, Passed, Fails

LEMMA VisitKeepsInv ==
    ASSUME ValidationInv, Visit
    PROVE  ValidationInv'
  <1> DEFINE s     == Head(unvisited)
             paths == project.imports[s]
             ends  == {k \in DOMAIN paths : IsUnknown(paths[k]) \/ IsInconsistent(s, paths[k])}
             first == CHOOSE k \in ends : \A l \in ends : k <= l
             before == {paths[k] : k \in {l \in DOMAIN paths : \A e \in ends : l < e}}
             deps  == WithDependency(dependencies, s, before)
  <1>1. /\ project' = project /\ validation' = validation
        /\ unvisited # <<>> /\ verdict = Undefined
    BY DEF Visit
  <1>2. validation' = Undefined
    BY <1>1 DEF ValidationInv
  <1>3. /\ Sources' = Sources /\ (\A x : Missing(x)' = Missing(x) /\ Imports(x)' = Imports(x))
        /\ Cyclic' = Cyclic /\ project' \in Projects
    BY <1>1, ProjectStays DEF ValidationInv
  <1>4. CASE s \notin output
    <2>1. UNCHANGED <<dependencies, output, verdict>>
      BY <1>4 DEF Visit
    <2>2. PassedIsSafe'
      BY <1>1, <2>1 DEF PassedIsSafe, Passed
    <2>3. verdict' # NeverEnds
      BY <1>1, <2>1, UndefinedAssumption
    <2> QED
      BY <1>2, <1>3, <2>1, <2>2, <2>3 DEF ValidationInv, AreImports
  <1>5. CASE s \in output
    <2>1. s \in Sources
      BY <1>5 DEF ValidationInv
    <2>2. AreImports(deps)
      <3>1. before \subseteq Imports(s)
        BY <2>1, ImportsAreFound DEF ValidationInv
      <3> HIDE DEF before
      <3> QED BY <2>1, <3>1 DEF ValidationInv, AreImports, WithDependency
    <2>3. /\ dependencies' = deps
          /\ IF ends = {} THEN UNCHANGED <<output, verdict>>
             ELSE IF IsInconsistent(s, paths[first]) THEN verdict' = Throws /\ UNCHANGED output
             ELSE /\ verdict' = IF ComesBack(s, deps) THEN NeverEnds ELSE Undefined
                  /\ output' = output \ Dropped(s, deps)
      BY <1>5 DEF Visit
    <2>4. ends # {} => first \in ends
      <3>1. ends \subseteq Nat
        BY <2>1, ImportsAreFound DEF ValidationInv
      <3> HIDE DEF ends
      <3> QED BY <3>1, LeastIsOne
    <2>5. ASSUME ends # {}, ~ IsInconsistent(s, paths[first])
          PROVE  paths[first] \in Imports(s) /\ IsUnknown(paths[first])
      <3>1. first \in DOMAIN paths /\ IsUnknown(paths[first])
        BY <2>4, <2>5
      <3> QED BY <2>1, <3>1, ImportsAreFound DEF ValidationInv
    <2>6. AreImports(dependencies)'
      BY <1>3, <2>2, <2>3 DEF AreImports
    <2>7. PassedIsSafe'
      <3>1. verdict' = Undefined \/ \E how : verdict' = Fails(how)
        BY <1>1, <2>3 DEF Throws, NeverEnds
      <3> QED BY <3>1 DEF PassedIsSafe, Passed, Fails
    <2> HIDE DEF ends, first, deps, s, paths
    <2>8. /\ output' \subseteq Sources
          /\ \A x \in Sources \ output' : Missing(x)
      <3>1. CASE output' = output
        BY <3>1 DEF ValidationInv
      <3>2. CASE output' # output
        <4>1. ends # {} /\ ~ IsInconsistent(s, paths[first]) /\ output' = output \ Dropped(s, deps)
          BY <2>3, <3>2
        <4>2. ASSUME NEW x \in Dropped(s, deps) PROVE Missing(x)
          BY <2>1, <2>2, <2>5, <4>1, <4>2, DroppedImports DEF ValidationInv, Missing
        <4> QED BY <4>1, <4>2 DEF ValidationInv
      <3> QED BY <3>1, <3>2
    <2>9. verdict' = NeverEnds => Cyclic
      <3>1. Throws # NeverEnds
        BY DEF Throws, NeverEnds, Fails
      <3>2. verdict' = NeverEnds => ComesBack(s, deps)
        BY <1>1, <2>3, <3>1, UndefinedAssumption
      <3>3. ComesBack(s, deps) => Cyclic
        BY <2>1, <2>2, ComingBackIsCyclic DEF ValidationInv, Cyclic
      <3> QED BY <3>2, <3>3
    <2> QED BY <1>2, <1>3, <2>6, <2>7, <2>8, <2>9 DEF ValidationInv
  <1> QED BY <1>4, <1>5

LEMMA ValidateKeepsInv ==
    ASSUME ValidationInv, Validate
    PROVE  ValidationInv'
  <1>1. /\ UNCHANGED <<project, unvisited, dependencies, output, verdict>>
        /\ unvisited = <<>> /\ verdict = Undefined
    BY DEF Validate
  <1>2. /\ Sources' = Sources /\ (\A x : Missing(x)' = Missing(x) /\ Imports(x)' = Imports(x))
        /\ Cyclic' = Cyclic /\ project' \in Projects
    BY <1>1, ProjectStays DEF ValidationInv
  <1>3. \E fromId \in FromIds' : validation' = Validations(fromId)'
    <2>1. PICK fromId \in FromIds : validation' = Validations(fromId)
      BY DEF Validate
    <2>2. FromIds' = FromIds /\ Validations(fromId)' = Validations(fromId)
      BY <1>1, ProjectStays
    <2> QED BY <2>1, <2>2
  <1>4. verdict' # NeverEnds /\ PassedIsSafe'
    BY <1>1, UndefinedAssumption DEF PassedIsSafe, Passed
  <1> QED BY <1>1, <1>2, <1>3, <1>4 DEF ValidationInv, AreImports

\* What the project says of one contract.
LEMMA ContractFacts ==
    ASSUME project \in Projects, NEW c \in Contracts
    PROVE  /\ project.parents[c] \subseteq Contracts /\ project.libraries[c] \subseteq Contracts
           /\ project.errors[c] \subseteq ErrorKinds \ {Linking, MissingUpgradeTo}
           /\ project.placeholders[c] \subseteq Nat /\ IsFiniteSet(project.placeholders[c])
  BY ValidationAssumption DEF Contracts, SourceOf

LEMMA AncestorsAreContracts ==
    ASSUME project \in Projects, NEW c \in Contracts
    PROVE  Ancestors(c) \subseteq Contracts
  <1>1. project.parents \in [Contracts -> SUBSET Contracts]
    BY ValidationAssumption DEF Contracts
  <1>2. project.parents[c] \in SUBSET Contracts
    BY <1>1
  <1>3. ReachedBy(project.parents[c], project.parents) \in SUBSET Contracts
    BY <1>1, <1>2, ProjectIsFinite, ReachedByIsReached
  <1> QED BY <1>3 DEF ReachedBy, Ancestors

\* An id leads to a contract that is checked or nowhere; where ids stand for one
\* name, it leads to the contract of the source or nowhere.
LEMMA LookUp ==
    ASSUME project \in Projects, NEW fromId \in FromIds,
           NEW c \in Left, NEW e \in Ancestors(c) \union project.libraries[c]
    PROVE  LET found == fromId[Id(SourceOf(c), e)]
           IN /\ found \in (project.artifacts \intersect Left) \union {Undefined}
              /\ NamesResolve => found \in {e, Undefined}
  <1> DEFINE Ids == {Id(SourceOf(x), y) : x \in Left, y \in Contracts}
             Numbered(id) == {x \in Left : Id(SourceOf(x), x) = id}
             id == Id(SourceOf(c), e)
  <1>1. e \in Contracts
    BY AncestorsAreContracts, ContractFacts DEF Left
  <1>2. id \in Ids
    BY <1>1
  <1>3. \A i \in Ids : IF Numbered(i) = {} THEN fromId[i] = Undefined
                       ELSE \E x \in Numbered(i) : fromId[i] = Name(x)
    BY DEF FromIds
  <1> HIDE DEF Ids
  <1>4. CASE Numbered(id) = {}
    BY <1>2, <1>3, <1>4
  <1>5. CASE Numbered(id) # {}
    <2>1. PICK d \in Left : id = Id(SourceOf(d), d) /\ fromId[id] = Name(d)
      BY <1>2, <1>3, <1>5
    <2>2. NamesResolve => project.named[d] = e
      BY <2>1 DEF NamesResolve
    <2> QED BY <2>1, <2>2 DEF Name
  <1> QED BY <1>4, <1>5

\* Of a contract that is checked, what the call collects is known when no name in
\* it is undefined; and it has all the code, where ids stand for one name.
LEMMA UsedHasCode ==
    ASSUME ValidationInv, validation # Undefined, NEW c \in DOMAIN validation,
           Undefined \notin UsedContractsAndLibraries(c)
    PROVE  /\ c \in Contracts
           /\ {c} \union validation[c].inherit \subseteq UsedContractsAndLibraries(c)
           /\ UsedContractsAndLibraries(c) \subseteq DOMAIN validation
           /\ NamesResolve => /\ Code(c) \subseteq UsedContractsAndLibraries(c)
                              /\ validation[c].inherit = Ancestors(c)
  <1> DEFINE D == project.artifacts \intersect Left
             U == D \union {Undefined}
             used == UsedContractsAndLibraries(c)
             Use == UseIn(U)
             from == {c} \union validation[c].inherit
  <1>1. project \in Projects
    BY DEF ValidationInv
  <1>2. PICK fromId \in FromIds : validation = Validations(fromId)
    BY DEF ValidationInv
  <1>3. /\ DOMAIN validation = D
        /\ \A e \in D : validation[e] = ContractValidation(e, fromId)
    BY <1>2 DEF Validations
  <1>4. D \in SUBSET Contracts /\ D \subseteq Left /\ Undefined \notin Contracts
    BY <1>1, ValidationAssumption DEF Contracts
  <1> DEFINE Found(e, d) == fromId[Id(SourceOf(e), d)]
  <1>5. ASSUME NEW e \in D, NEW d \in Ancestors(e) \union project.libraries[e]
        PROVE  /\ Found(e, d) \in U
               /\ NamesResolve => Found(e, d) \in {d, Undefined}
    BY <1>1, <1>4, LookUp
  <1> HIDE DEF D
  <1>6. ASSUME NEW e \in D
        PROVE  /\ validation[e].inherit = {Found(e, d) : d \in Ancestors(e)}
               /\ validation[e].libraries = {Found(e, d) : d \in project.libraries[e]}
    BY <1>3 DEF ContractValidation
  <1> HIDE DEF Found
  <1>7. c \in D
    BY <1>3
  <1>8. from \in SUBSET U
    BY <1>5, <1>6, <1>7
  <1>9. \A x \in U : x # Undefined => validation[x].libraries \subseteq U
    BY <1>5, <1>6
  <1>10. IsFiniteSet(U) /\ Rounds \in Nat /\ Cardinality(U \ {Undefined}) <= Rounds
    <2>1. IsFiniteSet(Contracts) /\ Cardinality(Contracts) <= Rounds /\ Rounds \in Nat
      BY <1>1, ProjectIsFinite
    <2>2. IsFiniteSet(D) /\ Cardinality(D) <= Cardinality(Contracts)
      BY <1>4, <2>1, FS_Subset
    <2>3. IsFiniteSet(U)
      BY <2>2, FS_AddElement
    <2>4. U \ {Undefined} = D
      BY <1>4
    <2>5. Cardinality(D) \in Nat /\ Cardinality(Contracts) \in Nat
      BY <2>1, <2>2, FS_CardinalityType
    <2> QED BY <2>1, <2>2, <2>3, <2>4, <2>5
  <1> HIDE DEF U, from
  <1>11. used \in SUBSET U /\ IsReached(used, from, Use)
    <2>1. used = UsedFrom(from)
      BY DEF UsedContractsAndLibraries, UsedFrom, from
    <2> QED BY <1>8, <1>9, <1>10, <2>1, ReachedByUse
  <1>12. used \subseteq D
    BY <1>11 DEF U
  <1>13. from \subseteq used /\ \A e \in used : validation[e].libraries \subseteq used
    <2>1. \A e \in used : Use[e] = validation[e].libraries
      BY <1>11 DEF UseIn
    <2> HIDE DEF Use
    <2> QED BY <1>11, <2>1 DEF IsReached
  <1> HIDE DEF used, Use
  <1>14. Undefined \notin used
    BY DEF used
  <1>15. ASSUME NamesResolve PROVE validation[c].inherit = Ancestors(c)
    <2>1. ASSUME NEW d \in Ancestors(c) PROVE Found(c, d) = d
      <3>1. Found(c, d) \in used
        BY <1>6, <1>7, <1>13 DEF from
      <3> QED BY <1>5, <1>7, <1>14, <1>15, <3>1
    <2> QED BY <1>6, <1>7, <2>1
  <1>16. ASSUME NamesResolve, NEW e \in used PROVE project.libraries[e] \subseteq used
    <2>1. e \in D
      BY <1>12
    <2>2. ASSUME NEW d \in project.libraries[e] PROVE d \in used
      <3>1. Found(e, d) \in used
        BY <1>6, <1>13, <2>1
      <3> QED BY <1>5, <1>14, <1>16, <2>1, <3>1
    <2> QED BY <2>2
  <1>17. ASSUME NamesResolve PROVE Code(c) \subseteq used
    <2> DEFINE start == {c} \union Ancestors(c)
    <2>1. project.libraries \in [Contracts -> SUBSET Contracts]
      BY <1>1, ValidationAssumption DEF Contracts
    <2>2. start \in SUBSET Contracts /\ start \subseteq used
      BY <1>1, <1>4, <1>7, <1>13, <1>15, <1>17, AncestorsAreContracts DEF from
    <2> HIDE DEF start
    <2>3. IsReached(ReachedBy(start, project.libraries), start, project.libraries)
      BY <1>1, <2>1, <2>2, ProjectIsFinite, ReachedByIsReached
    <2>4. Code(c) = ReachedBy(start, project.libraries)
      BY DEF Code, ReachedBy, start
    <2> QED BY <1>16, <1>17, <2>2, <2>3, <2>4 DEF IsReached
  <1> QED BY <1>3, <1>4, <1>7, <1>12, <1>13, <1>15, <1>17 DEF used, from

\* Ids stand for one name when one run of the compiler gave them all and no two
\* contracts have one name.
LEMMA OneRunResolves ==
    ASSUME project \in Projects,
           \A c, d \in Contracts : project.run[SourceOf(c)] = project.run[SourceOf(d)],
           \A c \in Contracts : project.named[c] = c
    PROVE  NamesResolve
  <1>1. SUFFICES ASSUME NEW c \in Left, NEW d \in Left,
                        NEW e \in Ancestors(c) \union project.libraries[c],
                        Id(SourceOf(c), e) = Id(SourceOf(d), d)
                 PROVE  project.named[d] = e
    BY DEF NamesResolve
  <1>2. c \in Contracts /\ d \in Contracts /\ e \in Contracts
    BY AncestorsAreContracts, ContractFacts DEF Left
  <1>3. Id(SourceOf(c), e) = Id(SourceOf(c), d)
    BY <1>1, <1>2 DEF Id
  <1>4. d = e
    BY <1>2, <1>3, ValidationAssumption DEF Id, SourceOf, Contracts
  <1> QED BY <1>2, <1>4

LEMMA AssertKeepsInv ==
    ASSUME ValidationInv, NEW c, NEW kind, NEW linked, AssertUpgradeSafe(c, kind, linked)
    PROVE  ValidationInv'
  <1> DEFINE used   == UsedContractsAndLibraries(c)
             errors == (UNION {validation[e].errors : e \in used})
                           \union (IF MethodsHaveUpgradeTo(c) THEN {} ELSE {MissingUpgradeTo})
  <1>1. /\ UNCHANGED <<project, unvisited, dependencies, output, validation>>
        /\ validation # Undefined /\ c \in DOMAIN validation /\ verdict = Undefined
        /\ verdict' = IF Undefined \in used THEN Throws
                      ELSE [contract |-> c, kind |-> kind,
                            errors |-> ProcessExceptions(errors, kind, unsafeAllow')]
    BY DEF AssertUpgradeSafe
  <1>2. /\ Sources' = Sources /\ (\A x : Missing(x)' = Missing(x) /\ Imports(x)' = Imports(x))
        /\ Cyclic' = Cyclic /\ project' \in Projects
        /\ \A e : Ancestors(e)' = Ancestors(e) /\ Code(e)' = Code(e)
    BY <1>1, ProjectStays DEF ValidationInv
  <1>3. /\ validation' # Undefined =>
              /\ unvisited' = <<>>
              /\ \E fromId \in FromIds' : validation' = Validations(fromId)'
        /\ NamesResolve' = NamesResolve
    <2>1. /\ FromIds' = FromIds /\ NamesResolve' = NamesResolve
          /\ \A fromId : Validations(fromId)' = Validations(fromId)
      BY <1>1, ProjectStays
    <2> QED BY <1>1, <2>1 DEF ValidationInv
  <1> HIDE DEF used, errors
  <1>4. c # Undefined
    <2>1. PICK fromId \in FromIds : validation = Validations(fromId)
      BY <1>1 DEF ValidationInv
    <2>2. c \in project.artifacts
      BY <1>1, <2>1 DEF Validations
    <2> QED BY <2>2, ValidationAssumption DEF ValidationInv
  <1>5. verdict' # NeverEnds
    <2>1. Throws # NeverEnds
      BY DEF Throws, NeverEnds, Fails
    <2>2. \A e : [contract |-> c, kind |-> kind, errors |-> e] # NeverEnds
      BY <1>4 DEF NeverEnds, Fails
    <2> QED BY <1>1, <2>1, <2>2
  <1>6. PassedIsSafe'
    <2>1. SUFFICES ASSUME Passed' PROVE PassedIsSafe'
      BY DEF PassedIsSafe
    <2>2. Undefined \notin used
      BY <1>1, <2>1 DEF Passed, Throws, Fails
    <2>3. /\ verdict'.contract = c /\ verdict'.kind = kind
          /\ ProcessExceptions(errors, kind, unsafeAllow') = {}
      BY <1>1, <2>1, <2>2 DEF Passed
    <2>4. /\ c \in Contracts /\ used \subseteq DOMAIN validation
          /\ {c} \union validation[c].inherit \subseteq used
          /\ NamesResolve => Code(c) \subseteq used /\ validation[c].inherit = Ancestors(c)
      BY <1>1, <2>2, UsedHasCode DEF used
    <2>5. ASSUME NEW e \in used
          PROVE  /\ e \in Contracts /\ validation[e].errors = ErrorsOf(e)
                 /\ validation[e].upgradeTo = (e \in project.upgradeTo)
      <3> PICK fromId \in FromIds : validation = Validations(fromId)
        BY <1>1 DEF ValidationInv
      <3>1. e \in DOMAIN validation
        BY <2>4
      <3>2. e \in project.artifacts /\ validation[e] = ContractValidation(e, fromId)
        BY <3>1 DEF Validations
      <3>3. e \in Contracts
        BY <3>2, ValidationAssumption DEF ValidationInv, Contracts
      <3>4. validation[e].upgradeTo = (e \in project.upgradeTo)
        <4>1. ContractValidation(e, fromId).upgradeTo = (e \in project.upgradeTo)
          BY Zenon DEF ContractValidation
        <4> QED BY <3>2, <4>1, Zenon
      <3>5. validation[e].errors = ErrorsOf(e)
        BY <3>2 DEF ContractValidation
      <3> QED BY <3>3, <3>4, <3>5
    <2>6. ASSUME NEW e \in used PROVE IsAllowed(e)'
      <3>1. e \in Contracts
        BY <2>5
      <3>2. ErrorsOf(e) \subseteq errors
        BY <2>5 DEF errors
      <3>3. ErrorsOf(e) \ {MissingUpgradeTo} \subseteq unsafeAllow'
        BY <2>3, <3>2 DEF ProcessExceptions
      <3>4. project.errors[e] \subseteq unsafeAllow'
        BY <3>1, <3>3, ContractFacts DEF ErrorsOf, ValidationInv
      <3>5. project.placeholders[e] # {} => LinkReferences(project.placeholders[e]) # {}
        BY <3>1, ContractFacts, PlaceholdersAreFound DEF ValidationInv
      <3>6. project.placeholders[e] # {} => Linking \in ErrorsOf(e)
        BY <3>5 DEF ErrorsOf
      <3> QED BY <1>1, <3>3, <3>4, <3>6, ValidationAssumption DEF IsAllowed
    <2>7. ASSUME NamesResolve
          PROVE  \/ kind # "uups" \/ MissingUpgradeTo \in unsafeAllow'
                 \/ \E e \in {c} \union Ancestors(c) : e \in project.upgradeTo
      <3>1. SUFFICES ASSUME kind = "uups", MissingUpgradeTo \notin unsafeAllow'
                     PROVE  \E e \in {c} \union Ancestors(c) : e \in project.upgradeTo
        OBVIOUS
      <3>2. MissingUpgradeTo \notin errors
        BY <2>3, <3>1 DEF ProcessExceptions
      <3>3. MethodsHaveUpgradeTo(c)
        BY <3>2 DEF errors
      <3>4. PICK e \in {c} \union validation[c].inherit : validation[e].upgradeTo
        BY <3>3 DEF MethodsHaveUpgradeTo
      <3>5. e \in used
        BY <2>4
      <3> QED BY <2>4, <2>5, <2>7, <3>4, <3>5
    <2>8. IsAllowed(c)' /\ (NamesResolve => \A e \in Code(c) : IsAllowed(e)')
      BY <2>4, <2>6
    <2> QED BY <1>1, <1>2, <1>3, <2>3, <2>7, <2>8 DEF PassedIsSafe
  <1> QED BY <1>1, <1>2, <1>3, <1>5, <1>6 DEF ValidationInv, AreImports

LEMMA StartHasValidationInv ==
    ASSUME ValidationInit
    PROVE  ValidationInv
  <1>1. AreImports(dependencies) /\ output = Sources /\ verdict = Undefined
    BY DEF ValidationInit, AreImports
  <1>2. verdict # NeverEnds /\ PassedIsSafe
    BY <1>1, NothingPassed, UndefinedAssumption
  <1> QED BY <1>1, <1>2 DEF ValidationInv, ValidationInit

LEMMA StepKeepsValidationInv ==
    ASSUME ValidationInv, [ValidationNext]_validationVars
    PROVE  ValidationInv'
  <1>1. CASE UNCHANGED validationVars
    <2>1. UNCHANGED <<project, unvisited, dependencies, output, validation, unsafeAllow, verdict>>
      BY <1>1 DEF validationVars
    <2>2. /\ Sources' = Sources /\ (\A x : Missing(x)' = Missing(x) /\ Imports(x)' = Imports(x))
          /\ Cyclic' = Cyclic
          /\ \A e : Ancestors(e)' = Ancestors(e) /\ Code(e)' = Code(e)
      BY <2>1, ProjectStays
    <2>3. /\ FromIds' = FromIds /\ NamesResolve' = NamesResolve
          /\ \A fromId : Validations(fromId)' = Validations(fromId)
      BY <2>1, ProjectStays
    <2>4. \A e : IsAllowed(e)' = IsAllowed(e)
      BY <2>1 DEF IsAllowed
    <2>5. PassedIsSafe'
      BY <2>1, <2>2, <2>3, <2>4 DEF ValidationInv, PassedIsSafe, Passed
    <2> QED BY <2>1, <2>2, <2>3, <2>5 DEF ValidationInv, AreImports
  <1>2. CASE ValidationNext
    BY <1>2, VisitKeepsInv, ValidateKeepsInv, AssertKeepsInv DEF ValidationNext
  <1> QED BY <1>1, <1>2

\* The invariant of the validation holds for every project, in whatever order
\* its sources are visited.
THEOREM ValidationInvIsInvariant == ValidationSpec => []ValidationInv
<1>1. ValidationInit => ValidationInv
  BY StartHasValidationInv
<1>2. ValidationInv /\ [ValidationNext]_validationVars => ValidationInv'
  BY StepKeepsValidationInv
<1> QED
  BY <1>1, <1>2, PTL DEF ValidationSpec

\* A contract passes only if the caller allowed every unsafe construct in its own
\* code and, where ids stand for one name, in all the code that its proxy would
\* run, and if a UUPS proxy of it can be upgraded again: also when sources were
\* dropped, so that some of it is unknown.
THEOREM PassedIsSafe_Safe == ValidationSpec => []PassedIsSafe
<1>1. ValidationInv => PassedIsSafe
  BY DEF ValidationInv
<1> QED
  BY <1>1, ValidationInvIsInvariant, PTL

\* A source is dropped only if its imports lead to one that is missing, and
\* the loop that drops sources goes on for ever only where imports lead back.
THEOREM DroppedIsIncomplete_Safe == ValidationSpec => []DroppedIsIncomplete
<1>1. ValidationInv => DroppedIsIncomplete
  BY DEF ValidationInv, DroppedIsIncomplete, Missing, Cyclic
<1> QED
  BY <1>1, ValidationInvIsInvariant, PTL

----------------------------------------------------------------------------
\* The conversion of OpenZeppelin CLI projects (LegacyMigration): first what
\* becomes of a layout, then what the files hold.

\* Types of a contract are found under their new names.

LEMMA NewNameOfInnermost ==
    ASSUME NEW types, NEW t
    PROVE  /\ Innermost(Innermost(t)) = Innermost(t)
           /\ Indices(types, Innermost(t)) = Indices(types, t)
           /\ AstId(types, Innermost(t)) = AstId(types, t)
           /\ TransformTypeName(types, Innermost(t)) = PlainName(TransformTypeName(types, t))
  <1>1. Innermost(Innermost(t)) = Innermost(t)
    BY DEF Innermost
  <1>2. Indices(types, Innermost(t)) = Indices(types, t)
    BY <1>1 DEF Indices
  <1>3. AstId(types, Innermost(t)) = AstId(types, t)
    BY <1>2 DEF AstId
  <1>4. TransformTypeName(types, Innermost(t)) = PlainName(TransformTypeName(types, t))
    <2> DEFINE in == Innermost(t)
               of(c) == IF c.kind = "Mapping" THEN "unknown" ELSE c.of
               within(s) == [k \in DOMAIN s |-> [kind |-> s[k].kind, of |-> of(s[k])]]
    <2>1. in.within = <<>> /\ in.kind = t.kind /\ in.name = t.name
      BY DEF Innermost
    <2>2. within(<<>>) = <<>>
      OBVIOUS
    <2> HIDE DEF within
    <2>3. TransformTypeName(types, t) =
              [within |-> within(t.within), kind |-> t.kind, name |-> t.name,
               astId |-> IF t.kind = "Elementary" THEN Absent ELSE AstId(types, t)]
      BY DEF TransformTypeName, within
    <2>4. TransformTypeName(types, in) =
              [within |-> within(in.within), kind |-> in.kind, name |-> in.name,
               astId |-> IF in.kind = "Elementary" THEN Absent ELSE AstId(types, in)]
      BY DEF TransformTypeName, within
    <2> QED
      BY <1>3, <2>1, <2>2, <2>3, <2>4 DEF PlainName
  <1> QED
    BY <1>1, <1>2, <1>3, <1>4

\* Two structs or enums get different names, since the made-up number is the
\* place of the type in the list.
LEMMA NewNamesAreDistinct ==
    ASSUME NEW types, IsLegacyTypes(types),
           NEW i \in DOMAIN types, NEW j \in DOMAIN types,
           types[i].name = Innermost(types[i].name), types[i].name.kind # "Elementary",
           IsKnown(types, types[j].name),
           TransformTypeName(types, types[i].name) = TransformTypeName(types, types[j].name)
    PROVE  i = j
  <1> DEFINE s == types[i].name
             t == types[j].name
             of(c) == IF c.kind = "Mapping" THEN "unknown" ELSE c.of
             within(q) == [k \in DOMAIN q |-> [kind |-> q[k].kind, of |-> of(q[k])]]
  <1>1. /\ within(s.within) = within(t.within) /\ s.kind = t.kind
        /\ AstId(types, s) = AstId(types, t)
    BY DEF TransformTypeName
  <1>2. s.within = <<>>
    BY DEF Innermost
  <1>3. DOMAIN within(t.within) = {}
    BY <1>1, <1>2
  <1>4. DOMAIN t.within = {}
    BY <1>3
  <1>5. t.within = <<>>
    <2>1. t.within \in Seq(Range(t.within))
      BY DEF IsLegacyTypes, IsTypeName, IsList
    <2> HIDE DEF t
    <2> QED BY <1>4, <2>1
  <1>6. t = Innermost(t)
    BY <1>5 DEF IsLegacyTypes, IsTypeName, Innermost
  <1>7. AstId(types, t) \in Indices(types, t)
    BY <1>1 DEF IsKnown, AstId
  <1>8. i \in Indices(types, s)
    BY DEF Indices
  <1>9. AstId(types, s) \in Indices(types, s)
    BY <1>8 DEF AstId
  <1>10. s = t
    BY <1>1, <1>6, <1>7, <1>9 DEF Indices
  <1> QED
    BY <1>10 DEF IsLegacyTypes

\* What the new layout says under the new name of a struct or an enum is made
\* of the type that the CLI had under the old one.
LEMMA DeclarationsAreKept ==
    ASSUME NEW types, IsLegacyTypes(types),
           \A i \in DOMAIN types : IsKnown(types, types[i].name),
           NEW t, t.kind # "Elementary", IsKnown(types, t)
    PROVE  \E i \in DOMAIN types :
               /\ types[i].name = Innermost(t) /\ DeclarationOf(types, t) = types[i].members
               /\ TransformTypes(types)[PlainName(TransformTypeName(types, t))]
                      = TransformMembers(types, types[i])
  <1> DEFINE name(k) == TransformTypeName(types, types[k].name)
             id == PlainName(TransformTypeName(types, t))
             last == CHOOSE j \in DOMAIN types :
                         name(j) = id /\ \A k \in DOMAIN types : name(k) = id => k <= j
  <1>1. PICK i : i = CHOOSE j \in Indices(types, t) : TRUE
    OBVIOUS
  <1>2. i \in DOMAIN types /\ types[i].name = Innermost(t)
    BY <1>1 DEF IsKnown, Indices
  <1>3. name(i) = id
    BY <1>2, NewNameOfInnermost
  <1>4. i \in Int
    BY <1>2 DEF IsLegacyTypes, IsList
  <1>5. types[i].name = Innermost(types[i].name) /\ types[i].name.kind # "Elementary"
    BY <1>2, NewNameOfInnermost DEF Innermost
  <1>6. ASSUME NEW k \in DOMAIN types, name(k) = id PROVE k = i
    BY <1>2, <1>3, <1>5, <1>6, NewNamesAreDistinct
  <1> HIDE DEF name, id
  <1>7. last = i
    BY <1>2, <1>3, <1>4, <1>6
  <1>8. id \in {name(k) : k \in DOMAIN types}
    BY <1>2, <1>3
  <1>9. TransformTypes(types)[id] = TransformMembers(types, types[last])
    BY <1>8 DEF TransformTypes, name
  <1>10. DeclarationOf(types, t) = types[i].members
    BY <1>1 DEF DeclarationOf
  <1> QED
    BY <1>2, <1>7, <1>9, <1>10 DEF id

\* A known type and its new name look the same from outside.
LEMMA NewNamesLookAlike ==
    ASSUME NEW contract, IsLegacyTypes(contract.types),
           \A i \in DOMAIN contract.types : IsKnown(contract.types, contract.types[i].name),
           NEW t, IsKnown(contract.types, t)
    PROVE  SameType(contract, TransformLayout(contract), t, TransformTypeName(contract.types, t))
  <1> DEFINE types == contract.types
             layout == TransformLayout(contract)
             id == TransformTypeName(types, t)
  <1>1. layout.types = TransformTypes(types)
    BY DEF TransformLayout
  <1>2. /\ t.kind = id.kind /\ t.name = id.name
        /\ DOMAIN t.within = DOMAIN id.within
        /\ \A k \in DOMAIN t.within :
               /\ t.within[k].kind = id.within[k].kind
               /\ t.within[k].kind # "Mapping" => t.within[k].of = id.within[k].of
    BY DEF TransformTypeName
  <1>3. ASSUME t.kind # "Elementary"
        PROVE  \E i \in DOMAIN types :
                   /\ types[i].name = Innermost(t) /\ DeclarationOf(types, t) = types[i].members
                   /\ layout.types[PlainName(id)] = TransformMembers(types, types[i])
    BY <1>1, <1>3, DeclarationsAreKept
  <1>4. Innermost(t).within = <<>> /\ Innermost(t).kind = t.kind
    BY DEF Innermost
  <1> HIDE DEF types, layout, id
  <1>5. ASSUME t.kind = "Enum"
        PROVE  DeclarationOf(types, t) = layout.types[PlainName(id)]
    <2>1. PICK i \in DOMAIN types :
              /\ types[i].name = Innermost(t) /\ DeclarationOf(types, t) = types[i].members
              /\ layout.types[PlainName(id)] = TransformMembers(types, types[i])
      BY <1>3, <1>5
    <2>2. ~IsA("Struct", types[i].name)
      BY <1>4, <1>5, <2>1 DEF IsA
    <2> QED BY <2>1, <2>2 DEF TransformMembers
  <1>6. ASSUME t.kind = "Struct"
        PROVE  SameLabels(DeclarationOf(types, t), layout.types[PlainName(id)])
    <2>1. PICK i \in DOMAIN types :
              /\ types[i].name = Innermost(t) /\ DeclarationOf(types, t) = types[i].members
              /\ layout.types[PlainName(id)] = TransformMembers(types, types[i])
      BY <1>3, <1>6
    <2>2. IsA("Struct", types[i].name)
      BY <1>4, <1>6, <2>1 DEF IsA
    <2> QED BY <2>1, <2>2 DEF TransformMembers, TransformItem, SameLabels
  <1> QED
    BY <1>2, <1>5, <1>6 DEF SameType, types, layout, id

\* The names of the types that a contract uses, in its variables and in the
\* members of its structs.
UsedNames(contract) ==
    {contract.storage[k].type : k \in DOMAIN contract.storage}
        \union UNION {{contract.types[i].members[k].type : k \in DOMAIN contract.types[i].members} :
                         i \in {j \in DOMAIN contract.types :
                                   IsA("Struct", contract.types[j].name)}}

NewNamePairs(contract) ==
    {<<t, TransformTypeName(contract.types, t)>> : t \in UsedNames(contract)}

\* The members of two structs, as MetTypes follows them.
MembersOf(contract, layout, pair) ==
    IF pair[1].kind = "Struct" /\ pair[2].kind = "Struct"
    THEN SideBySide(DeclarationOf(contract.types, pair[1]), layout.types[PlainName(pair[2])])
    ELSE {}

\* From a used name and its new name a reader comes to another such pair.
LEMMA MembersAreUsed ==
    ASSUME NEW contract, IsLegacyTypes(contract.types),
           \A i \in DOMAIN contract.types : IsKnown(contract.types, contract.types[i].name),
           NEW pair \in NewNamePairs(contract), IsKnown(contract.types, pair[1])
    PROVE  MembersOf(contract, TransformLayout(contract), pair) \subseteq NewNamePairs(contract)
  <1> DEFINE types == contract.types
             layout == TransformLayout(contract)
             t == pair[1]
  <1>1. pair[2] = TransformTypeName(types, t)
    BY DEF NewNamePairs
  <1>2. layout.types = TransformTypes(types)
    BY DEF TransformLayout
  <1>3. CASE t.kind # "Struct"
    BY <1>3 DEF MembersOf
  <1>4. CASE t.kind = "Struct"
    <2>1. PICK i \in DOMAIN types :
              /\ types[i].name = Innermost(t) /\ DeclarationOf(types, t) = types[i].members
              /\ TransformTypes(types)[PlainName(TransformTypeName(types, t))]
                     = TransformMembers(types, types[i])
      BY <1>4, DeclarationsAreKept
    <2>2. IsA("Struct", types[i].name)
      BY <1>4, <2>1 DEF IsA, Innermost
    <2> DEFINE members == types[i].members
    <2>3. layout.types[PlainName(pair[2])] = [k \in DOMAIN members |-> TransformItem(types, members[k])]
      BY <1>1, <1>2, <2>1, <2>2 DEF TransformMembers
    <2>4. ASSUME NEW k \in DOMAIN members
          PROVE  <<members[k].type, TransformItem(types, members[k]).type>> \in NewNamePairs(contract)
      <3>1. members[k].type \in UsedNames(contract)
        BY <2>2 DEF UsedNames
      <3>2. TransformItem(types, members[k]).type = TransformTypeName(types, members[k].type)
        BY DEF TransformItem
      <3> QED BY <3>1, <3>2 DEF NewNamePairs
    <2> HIDE DEF members, layout
    <2>5. SideBySide(members, layout.types[PlainName(pair[2])]) \subseteq NewNamePairs(contract)
      BY <2>3, <2>4 DEF SideBySide
    <2> QED
      BY <2>1, <2>5 DEF MembersOf, members, layout
  <1> QED
    BY <1>3, <1>4

\* All that a reader meets are used names with their new names.
LEMMA MetTypesAreUsed ==
    ASSUME NEW contract, IsLegacyTypes(contract.types), IsLayoutKnown(contract),
           NEW depth \in Nat
    PROVE  MetTypes(contract, TransformLayout(contract), depth) \subseteq NewNamePairs(contract)
  <1> DEFINE layout == TransformLayout(contract)
             U == NewNamePairs(contract)
             from == SideBySide(contract.storage, layout.storage)
             succ == [pair \in U |-> MembersOf(contract, layout, pair)]
             Equation(G) ==
                 G = [d \in Nat |->
                         IF d = 0 THEN from
                         ELSE G[d - 1] \union UNION {MembersOf(contract, layout, pair) : pair \in G[d - 1]}]
             Met == CHOOSE G : Equation(G)
  <1>1. \A t \in UsedNames(contract) : IsKnown(contract.types, t)
    BY DEF UsedNames, IsLayoutKnown
  <1>2. \A i \in DOMAIN contract.types : IsKnown(contract.types, contract.types[i].name)
    BY DEF IsLayoutKnown
  <1>3. ASSUME NEW pair \in U PROVE MembersOf(contract, layout, pair) \subseteq U
    <2>1. IsKnown(contract.types, pair[1])
      BY <1>1 DEF NewNamePairs
    <2> QED BY <1>2, <2>1, MembersAreUsed
  <1>4. from \subseteq U
    <2>1. layout.storage = [k \in DOMAIN contract.storage |->
                               TransformItem(contract.types, contract.storage[k])]
      BY DEF TransformLayout
    <2>2. ASSUME NEW k \in DOMAIN contract.storage
          PROVE  <<contract.storage[k].type, layout.storage[k].type>> \in U
      <3>1. contract.storage[k].type \in UsedNames(contract)
        BY DEF UsedNames
      <3>2. layout.storage[k].type = TransformTypeName(contract.types, contract.storage[k].type)
        BY <2>1 DEF TransformItem
      <3> QED BY <3>1, <3>2 DEF NewNamePairs
    <2> HIDE DEF layout, U
    <2> QED BY <2>1, <2>2 DEF SideBySide
  <1>5. MetTypes(contract, layout, depth) = Met[depth]
    BY DEF MetTypes, MembersOf
  <1> HIDE DEF layout, U, from
  <1>6. succ \in [U -> SUBSET U]
    BY <1>3
  <1>7. PICK G \in [Nat -> SUBSET U] : Iterates(G, from, succ)
    <2> HIDE DEF succ
    <2> QED BY <1>4, <1>6, GrowIsDefined
  <1>8. Equation(G)
    <2>1. ASSUME NEW d \in Nat
          PROVE  G[d] = IF d = 0 THEN from
                        ELSE G[d - 1] \union UNION {MembersOf(contract, layout, pair) : pair \in G[d - 1]}
      <3>1. CASE d = 0
        BY <1>7, <3>1 DEF Iterates
      <3>2. CASE d # 0
        <4>1. d - 1 \in Nat
          BY <3>2
        <4>2. G[d - 1] \subseteq U
          BY <1>7, <4>1
        <4>3. G[d] = G[d - 1] \union UNION {succ[pair] : pair \in G[d - 1]}
          BY <1>7, <3>2 DEF Iterates
        <4>4. {succ[pair] : pair \in G[d - 1]} = {MembersOf(contract, layout, pair) : pair \in G[d - 1]}
          BY <4>2
        <4> QED BY <3>2, <4>3, <4>4
      <3> QED BY <3>1, <3>2
    <2> QED BY <1>7, <2>1
  <1>9. Equation(Met)
    <2> HIDE DEF Equation
    <2> QED BY <1>8
  <1> DEFINE F == {d \in Nat : Met[d] \subseteq U}
  <1> HIDE DEF Met
  <1>10. 0 \in F
    BY <1>4, <1>9
  <1>11. ASSUME NEW d \in Nat, d \in F PROVE d + 1 \in F
    <2>1. d + 1 \in Nat /\ d + 1 # 0 /\ (d + 1) - 1 = d
      OBVIOUS
    <2>2. Met[d + 1] = Met[d] \union UNION {MembersOf(contract, layout, pair) : pair \in Met[d]}
      BY <1>9, <2>1
    <2>3. Met[d] \subseteq U
      BY <1>11
    <2> QED BY <1>3, <2>2, <2>3
  <1>12. depth \in F
    <2> HIDE DEF F
    <2> QED BY <1>10, <1>11, NatSetInduction
  <1> QED
    BY <1>5, <1>12 DEF layout, U

\* A layout that is converted is read as before.
LEMMA LayoutIsKept ==
    ASSUME NEW contract, IsLegacyTypes(contract.types), IsLayoutKnown(contract)
    PROVE  SameLayout(contract, TransformLayout(contract))
  <1> DEFINE layout == TransformLayout(contract)
  <1>1. SameLabels(contract.storage, layout.storage)
    BY DEF TransformLayout, TransformItem, SameLabels
  <1>2. ASSUME NEW pair \in MetTypes(contract, layout, Depth)
        PROVE  SameType(contract, layout, pair[1], pair[2])
    <2>1. pair \in NewNamePairs(contract)
      BY MetTypesAreUsed, MigrationAssumption
    <2>2. PICK t \in UsedNames(contract) : pair = <<t, TransformTypeName(contract.types, t)>>
      BY <2>1 DEF NewNamePairs
    <2>3. IsKnown(contract.types, t)
      BY DEF UsedNames, IsLayoutKnown
    <2>4. \A i \in DOMAIN contract.types : IsKnown(contract.types, contract.types[i].name)
      BY DEF IsLayoutKnown
    <2> QED BY <2>2, <2>3, <2>4, NewNamesLookAlike
  <1> QED
    BY <1>1, <1>2 DEF SameLayout

\* A set of numbers up to n has a greatest one.
LEMMA GreatestIsOne ==
    ASSUME NEW n \in Nat, NEW s \in SUBSET (1 .. n), s # {}
    PROVE  \E k \in s : \A l \in s : l <= k
  <1> DEFINE F == {m \in Nat : \A r \in SUBSET (1 .. m) : r # {} => \E k \in r : \A l \in r : l <= k}
  <1>1. 0 \in F
    <2>1. 1 .. 0 = {}
      OBVIOUS
    <2> QED BY <2>1
  <1>2. ASSUME NEW m \in Nat, m \in F PROVE m + 1 \in F
    <2>1. SUFFICES ASSUME NEW r \in SUBSET (1 .. m + 1), r # {}
                   PROVE  \E k \in r : \A l \in r : l <= k
      OBVIOUS
    <2>2. CASE m + 1 \in r
      BY <2>2
    <2>3. CASE m + 1 \notin r
      <3>1. r \in SUBSET (1 .. m)
        BY <2>3
      <3> QED BY <1>2, <2>1, <3>1
    <2> QED BY <2>2, <2>3
  <1>3. n \in F
    <2> HIDE DEF F
    <2> QED BY <1>1, <1>2, NatSetInduction
  <1> QED BY <1>3

\* Every implementation of a manifest that is made comes of a contract.
LEMMA ImplsAreContracts ==
    ASSUME NEW data, IsLegacyFile(data), data # NoFile, CanUpdate(data),
           NEW h \in DOMAIN TransformImplementations(data.contracts)
    PROVE  \E i \in DOMAIN data.contracts :
               /\ data.contracts[i].deployedBytecodeHash = h
               /\ data.contracts[i].address = TransformImplementations(data.contracts)[h].address
               /\ SameLayout(data.contracts[i], TransformImplementations(data.contracts)[h].layout)
  <1> DEFINE list == data.contracts
             hash(i) == list[i].deployedBytecodeHash
             hashed == {i \in DOMAIN list : hash(i) # Absent}
             same == {i \in hashed : hash(i) = h}
             last == CHOOSE i \in hashed : hash(i) = h /\ \A j \in hashed : hash(j) = h => j <= i
  <1>1. TransformImplementations(list)
            = [g \in {hash(i) : i \in hashed} |->
                  LET i == CHOOSE i \in hashed : hash(i) = g /\ \A j \in hashed : hash(j) = g => j <= i
                  IN [address |-> list[i].address, layout |-> TransformLayout(list[i])]]
    BY DEF TransformImplementations
  <1>2. h \in {hash(i) : i \in hashed}
    BY <1>1
  <1>3. TransformImplementations(list)[h]
            = [address |-> list[last].address, layout |-> TransformLayout(list[last])]
    BY <1>1, <1>2
  <1>4. last \in hashed /\ hash(last) = h
    <2>1. PICK n \in Nat : DOMAIN list = 1 .. n
      BY DEF IsLegacyFile, IsList
    <2>2. same \in SUBSET (1 .. n) /\ same # {}
      BY <1>2, <2>1
    <2>3. \E k \in same : \A l \in same : l <= k
      <3> HIDE DEF same
      <3> QED BY <2>2, GreatestIsOne
    <2>4. \E i \in hashed : hash(i) = h /\ \A j \in hashed : hash(j) = h => j <= i
      BY <2>3
    <2> HIDE DEF hashed, hash
    <2> QED BY <2>4
  <1> HIDE DEF last
  <1>5. IsLayoutKnown(list[last])
    BY <1>4 DEF CanUpdate
  <1>6. IsLegacyTypes(list[last].types)
    BY <1>4, <1>5 DEF IsLegacyFile, IsLayoutKnown
  <1>7. SameLayout(list[last], TransformLayout(list[last]))
    BY <1>5, <1>6, LayoutIsKept
  <1> QED
    BY <1>3, <1>4, <1>7

\* The files of one network: the one that the CLI left and the one that the
\* plugin opens, which are the same for a public network.

Migratable == Public \union Unknown

\* A manifest that the script made of a file of the CLI, or the plugin of
\* nothing, which adds proxies but here no implementations.
IsNewManifest(data, m) ==
    /\ m = [manifestVersion |-> "3.2", impls |-> m.impls, proxies |-> m.proxies, admin |-> m.admin]
    /\ \/ m.impls = <<>>
       \/ /\ data # NoFile /\ CanUpdate(data)
          /\ m.impls = TransformImplementations(data.contracts)

\* The file that the plugin opens has the proxies of the CLI.
HasProxies(n) ==
    \/ disk[ManifestFile(n)] = Torn
    \/ UpgradeableProxies(legacy[n]) \subseteq ProxiesIn(disk[ManifestFile(n)])

PublicFile(n) ==
    LET content == disk[<<n, "">>]
    IN \/ content = legacy[n] /\ n \notin deployed
       \/ content = Torn
       \/ /\ IsNewManifest(legacy[n], content)
          /\ UpgradeableProxies(legacy[n]) \subseteq content.proxies
          /\ n \in deployed => Fresh \in content.proxies

UnknownFiles(n) ==
    /\ disk[<<n, "dev">>] = legacy[n]
    /\ disk[<<n, "unknown">>] \in {NoFile, Torn} \/ IsNewManifest(legacy[n], disk[<<n, "unknown">>])

\* What the script is about to write is made of what the CLI left.
IsConverted(n) ==
    /\ legacy[n] # NoFile /\ CanUpdate(legacy[n])
    /\ newManifests[n] = UpdateManifestData(legacy[n])
    /\ n \in Public => disk[<<n, "">>] = legacy[n]

\* Only networks of which the script still holds the new manifest may lack
\* the proxies of the CLI.
MigrationInv ==
    /\ legacy \in Directories /\ DOMAIN disk = Networks \X {"", "dev", "unknown"}
    /\ projectFile \in BOOLEAN /\ phase \in {"idle", "write", "delete"}
    /\ manifestFiles \subseteq Development
    /\ \A n \in Public : PublicFile(n)
    /\ \A n \in Unknown : UnknownFiles(n)
    /\ DOMAIN newManifests \subseteq Migratable
    /\ phase # "write" => DOMAIN newManifests = {}
    /\ \A n \in DOMAIN newManifests : IsConverted(n)
    /\ phase = "write" => \A n \in Migratable \ DOMAIN newManifests : HasProxies(n)
    /\ phase = "delete" \/ ~projectFile => \A n \in Migratable : HasProxies(n)

LEMMA Marks ==
    NoFile.manifestVersion = "no file" /\ Torn.manifestVersion = "torn" /\ NoFile # Torn
  <1>1. NoFile.manifestVersion = "no file" /\ Torn.manifestVersion = "torn"
    BY DEF NoFile, Torn
  <1> QED
    BY <1>1

LEMMA Locations ==
    /\ \A n \in Public : /\ OldLocation(n) = <<n, "">> /\ NewManifestLocation(n) = <<n, "">>
                         /\ ManifestFile(n) = <<n, "">>
    /\ \A n \in Unknown : /\ OldLocation(n) = <<n, "dev">> /\ NewManifestLocation(n) = <<n, "unknown">>
                          /\ ManifestFile(n) = <<n, "unknown">>
    /\ \A n \in Development : /\ OldLocation(n) = <<n, "dev">> /\ ManifestFile(n) = <<n, "unknown">>
                              /\ n \notin Public /\ n \notin Unknown
  BY MigrationAssumption DEF OldLocation, NewManifestLocation, ManifestFile

\* What the CLI left is no manifest, and its proxies are found in it.
LEMMA LegacyFiles ==
    ASSUME legacy \in Directories, NEW n \in Migratable
    PROVE  /\ IsLegacyFile(legacy[n]) /\ legacy[n] # Torn
           /\ ~IsMigrated(legacy[n])
           /\ UpgradeableProxies(legacy[n]) \subseteq ProxiesIn(legacy[n])
           /\ legacy[n] = NoFile => UpgradeableProxies(legacy[n]) = {}
  <1>1. IsLegacyFile(legacy[n])
    BY MigrationAssumption DEF Migratable
  <1>2. legacy[n].manifestVersion # "3.2" /\ legacy[n].manifestVersion # "torn"
    BY <1>1 DEF IsLegacyFile
  <1>3. legacy[n] # Torn
    BY <1>2 DEF Torn
  <1>4. ~IsMigrated(legacy[n])
    BY <1>2 DEF IsMigrated
  <1>5. legacy[n] = NoFile => UpgradeableProxies(legacy[n]) = {}
    BY DEF UpgradeableProxies
  <1>6. CASE legacy[n] # NoFile
    <2>1. ProxiesIn(legacy[n]) = TransformProxies(legacy[n].proxies)
      BY <1>3, <1>4, <1>6 DEF ProxiesIn
    <2>2. UpgradeableProxies(legacy[n]) = TransformProxies(legacy[n].proxies)
      BY <1>6 DEF UpgradeableProxies, TransformProxies
    <2> QED BY <1>1, <1>3, <1>4, <1>6, <2>1, <2>2
  <1> QED
    BY <1>1, <1>3, <1>4, <1>5, <1>6

LEMMA NewManifests ==
    ASSUME NEW data, NEW m, IsNewManifest(data, m)
    PROVE  m # NoFile /\ m # Torn /\ IsMigrated(m) /\ ProxiesIn(m) = m.proxies
  <1>1. m.manifestVersion = "3.2"
    BY DEF IsNewManifest
  <1>2. m # NoFile /\ m # Torn
    BY <1>1, Marks
  <1> QED
    BY <1>1, <1>2 DEF IsMigrated, ProxiesIn

LEMMA UpdateIsNew ==
    ASSUME NEW data, data # NoFile, CanUpdate(data)
    PROVE  /\ IsNewManifest(data, UpdateManifestData(data))
           /\ UpgradeableProxies(data) \subseteq UpdateManifestData(data).proxies
  <1>1. UpgradeableProxies(data) = TransformProxies(data.proxies)
    BY DEF UpgradeableProxies, TransformProxies
  <1> QED
    BY <1>1 DEF IsNewManifest, UpdateManifestData

\* The file of a public network never lacks the proxies of the CLI.
LEMMA PublicHasProxies ==
    ASSUME legacy \in Directories, NEW n \in Public, PublicFile(n)
    PROVE  HasProxies(n)
  <1>1. ManifestFile(n) = <<n, "">> /\ n \in Migratable
    BY Locations DEF Migratable
  <1>2. CASE disk[<<n, "">>] = legacy[n]
    BY <1>1, <1>2, LegacyFiles DEF HasProxies
  <1>3. CASE disk[<<n, "">>] = Torn
    BY <1>1, <1>3 DEF HasProxies
  <1>4. CASE /\ IsNewManifest(legacy[n], disk[<<n, "">>])
             /\ UpgradeableProxies(legacy[n]) \subseteq disk[<<n, "">>].proxies
    BY <1>1, <1>4, NewManifests DEF HasProxies
  <1> QED
    BY <1>2, <1>3, <1>4 DEF PublicFile

\* Nothing of a network changes with the files of another one.
LEMMA FilesStay ==
    ASSUME NEW n, legacy' = legacy
    PROVE  /\ (n \in deployed' <=> n \in deployed) /\ disk'[<<n, "">>] = disk[<<n, "">>] =>
                  PublicFile(n)' = PublicFile(n)
           /\ disk'[<<n, "dev">>] = disk[<<n, "dev">>] /\ disk'[<<n, "unknown">>] = disk[<<n, "unknown">>] =>
                  UnknownFiles(n)' = UnknownFiles(n)
           /\ disk'[ManifestFile(n)] = disk[ManifestFile(n)] => HasProxies(n)' = HasProxies(n)
           /\ newManifests'[n] = newManifests[n] /\ disk'[<<n, "">>] = disk[<<n, "">>] =>
                  IsConverted(n)' = IsConverted(n)
  BY DEF PublicFile, UnknownFiles, HasProxies, IsConverted, ManifestFile

\* A write to a file of one network.
LEMMA WriteElsewhere ==
    ASSUME MigrationInv, NEW network \in Networks, NEW content,
           NEW loc, loc \in {OldLocation(network), NewManifestLocation(network), ManifestFile(network)},
           disk' = [disk EXCEPT ![loc] = content]
    PROVE  /\ DOMAIN disk' = DOMAIN disk /\ disk'[loc] = content
           /\ \A n \in Networks :
                  n # network =>
                      /\ disk'[<<n, "">>] = disk[<<n, "">>] /\ disk'[<<n, "dev">>] = disk[<<n, "dev">>]
                      /\ disk'[<<n, "unknown">>] = disk[<<n, "unknown">>]
                      /\ disk'[ManifestFile(n)] = disk[ManifestFile(n)]
  <1>1. PICK e \in {"", "dev", "unknown"} : loc = <<network, e>>
    BY DEF OldLocation, NewManifestLocation, ManifestFile
  <1>2. DOMAIN disk = Networks \X {"", "dev", "unknown"}
    BY DEF MigrationInv
  <1>3. DOMAIN disk' = DOMAIN disk /\ disk'[loc] = content
    BY <1>1, <1>2
  <1>4. ASSUME NEW n \in Networks, n # network, NEW d \in {"", "dev", "unknown"}
        PROVE  disk'[<<n, d>>] = disk[<<n, d>>]
    <2>1. <<n, d>> \in DOMAIN disk /\ <<n, d>> # loc
      BY <1>1, <1>2, <1>4
    <2> QED BY <2>1
  <1>5. ASSUME NEW n \in Networks, n # network
        PROVE  disk'[ManifestFile(n)] = disk[ManifestFile(n)]
    BY <1>4, <1>5 DEF ManifestFile
  <1> QED
    BY <1>3, <1>4, <1>5

LEMMA MigratableAreNetworks ==
    /\ Migratable \subseteq Networks /\ Development \subseteq Networks
    /\ Public \subseteq Migratable /\ Unknown \subseteq Migratable
  BY DEF Migratable, Networks

LEMMA StartKeepsMigrationInv ==
    ASSUME MigrationInv, StartMigration
    PROVE  MigrationInv'
  <1> DEFINE listed == {n \in Public \union Unknown : Exists(OldLocation(n))}
             data == [n \in listed |-> disk[OldLocation(n)]]
             outdated == {n \in listed : ~IsMigrated(data[n])}
  <1>1. UNCHANGED <<legacy, disk, projectFile, deployed>> /\ phase = "idle"
    BY DEF StartMigration
  <1>2. /\ \A n \in Public : PublicFile(n)'
        /\ \A n \in Unknown : UnknownFiles(n)'
        /\ \A n : HasProxies(n)' = HasProxies(n)
    BY <1>1, FilesStay DEF MigrationInv
  <1>3. CASE \E n \in listed : IsRejected(data[n])
    <2>1. ExportEnds
      BY <1>3 DEF StartMigration
    <2>2. DOMAIN newManifests' = {} /\ phase' = "idle" /\ manifestFiles' = {}
      BY <2>1 DEF ExportEnds
    <2> QED
      BY <1>1, <1>2, <2>2 DEF MigrationInv
  <1>4. CASE ~\E n \in listed : IsRejected(data[n])
    <2>1. /\ newManifests' = [n \in outdated |-> UpdateManifestData(data[n])]
          /\ manifestFiles' = {n \in Development : Exists(OldLocation(n))}
          /\ phase' = "write"
      BY <1>4 DEF StartMigration
    <2>2. ASSUME NEW n \in outdated PROVE IsConverted(n)'
      <3>1. n \in listed /\ ~IsMigrated(data[n]) /\ ~IsRejected(data[n])
        BY <1>4
      <3>2. data[n] # NoFile /\ data[n] = disk[OldLocation(n)]
        BY <3>1 DEF Exists
      <3>3. data[n] # Torn /\ CanUpdate(data[n])
        BY <3>1 DEF IsRejected
      <3>4. data[n] = legacy[n]
        <4>1. CASE n \in Public
          <5>1. OldLocation(n) = <<n, "">> /\ PublicFile(n)
            BY <4>1, Locations DEF MigrationInv
          <5> QED
            BY <3>1, <3>2, <3>3, <5>1, NewManifests DEF PublicFile
        <4>2. CASE n \in Unknown
          BY <3>2, <4>2, Locations DEF MigrationInv, UnknownFiles
        <4> QED BY <3>1, <4>1, <4>2
      <3>5. newManifests'[n] = UpdateManifestData(legacy[n])
        BY <2>1, <3>4
      <3>6. n \in Public => disk[<<n, "">>] = legacy[n]
        BY <3>2, <3>4, Locations
      <3> HIDE DEF data
      <3> QED
        BY <1>1, <3>2, <3>3, <3>4, <3>5, <3>6 DEF IsConverted
    <2>3. ASSUME NEW n \in Migratable \ outdated PROVE HasProxies(n)
      <3>1. CASE n \in Public
        BY <3>1, PublicHasProxies DEF MigrationInv
      <3>2. CASE n \in Unknown
        <4>1. disk[OldLocation(n)] = legacy[n] /\ ~IsMigrated(legacy[n])
          BY <3>2, Locations, LegacyFiles DEF MigrationInv, UnknownFiles, Migratable
        <4>2. n \notin listed
          BY <2>3, <4>1
        <4>3. legacy[n] = NoFile
          BY <3>2, <4>1, <4>2 DEF Exists
        <4> QED
          BY <4>3, LegacyFiles DEF HasProxies, MigrationInv
      <3> QED BY <3>1, <3>2 DEF Migratable
    <2>4. DOMAIN newManifests' = outdated /\ outdated \subseteq Migratable
      BY <2>1 DEF Migratable
    <2>5. manifestFiles' \subseteq Development
      BY <2>1
    <2> HIDE DEF outdated
    <2> QED
      BY <1>1, <1>2, <2>1, <2>2, <2>3, <2>4, <2>5 DEF MigrationInv
  <1> QED
    BY <1>3, <1>4

LEMMA WriteManifestKeepsMigrationInv ==
    ASSUME MigrationInv, NEW network \in Networks, WriteManifest(network)
    PROVE  MigrationInv'
  <1> DEFINE loc == NewManifestLocation(network)
             new == newManifests[network]
  <1>1. /\ UNCHANGED <<legacy, projectFile, phase, manifestFiles, deployed>> /\ phase = "write"
        /\ network \in DOMAIN newManifests
        /\ disk' = [disk EXCEPT ![loc] = new]
        /\ newManifests' = [n \in DOMAIN newManifests \ {network} |-> newManifests[n]]
    BY DEF WriteManifest
  <1>2. network \in Migratable /\ IsConverted(network)
    BY <1>1 DEF MigrationInv
  <1>3. loc = ManifestFile(network)
    BY <1>2, Locations DEF Migratable
  <1>4. /\ DOMAIN disk' = DOMAIN disk /\ disk'[loc] = new
        /\ \A n \in Migratable :
               n # network =>
                   /\ disk'[<<n, "">>] = disk[<<n, "">>] /\ disk'[<<n, "dev">>] = disk[<<n, "dev">>]
                   /\ disk'[<<n, "unknown">>] = disk[<<n, "unknown">>]
                   /\ disk'[ManifestFile(n)] = disk[ManifestFile(n)]
    <2> HIDE DEF loc, new
    <2> QED BY <1>1, WriteElsewhere, MigratableAreNetworks DEF loc
  <1>5. disk'[loc] = new
    BY <1>4
  <1>6. IsNewManifest(legacy[network], new) /\ UpgradeableProxies(legacy[network]) \subseteq new.proxies
    BY <1>2, UpdateIsNew DEF IsConverted
  <1>7. new # NoFile /\ new # Torn /\ ProxiesIn(new) = new.proxies
    BY <1>6, NewManifests
  <1> HIDE DEF new, loc
  <1>8. HasProxies(network)'
    BY <1>1, <1>3, <1>5, <1>6, <1>7 DEF HasProxies, ManifestFile
  <1>9. ASSUME NEW n \in Migratable, HasProxies(n) PROVE HasProxies(n)'
    BY <1>1, <1>4, <1>8, <1>9, FilesStay
  <1>10. ASSUME NEW n \in Public PROVE PublicFile(n)'
    <2>1. CASE n # network
      BY <1>1, <1>4, <2>1, FilesStay, MigratableAreNetworks DEF MigrationInv
    <2>2. CASE n = network
      <3>1. loc = <<n, "">> /\ PublicFile(n) /\ disk[<<n, "">>] = legacy[n]
        BY <1>2, <1>3, <2>2, Locations DEF MigrationInv, IsConverted
      <3>2. n \notin deployed
        BY <1>2, <2>2, <3>1, LegacyFiles, NewManifests DEF PublicFile, MigrationInv
      <3>3. disk'[<<n, "">>] = new
        BY <1>5, <3>1
      <3> QED
        BY <1>1, <1>6, <2>2, <3>2, <3>3 DEF PublicFile
    <2> QED BY <2>1, <2>2
  <1>11. ASSUME NEW n \in Unknown PROVE UnknownFiles(n)'
    <2>1. CASE n # network
      BY <1>1, <1>4, <2>1, FilesStay, MigratableAreNetworks DEF MigrationInv
    <2>2. CASE n = network
      <3>1. loc = <<n, "unknown">> /\ UnknownFiles(n)
        BY <1>3, <2>2, Locations DEF MigrationInv
      <3>2. disk'[<<n, "dev">>] = disk[<<n, "dev">>]
        <4>1. <<n, "dev">> \in DOMAIN disk /\ <<n, "dev">> # loc
          BY <2>2, <3>1 DEF MigrationInv
        <4> QED BY <1>1, <4>1
      <3>3. disk'[<<n, "unknown">>] = new
        BY <1>5, <3>1
      <3> QED
        BY <1>1, <1>6, <2>2, <3>1, <3>2, <3>3 DEF UnknownFiles
    <2> QED BY <2>1, <2>2
  <1>12. ASSUME NEW n \in DOMAIN newManifests' PROVE IsConverted(n)'
    <2>1. n \in DOMAIN newManifests /\ n # network /\ newManifests'[n] = newManifests[n]
      BY <1>1
    <2>2. n \in Migratable
      BY <2>1 DEF MigrationInv
    <2> QED
      BY <1>1, <1>4, <2>1, <2>2, FilesStay DEF MigrationInv
  <1>13. DOMAIN newManifests' = DOMAIN newManifests \ {network}
    BY <1>1
  <1>14. \A n \in Migratable \ DOMAIN newManifests' : HasProxies(n)'
    BY <1>1, <1>8, <1>9, <1>13 DEF MigrationInv
  <1> QED
    BY <1>1, <1>4, <1>9, <1>10, <1>11, <1>12, <1>13, <1>14 DEF MigrationInv

LEMMA ExportKeepsMigrationInv ==
    ASSUME MigrationInv, WriteExport
    PROVE  MigrationInv'
  <1>1. UNCHANGED <<legacy, disk, projectFile, deployed>> /\ phase = "write" /\ DOMAIN newManifests = {}
    BY DEF WriteExport
  <1>2. /\ \A n \in Public : PublicFile(n)'
        /\ \A n \in Unknown : UnknownFiles(n)'
        /\ \A n \in Migratable : HasProxies(n)'
    BY <1>1, FilesStay DEF MigrationInv
  <1>3. /\ DOMAIN newManifests' = {} /\ phase' \in {"delete", "idle"}
        /\ manifestFiles' \subseteq Development
    <2>1. CASE projectFile
      BY <1>1, <2>1 DEF WriteExport, MigrationInv
    <2>2. CASE ~projectFile
      <3>1. ExportEnds
        BY <2>2 DEF WriteExport
      <3> QED BY <3>1 DEF ExportEnds
    <2> QED BY <2>1, <2>2
  <1> QED
    BY <1>1, <1>2, <1>3 DEF MigrationInv

LEMMA DeleteKeepsMigrationInv ==
    ASSUME MigrationInv, NEW network \in Networks, DeleteManifest(network)
    PROVE  MigrationInv'
  <1>1. /\ UNCHANGED <<legacy, projectFile, phase, newManifests, deployed>> /\ phase = "delete"
        /\ network \in Development /\ manifestFiles' \subseteq manifestFiles
        /\ disk' = [disk EXCEPT ![OldLocation(network)] = NoFile]
    BY DEF DeleteManifest, MigrationInv
  <1>2. ASSUME NEW n \in Migratable
        PROVE  /\ disk'[<<n, "">>] = disk[<<n, "">>] /\ disk'[<<n, "dev">>] = disk[<<n, "dev">>]
               /\ disk'[<<n, "unknown">>] = disk[<<n, "unknown">>]
               /\ disk'[ManifestFile(n)] = disk[ManifestFile(n)]
    <2>1. n # network /\ n \in Networks
      BY <1>1, Locations, MigratableAreNetworks DEF Migratable
    <2> QED BY <1>1, <2>1, WriteElsewhere
  <1>3. /\ \A n \in Public : PublicFile(n)'
        /\ \A n \in Unknown : UnknownFiles(n)'
        /\ \A n \in Migratable : HasProxies(n)'
    BY <1>1, <1>2, FilesStay, MigratableAreNetworks DEF MigrationInv
  <1>4. DOMAIN disk' = DOMAIN disk
    BY <1>1
  <1> QED
    BY <1>1, <1>3, <1>4 DEF MigrationInv

LEMMA DeleteProjectKeepsMigrationInv ==
    ASSUME MigrationInv, DeleteProject
    PROVE  MigrationInv'
  <1>1. /\ UNCHANGED <<legacy, disk, deployed>> /\ phase = "delete" /\ projectFile' = FALSE
        /\ phase' = "idle" /\ DOMAIN newManifests' = {} /\ manifestFiles' = {}
    BY DEF DeleteProject, ExportEnds
  <1>2. /\ \A n \in Public : PublicFile(n)'
        /\ \A n \in Unknown : UnknownFiles(n)'
        /\ \A n \in Migratable : HasProxies(n)'
    BY <1>1, FilesStay DEF MigrationInv
  <1> QED
    BY <1>1, <1>2 DEF MigrationInv

LEMMA InterruptKeepsMigrationInv ==
    ASSUME MigrationInv, Interrupt
    PROVE  MigrationInv'
  <1>1. /\ UNCHANGED <<legacy, projectFile, deployed>>
        /\ phase' = "idle" /\ DOMAIN newManifests' = {} /\ manifestFiles' = {}
    BY DEF Interrupt, ExportEnds
  <1>2. CASE disk' = disk
    <2>1. /\ \A n \in Public : PublicFile(n)'
          /\ \A n \in Unknown : UnknownFiles(n)'
          /\ \A n \in Migratable : HasProxies(n) => HasProxies(n)'
      BY <1>1, <1>2, FilesStay DEF MigrationInv
    <2> QED
      BY <1>1, <1>2, <2>1 DEF MigrationInv
  <1>3. CASE disk' # disk
    <2>1. PICK network \in DOMAIN newManifests :
              disk' = [disk EXCEPT ![NewManifestLocation(network)] = Torn]
      BY <1>3 DEF Interrupt
    <2>2. network \in Migratable /\ NewManifestLocation(network) = ManifestFile(network)
      BY Locations DEF MigrationInv, Migratable
    <2>4. disk'[ManifestFile(network)] = Torn /\ DOMAIN disk' = DOMAIN disk
      BY <2>1, <2>2, WriteElsewhere, MigratableAreNetworks
    <2>5. ASSUME NEW n \in Migratable, n # network
          PROVE  /\ disk'[<<n, "">>] = disk[<<n, "">>] /\ disk'[<<n, "dev">>] = disk[<<n, "dev">>]
                 /\ disk'[<<n, "unknown">>] = disk[<<n, "unknown">>]
                 /\ disk'[ManifestFile(n)] = disk[ManifestFile(n)]
      BY <2>1, <2>2, <2>5, WriteElsewhere, MigratableAreNetworks
    <2>6. ASSUME NEW n \in Migratable, HasProxies(n) PROVE HasProxies(n)'
      <3>1. CASE n = network
        BY <2>4, <3>1 DEF HasProxies, ManifestFile
      <3>2. CASE n # network
        BY <1>1, <2>5, <2>6, <3>2, FilesStay
      <3> QED BY <3>1, <3>2
    <2>7. ASSUME NEW n \in Public PROVE PublicFile(n)'
      <3>1. CASE n = network
        BY <2>4, <3>1, Locations DEF PublicFile
      <3>2. CASE n # network
        BY <1>1, <2>5, <3>2, FilesStay, MigratableAreNetworks DEF MigrationInv
      <3> QED BY <3>1, <3>2
    <2>8. ASSUME NEW n \in Unknown PROVE UnknownFiles(n)'
      <3>1. CASE n = network
        <4>1. NewManifestLocation(n) = <<n, "unknown">> /\ disk'[<<n, "unknown">>] = Torn
          BY <2>2, <2>4, <3>1, Locations
        <4>2. <<n, "dev">> \in DOMAIN disk /\ <<n, "dev">> # <<n, "unknown">>
          BY MigratableAreNetworks DEF MigrationInv
        <4>3. disk'[<<n, "dev">>] = disk[<<n, "dev">>]
          BY <2>1, <3>1, <4>1, <4>2
        <4> QED
          BY <1>1, <4>1, <4>3 DEF UnknownFiles, MigrationInv
      <3>2. CASE n # network
        BY <1>1, <2>5, <3>2, FilesStay, MigratableAreNetworks DEF MigrationInv
      <3> QED BY <3>1, <3>2
    <2> QED
      BY <1>1, <2>4, <2>6, <2>7, <2>8 DEF MigrationInv
  <1> QED
    BY <1>2, <1>3

LEMMA AddKeepsMigrationInv ==
    ASSUME MigrationInv, NEW network \in Networks, AddMigratedProxy(network)
    PROVE  MigrationInv'
  <1> DEFINE loc == ManifestFile(network)
             none == [manifestVersion |-> "3.2", impls |-> <<>>, proxies |-> {}, admin |-> Absent]
             old == IF disk[loc] = NoFile THEN none ELSE disk[loc]
             new == [old EXCEPT !.proxies = @ \union {Fresh}]
  <1>1. /\ UNCHANGED <<legacy, projectFile, phase, newManifests, manifestFiles>>
        /\ network \notin deployed /\ deployed' = deployed \union {network}
        /\ disk' = [disk EXCEPT ![loc] = new]
        /\ old # Torn /\ IsMigrated(old)
    BY DEF AddMigratedProxy, scriptLocals
  <1>2. /\ DOMAIN disk' = DOMAIN disk /\ disk'[loc] = new
        /\ \A n \in Migratable :
               n # network =>
                   /\ disk'[<<n, "">>] = disk[<<n, "">>] /\ disk'[<<n, "dev">>] = disk[<<n, "dev">>]
                   /\ disk'[<<n, "unknown">>] = disk[<<n, "unknown">>]
                   /\ disk'[ManifestFile(n)] = disk[ManifestFile(n)]
    <2> HIDE DEF loc, new
    <2> QED BY <1>1, WriteElsewhere, MigratableAreNetworks DEF loc
  <1>3. disk'[loc] = new /\ DOMAIN disk' = DOMAIN disk
    BY <1>2
  <1>4. ASSUME NEW n \in Migratable, n # network
        PROVE  /\ disk'[<<n, "">>] = disk[<<n, "">>] /\ disk'[<<n, "dev">>] = disk[<<n, "dev">>]
               /\ disk'[<<n, "unknown">>] = disk[<<n, "unknown">>]
               /\ disk'[ManifestFile(n)] = disk[ManifestFile(n)]
               /\ n \in deployed' <=> n \in deployed
    <2>1. n \in deployed' <=> n \in deployed
      BY <1>1, <1>4
    <2> HIDE DEF loc, new
    <2> QED BY <1>2, <1>4, <2>1
  \* It writes a manifest where there is none or another one.
  <1>5. ASSUME network \in Migratable, disk[loc] = NoFile \/ IsNewManifest(legacy[network], disk[loc])
        PROVE  /\ IsNewManifest(legacy[network], new) /\ new.proxies = old.proxies \union {Fresh}
               /\ disk[loc] # Torn /\ ProxiesIn(disk[loc]) \subseteq new.proxies
    <2>1. IsNewManifest(legacy[network], old)
      <3>1. CASE disk[loc] = NoFile
        BY <3>1 DEF IsNewManifest
      <3>2. CASE disk[loc] # NoFile
        BY <1>5, <3>2
      <3> QED BY <3>1, <3>2
    <2> HIDE DEF old
    <2>2. PICK i, p, a : old = [manifestVersion |-> "3.2", impls |-> i, proxies |-> p, admin |-> a]
      BY <2>1 DEF IsNewManifest
    <2>3. new = [manifestVersion |-> "3.2", impls |-> i, proxies |-> p \union {Fresh}, admin |-> a]
      BY <2>2
    <2> HIDE DEF new
    <2>6. new.proxies = old.proxies \union {Fresh} /\ new.impls = old.impls
      BY <2>2, <2>3
    <2>7. IsNewManifest(legacy[network], new)
      BY <2>1, <2>3, <2>6 DEF IsNewManifest
    <2>4. ProxiesIn(disk[loc]) \subseteq old.proxies
      <3>1. CASE disk[loc] = NoFile
        BY <3>1 DEF ProxiesIn
      <3>2. CASE disk[loc] # NoFile
        BY <2>1, <3>2, NewManifests DEF old
      <3> QED BY <3>1, <3>2
    <2>5. disk[loc] # Torn
      BY <1>5, NewManifests, Marks
    <2> QED
      BY <2>4, <2>5, <2>6, <2>7
  <1> HIDE DEF new
  <1>6. ASSUME network \in Public
        PROVE  /\ disk[loc] = NoFile \/ IsNewManifest(legacy[network], disk[loc])
               /\ UpgradeableProxies(legacy[network]) \subseteq ProxiesIn(disk[loc])
               /\ network \notin DOMAIN newManifests
    <2>1. loc = <<network, "">> /\ PublicFile(network) /\ network \in Migratable
      BY <1>6, Locations DEF MigrationInv, Migratable
    <2>2. disk[loc] # Torn
      BY <1>1, Marks
    <2>3. CASE disk[loc] = legacy[network]
      <3>1. disk[loc] = NoFile
        BY <1>1, <2>1, <2>3, LegacyFiles DEF MigrationInv
      <3> QED
        BY <2>1, <2>3, <3>1, LegacyFiles DEF MigrationInv, IsConverted
    <2>4. CASE /\ IsNewManifest(legacy[network], disk[loc])
               /\ UpgradeableProxies(legacy[network]) \subseteq disk[loc].proxies
      <3>1. disk[loc] # legacy[network]
        BY <2>1, <2>4, NewManifests, LegacyFiles DEF MigrationInv
      <3>2. network \notin DOMAIN newManifests
        BY <1>6, <2>1, <3>1 DEF MigrationInv, IsConverted
      <3> QED
        BY <2>4, <3>2, NewManifests
    <2> QED BY <2>1, <2>2, <2>3, <2>4 DEF PublicFile
  <1>7. ASSUME network \in Unknown
        PROVE  /\ disk[loc] = NoFile \/ IsNewManifest(legacy[network], disk[loc])
               /\ loc = <<network, "unknown">> /\ UnknownFiles(network)
    <2>1. loc = <<network, "unknown">> /\ UnknownFiles(network)
      BY <1>7, Locations DEF MigrationInv
    <2>2. disk[loc] # Torn
      BY <1>1, Marks
    <2> QED BY <2>1, <2>2 DEF UnknownFiles
  <1>8. ASSUME NEW n \in Public PROVE PublicFile(n)'
    <2>1. CASE n # network
      BY <1>1, <1>4, <2>1, FilesStay, MigratableAreNetworks DEF MigrationInv
    <2>2. CASE n = network
      <3>1. loc = <<n, "">> /\ n \in Migratable
        BY <2>2, Locations DEF Migratable
      <3>2. /\ IsNewManifest(legacy[n], new) /\ Fresh \in new.proxies
            /\ UpgradeableProxies(legacy[n]) \subseteq new.proxies
        BY <1>5, <1>6, <2>2, <3>1
      <3>3. disk'[<<n, "">>] = new
        BY <1>3, <3>1
      <3> QED
        BY <1>1, <3>2, <3>3 DEF PublicFile
    <2> QED BY <2>1, <2>2
  <1>9. ASSUME NEW n \in Unknown PROVE UnknownFiles(n)'
    <2>1. CASE n # network
      BY <1>1, <1>4, <2>1, FilesStay, MigratableAreNetworks DEF MigrationInv
    <2>2. CASE n = network
      <3>1. loc = <<n, "unknown">> /\ UnknownFiles(n) /\ IsNewManifest(legacy[n], new)
        BY <1>5, <1>7, <2>2 DEF Migratable
      <3>2. disk'[<<n, "unknown">>] = new
        BY <1>3, <3>1
      <3>3. disk'[<<n, "dev">>] = disk[<<n, "dev">>]
        <4>1. <<n, "dev">> \in DOMAIN disk
          BY MigratableAreNetworks DEF MigrationInv
        <4>2. <<n, "dev">> # loc
          <5> HIDE DEF loc
          <5> QED BY <3>1
        <4> QED BY <1>1, <4>1, <4>2
      <3> QED
        BY <1>1, <3>1, <3>2, <3>3 DEF UnknownFiles
    <2> QED BY <2>1, <2>2
  <1>10. ASSUME NEW n \in Migratable, HasProxies(n) PROVE HasProxies(n)'
    <2>1. CASE n # network
      BY <1>1, <1>4, <1>10, <2>1, FilesStay
    <2>2. CASE n = network
      <3>1. /\ IsNewManifest(legacy[n], new) /\ disk[loc] # Torn
            /\ ProxiesIn(disk[loc]) \subseteq new.proxies
        BY <1>5, <1>6, <1>7, <2>2 DEF Migratable
      <3>2. UpgradeableProxies(legacy[n]) \subseteq ProxiesIn(new)
        BY <1>10, <2>2, <3>1, NewManifests DEF HasProxies
      <3> QED
        BY <1>1, <1>3, <2>2, <3>2 DEF HasProxies, ManifestFile
    <2> QED BY <2>1, <2>2
  <1>11. ASSUME NEW n \in DOMAIN newManifests PROVE IsConverted(n)'
    <2>1. n \in Migratable
      BY DEF MigrationInv
    <2>2. CASE n \in Public
      BY <1>1, <1>4, <1>6, <2>1, <2>2, FilesStay DEF MigrationInv
    <2>3. CASE n \in Unknown
      BY <1>1, <2>3, Locations, MigrationAssumption DEF IsConverted, MigrationInv
    <2> QED BY <2>1, <2>2, <2>3 DEF Migratable
  <1> QED
    BY <1>1, <1>3, <1>8, <1>9, <1>10, <1>11 DEF MigrationInv

LEMMA StartHasMigrationInv == MigrationInit => MigrationInv
  <1> SUFFICES ASSUME MigrationInit PROVE MigrationInv
    OBVIOUS
  <1>1. /\ legacy \in Directories /\ deployed = {} /\ newManifests = <<>>
        /\ projectFile = TRUE /\ phase = "idle" /\ manifestFiles = {}
        /\ disk = [loc \in Networks \X {"", "dev", "unknown"} |->
                      IF loc = OldLocation(loc[1]) THEN legacy[loc[1]] ELSE NoFile]
    BY DEF MigrationInit
  <1>2. ASSUME NEW n \in Networks, NEW e \in {"", "dev", "unknown"}
        PROVE  disk[<<n, e>>] = IF <<n, e>> = OldLocation(n) THEN legacy[n] ELSE NoFile
    BY <1>1
  <1>3. \A n \in Public : PublicFile(n)
    BY <1>1, <1>2, Locations DEF PublicFile, Networks
  <1>4. ASSUME NEW n \in Unknown PROVE UnknownFiles(n)
    <2>1. OldLocation(n) = <<n, "dev">> /\ <<n, "unknown">> # <<n, "dev">>
      BY Locations
    <2>2. disk[<<n, "dev">>] = legacy[n] /\ disk[<<n, "unknown">>] = NoFile
      BY <1>2, <2>1, MigratableAreNetworks
    <2> QED BY <2>2 DEF UnknownFiles
  <1>5. DOMAIN newManifests = {}
    <2>1. newManifests = <<>>
      BY <1>1
    <2> QED BY <2>1
  <1>6. DOMAIN disk = Networks \X {"", "dev", "unknown"}
    BY <1>1
  <1> QED
    BY <1>1, <1>3, <1>4, <1>5, <1>6 DEF MigrationInv

LEMMA StepKeepsMigrationInv == MigrationInv /\ [MigrationNext]_migrationVars => MigrationInv'
  <1> SUFFICES ASSUME MigrationInv, [MigrationNext]_migrationVars PROVE MigrationInv'
    OBVIOUS
  <1>1. CASE UNCHANGED migrationVars
    <2>1. UNCHANGED <<legacy, disk, projectFile, phase, newManifests, manifestFiles, deployed>>
      BY <1>1 DEF migrationVars, scriptLocals
    <2>2. /\ \A n : PublicFile(n)' = PublicFile(n) /\ UnknownFiles(n)' = UnknownFiles(n)
          /\ \A n : HasProxies(n)' = HasProxies(n) /\ IsConverted(n)' = IsConverted(n)
      BY <2>1, FilesStay
    <2> QED BY <2>1, <2>2 DEF MigrationInv
  <1>2. CASE StartMigration
    BY <1>2, StartKeepsMigrationInv
  <1>3. CASE WriteExport
    BY <1>3, ExportKeepsMigrationInv
  <1>4. CASE DeleteProject
    BY <1>4, DeleteProjectKeepsMigrationInv
  <1>5. CASE Interrupt
    BY <1>5, InterruptKeepsMigrationInv
  <1>6. ASSUME NEW network \in Networks, WriteManifest(network) PROVE MigrationInv'
    BY <1>6, WriteManifestKeepsMigrationInv
  <1>7. ASSUME NEW network \in Networks, DeleteManifest(network) PROVE MigrationInv'
    BY <1>7, DeleteKeepsMigrationInv
  <1>8. ASSUME NEW network \in Networks, AddMigratedProxy(network) PROVE MigrationInv'
    BY <1>8, AddKeepsMigrationInv
  <1> QED
    BY <1>1, <1>2, <1>3, <1>4, <1>5, <1>6, <1>7, <1>8 DEF MigrationNext

\* The files of every network, and what the script holds, are as MigrationInv
\* says: what is read was left by the CLI, torn, or made of what it left.
THEOREM MigrationInvIsInvariant == MigrationSpec => []MigrationInv
<1>1. MigrationInit => MigrationInv
  BY StartHasMigrationInv
<1>2. MigrationInv /\ [MigrationNext]_migrationVars => MigrationInv'
  BY StepKeepsMigrationInv
<1> QED
  BY <1>1, <1>2, PTL DEF MigrationSpec

\* Wherever migrate-oz-cli-project.ts stops and however often it is run again, no
\* proxy of the CLI is lost but to a write that was cut short, and none of those
\* that the plugin adds on a public network.
THEOREM ProxiesAreKept_Safe == MigrationSpec => []ProxiesAreKept
<1>1. MigrationInv => ProxiesAreKept
  <2> SUFFICES ASSUME MigrationInv, NEW n \in Public \union Unknown,
                      Torn \notin {disk[OldLocation(n)], disk[ManifestFile(n)]}
               PROVE  /\ UpgradeableProxies(legacy[n])
                             \subseteq ProxiesIn(disk[OldLocation(n)]) \union ProxiesIn(disk[ManifestFile(n)])
                      /\ ~projectFile => UpgradeableProxies(legacy[n]) \subseteq ProxiesIn(disk[ManifestFile(n)])
                      /\ n \in deployed \cap Public => Fresh \in ProxiesIn(disk[ManifestFile(n)])
    BY DEF ProxiesAreKept
  <2>1. n \in Migratable
    BY DEF Migratable
  <2>2. ~projectFile => UpgradeableProxies(legacy[n]) \subseteq ProxiesIn(disk[ManifestFile(n)])
    BY <2>1 DEF MigrationInv, HasProxies
  <2>3. CASE n \in Public
    <3>1. HasProxies(n) /\ PublicFile(n) /\ ManifestFile(n) = <<n, "">>
      BY <2>3, PublicHasProxies, Locations DEF MigrationInv
    <3>2. n \in deployed => Fresh \in ProxiesIn(disk[ManifestFile(n)])
      BY <3>1, NewManifests DEF PublicFile
    <3> QED BY <2>2, <3>1, <3>2 DEF HasProxies
  <2>4. CASE n \in Unknown
    <3>1. disk[OldLocation(n)] = legacy[n]
      BY <2>4, Locations DEF MigrationInv, UnknownFiles
    <3>2. UpgradeableProxies(legacy[n]) \subseteq ProxiesIn(legacy[n])
      BY <2>1, LegacyFiles DEF MigrationInv
    <3>3. n \notin Public
      BY <2>4, MigrationAssumption
    <3> QED BY <2>2, <3>1, <3>2, <3>3
  <2> QED BY <2>3, <2>4
<1> QED
  BY <1>1, MigrationInvIsInvariant, PTL

\* transformImplementations gives a manifest only implementations that the CLI
\* knew under their hash, and transformLayout layouts that lead from every
\* variable to the same members and values, however deep types nest.
THEOREM LayoutsAreKept_Safe == MigrationSpec => []LayoutsAreKept
<1>1. MigrationInv => LayoutsAreKept
  <2> SUFFICES ASSUME MigrationInv, NEW n \in Public \union Unknown,
                      IsManifest(disk[ManifestFile(n)]),
                      NEW h \in DOMAIN disk[ManifestFile(n)].impls
               PROVE  LET impl == disk[ManifestFile(n)].impls[h]
                      IN \E i \in DOMAIN legacy[n].contracts :
                             /\ legacy[n].contracts[i].deployedBytecodeHash = h
                             /\ legacy[n].contracts[i].address = impl.address
                             /\ SameLayout(legacy[n].contracts[i], impl.layout)
    BY DEF LayoutsAreKept
  <2> DEFINE content == disk[ManifestFile(n)]
  <2>1. n \in Migratable
    BY DEF Migratable
  <2>2. content # NoFile /\ content # Torn /\ IsMigrated(content)
    BY DEF IsManifest
  <2>3. IsNewManifest(legacy[n], content)
    <3>1. CASE n \in Public
      BY <2>1, <2>2, <3>1, Locations, LegacyFiles DEF MigrationInv, PublicFile
    <3>2. CASE n \in Unknown
      BY <2>2, <3>2, Locations DEF MigrationInv, UnknownFiles
    <3> QED BY <3>1, <3>2
  <2>4. /\ legacy[n] # NoFile /\ CanUpdate(legacy[n])
        /\ content.impls = TransformImplementations(legacy[n].contracts)
    BY <2>3 DEF IsNewManifest
  <2>5. IsLegacyFile(legacy[n])
    BY <2>1, LegacyFiles DEF MigrationInv
  <2> QED
    BY <2>4, <2>5, ImplsAreContracts
<1> QED
  BY <1>1, MigrationInvIsInvariant, PTL
=============================================================================
