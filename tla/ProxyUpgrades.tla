--------------------------- MODULE ProxyUpgrades ---------------------------
(***************************************************************************)
(* The operations of the Truffle plugin on proxies and beacons:            *)
(* deployProxy, upgradeProxy, prepareUpgrade, forceImport, deployBeacon,   *)
(* deployBeaconProxy, upgradeBeacon and admin.changeProxyAdmin.  Several   *)
(* processes run them over one chain and one manifest, and each can die,   *)
(* or its call throw, before any of its steps.                             *)
(*                                                                         *)
(* A step runs from one read or write of the chain or the manifest to the  *)
(* next.  An implementation stands for its version: fetchOrDeploy and      *)
(* fetchOrDeployAdmin, which ImplStore.tla has in detail, return the one   *)
(* contract that the manifest has for it, and Validations.tla and          *)
(* StorageCompare.tla decide what is safe and compatible.  Who imports a   *)
(* proxy names the contract behind it, and its kind rightly if at all.     *)
(***************************************************************************)
EXTENDS Naturals, Sequences

CONSTANTS
    Processes, Versions,
    HasUpgradeTo,       \* the versions with a function upgradeTo(address)
    Compatible,         \* pairs that assertStorageUpgradeSafe accepts
    Starts,             \* contracts and manifests that earlier calls left
    Admin,              \* the ProxyAdmin that fetchOrDeployAdmin deploys
    OtherAdmins,        \* ones it does not
    None,
    MaxContracts        \* bound: proxies and beacons on the chain

ASSUME ProxyAssumption ==
    /\ HasUpgradeTo \subseteq Versions
    /\ Compatible \subseteq Versions \X Versions
    /\ Admin \notin OtherAdmins
    /\ None \notin Nat \union Versions \union {"transparent", "uups", "beacon"}
    /\ MaxContracts \in Nat

VARIABLES
    contracts,      \* the proxies and beacons of the chain, by address
    impls,          \* the manifest: versions with a deployment
    admin,          \* its admin
    proxies,        \* the kind of each registered proxy
    run             \* each process: its step and its local variables

manifest == <<impls, admin, proxies>>
proxyVars == <<contracts, manifest, run>>

Kinds == {"transparent", "uups", "beacon"}
Addresses == DOMAIN contracts

\* A proxy has an implementation or a beacon in its slots, a beacon answers
\* implementation(); only a transparent proxy has an admin.
IsBeacon(a) == contracts[a].type = "beacon"
IsBeaconProxy(a) == contracts[a].type = "beaconproxy"
IsTransparentOrUUPSProxy(a) == contracts[a].type \in {"transparent", "uups"}

\* getImplementationAddressFromProxy or ...FromBeacon
ImplBehind(a) == IF IsBeaconProxy(a) THEN contracts[contracts[a].beacon].impl ELSE contracts[a].impl

TrueKind(a) == IF IsBeaconProxy(a) THEN "beacon" ELSE contracts[a].type

Contract(type, impl, adm, beacon) ==
    [type |-> type, impl |-> impl, admin |-> adm, beacon |-> beacon]

Admins == OtherAdmins \union {Admin, None}
ContractType ==
    [type : Kinds \union {"beaconproxy"}, impl : Versions \union {None},
     admin : Admins, beacon : Nat \union {None}]

\* The chain has contracts of these kinds, each with an implementation of its
\* own or a beacon; what is registered is on it, with its layout.
ASSUME StartAssumption ==
    \A start \in Starts :
        /\ start.contracts \in Seq(ContractType)
        /\ \A a \in DOMAIN start.contracts :
               LET c == start.contracts[a]
               IN IF c.type = "beaconproxy"
                  THEN /\ c.beacon \in DOMAIN start.contracts
                       /\ start.contracts[c.beacon].type = "beacon"
                  ELSE c.impl \in Versions
        /\ start.admin \in Admins
        /\ DOMAIN start.proxies \subseteq DOMAIN start.contracts
        /\ \A a \in DOMAIN start.proxies :
               /\ start.proxies[a] \in Kinds
               /\ \/ start.contracts[a].type = "beaconproxy"
                  \/ start.contracts[a].impl \in start.impls

----------------------------------------------------------------------------
(* Steps of a process. *)

\* The options hold opts.kind as given and as processProxyKind leaves it;
\* checkedAs is the kind of fullOpts, which withDefaults copied before.  allow:
\* unsafeAllow has missing-public-upgradeto.
Call(op, target, version, kind, skip) ==
    [pc |-> "begin", op |-> op, target |-> target, version |-> version, kind |-> kind,
     checkedAs |-> IF kind = None THEN "transparent" ELSE kind,
     skip |-> skip, allow |-> FALSE, current |-> None, registered |-> None]

Idle == [Call(None, None, None, None, FALSE) EXCEPT !.pc = "idle"]

Goto(p, label) == run' = [run EXCEPT ![p].pc = label]

\* The call returns or throws.
Ends(p) == run' = [run EXCEPT ![p] = Idle]

\* The calls that can be made now, with a user who allows nothing, and what the
\* option allow makes of those that it matters to.
StrictCalls ==
    LET kinds == Kinds \union {None}
    IN {Call("deployProxy", None, v, k, FALSE) : v \in Versions, k \in kinds}
       \union {Call("upgradeProxy", a, v, k, skip) :
                   a \in Addresses, v \in Versions, k \in kinds, skip \in BOOLEAN}
       \union {Call("prepareUpgrade", a, v, k, FALSE) :
                   a \in Addresses, v \in Versions, k \in kinds}
       \union (UNION {{Call("forceImport", a, None, k, FALSE) : k \in {None, TrueKind(a)}} :
                          a \in Addresses})
       \union {Call("deployBeacon", None, v, None, FALSE) : v \in Versions}
       \union {Call("deployBeaconProxy", a, None, k, FALSE) : a \in Addresses, k \in kinds}
       \union {Call("upgradeBeacon", a, v, None, FALSE) : a \in Addresses, v \in Versions}
       \union {[Call("changeProxyAdmin", a, None, None, FALSE) EXCEPT !.current = new] :
                   a \in Addresses, new \in OtherAdmins \union {Admin}}

Calls ==
    StrictCalls
        \union {[c EXCEPT !.allow = TRUE] :
                    c \in {call \in StrictCalls : call.checkedAs = "uups" /\ call.op # "forceImport"}}

Begin(p, call) ==
    /\ run[p] = Idle
    /\ run' = [run EXCEPT ![p] =
           CASE call.op \in {"upgradeProxy", "changeProxyAdmin"} -> [call EXCEPT !.pc = "upgrader"]
             [] call.op = "deployProxy" -> [call EXCEPT !.pc = "kind"]
             [] call.op = "prepareUpgrade" ->
                    IF IsTransparentOrUUPSProxy(call.target) THEN [call EXCEPT !.pc = "kind"]
                    ELSE IF IsBeaconProxy(call.target)
                    THEN [call EXCEPT !.pc = "current", !.target = contracts[call.target].beacon]
                    ELSE [call EXCEPT !.pc = "current"]
             [] call.op \in {"forceImport", "upgradeBeacon"} -> [call EXCEPT !.pc = "current"]
             [] call.op = "deployBeacon" -> [call EXCEPT !.pc = "check"]
             [] call.op = "deployBeaconProxy" ->
                    IF call.kind \in {None, "beacon"} /\ IsBeacon(call.target)
                    THEN [call EXCEPT !.pc = "send", !.kind = "beacon"] ELSE Idle]
    /\ UNCHANGED <<contracts, manifest>>

\* getUpgrader, and the same comparison in changeProxyAdmin, which also
\* throws when there is no admin in the manifest.
GetUpgrader(p) ==
    LET slot == contracts[run[p].target].admin
    IN /\ run[p].pc = "upgrader"
       /\ IF run[p].op = "changeProxyAdmin"
          THEN IF admin # None /\ slot = admin /\ run[p].current # admin
               THEN Goto(p, "send") ELSE Ends(p)
          ELSE IF slot = None \/ slot = admin THEN Goto(p, "kind") ELSE Ends(p)
       /\ UNCHANGED <<contracts, manifest>>

InferProxyKind(version) == IF version \in HasUpgradeTo THEN "uups" ELSE "transparent"

RegisteredKind(a) == IF a \in DOMAIN proxies THEN proxies[a] ELSE None

\* Mutant: the manifest is not asked.
MutantKindsAgree(kind, registered) == TRUE

\* setProxyKind does not throw.
KindsAgree(kind, registered) == registered \in {None, kind}

\* processProxyKind
ProcessProxyKind(p) ==
    LET target == run[p].target
        kind   == IF run[p].kind # None THEN run[p].kind
                  ELSE IF target # None /\ IsBeaconProxy(target) THEN "beacon"
                  ELSE InferProxyKind(run[p].version)
        registered == IF target = None THEN None ELSE RegisteredKind(target)
    IN /\ run[p].pc = "kind"
       /\ IF KindsAgree(kind, registered) /\ kind # "beacon"
          THEN run' = [run EXCEPT ![p].kind = kind, ![p].registered = registered,
                                  ![p].pc = IF target = None THEN "check" ELSE "current"]
          ELSE Ends(p)
       /\ UNCHANGED <<contracts, manifest>>

\* What the operation takes the address for: deployBeaconImpl wants a beacon
\* and no proxy, deployProxyImpl a proxy with an implementation.
IsRightTarget(p) ==
    LET target == run[p].target
    IN CASE run[p].op = "forceImport" -> TRUE
         [] run[p].op = "upgradeProxy" -> IsTransparentOrUUPSProxy(target)
         [] run[p].op = "upgradeBeacon" -> IsBeacon(target)
         [] OTHER -> IsBeacon(target) \/ IsTransparentOrUUPSProxy(target)

\* The implementation that is there now; forceImport records it.
ReadCurrent(p) ==
    LET target == run[p].target
    IN /\ run[p].pc = "current"
       /\ IF IsRightTarget(p)
          THEN run' = [run EXCEPT
                  ![p].current = ImplBehind(target),
                  ![p].version = IF run[p].op = "forceImport" THEN ImplBehind(target) ELSE @,
                  ![p].pc = IF run[p].op = "forceImport" THEN "impl" ELSE "check"]
          ELSE Ends(p)
       /\ UNCHANGED <<contracts, manifest>>

IsUpgradeSafe(r) == r.checkedAs = "uups" => r.version \in HasUpgradeTo \/ r.allow

\* Mutant: any earlier version of the manifest will do.
MutantIsStorageSafe(r) ==
    \/ r.current = None
    \/ /\ r.current \in impls
       /\ r.skip \/ \E v \in impls : <<v, r.version>> \in Compatible

\* getStorageLayoutForAddress throws for an implementation that is not in the
\* manifest, whatever the options.
IsStorageSafe(r) ==
    \/ r.current = None
    \/ /\ r.current \in impls
       /\ r.skip \/ <<r.current, r.version>> \in Compatible

\* The checks of deployImpl.
Check(p) ==
    /\ run[p].pc = "check"
    /\ IF IsUpgradeSafe(run[p]) /\ IsStorageSafe(run[p]) THEN Goto(p, "impl") ELSE Ends(p)
    /\ UNCHANGED <<contracts, manifest>>

\* Mutant: an import is only merged into an entry that is there.
MutantWithImpl(r) == IF r.op = "forceImport" THEN impls ELSE impls \union {r.version}

WithImpl(r) == impls \union {r.version}

\* fetchOrDeploy, or the import of the implementation.
DeployImpl(p) ==
    /\ run[p].pc = "impl"
    /\ impls' = WithImpl(run[p])
    /\ CASE run[p].op = "prepareUpgrade" -> Ends(p)
         [] run[p].op = "deployProxy" /\ run[p].kind = "transparent" -> Goto(p, "admin")
         [] run[p].op = "forceImport" ->
                IF IsBeacon(run[p].target) THEN Ends(p) ELSE Goto(p, "importkind")
         [] OTHER -> Goto(p, "send")
    /\ UNCHANGED <<contracts, admin, proxies>>

ImportKind(r) ==
    IF r.kind # None THEN r.kind
    ELSE IF IsBeaconProxy(r.target) THEN "beacon"
    ELSE InferProxyKind(r.version)

ChooseImportKind(p) ==
    /\ run[p].pc = "importkind"
    /\ LET kind == ImportKind(run[p])
       IN run' = [run EXCEPT ![p].kind = kind,
                             ![p].pc = IF kind = "transparent" THEN "admin" ELSE "register"]
    /\ UNCHANGED <<contracts, manifest>>

\* fetchOrDeployAdmin: the admin of the manifest, or a new one; to import, the
\* one of the proxy, which has to be there.
DeployAdmin(p) ==
    LET slot == contracts[run[p].target].admin
    IN /\ run[p].pc = "admin"
       /\ IF run[p].op = "deployProxy"
          THEN /\ admin' = IF admin = None THEN Admin ELSE admin
               /\ Goto(p, "send")
          ELSE IF admin = None /\ slot = None THEN Ends(p) /\ UNCHANGED admin
          ELSE /\ admin' = IF admin = None THEN slot ELSE admin
               /\ Goto(p, "register")
       /\ UNCHANGED <<contracts, impls, proxies>>

----------------------------------------------------------------------------
(* Transactions.  One that the contract reverts makes the call throw. *)

\* The new contract is a proxy that has to be registered, or a beacon.
Create(p, contract) ==
    /\ Len(contracts) < MaxContracts
    /\ contracts' = Append(contracts, contract)
    /\ IF contract.type = "beacon" THEN Ends(p)
       ELSE run' = [run EXCEPT ![p].pc = "register", ![p].target = Len(contracts) + 1]

CreateContract(p) ==
    LET r == run[p]
    IN /\ r.pc = "send"
       /\ \/ /\ r.op = "deployProxy"
             /\ Create(p, Contract(r.kind, r.version,
                                   IF r.kind = "transparent" THEN admin ELSE None, None))
          \/ /\ r.op = "deployBeacon"
             /\ Create(p, Contract("beacon", r.version, None, None))
          \/ /\ r.op = "deployBeaconProxy"
             /\ Create(p, Contract("beaconproxy", None, None, r.target))
       /\ UNCHANGED manifest

\* The admin of a transparent proxy, or the implementation of a UUPS one,
\* must still be able to upgrade it.
IsUpgradeable(a) ==
    CASE contracts[a].type = "beacon" -> TRUE
      [] contracts[a].type = "transparent" -> contracts[a].admin = admin
      [] OTHER -> contracts[a].impl \in HasUpgradeTo

\* upgradeTo of a proxy, its admin or a beacon.
Upgrade(p) ==
    LET r == run[p]
    IN /\ r.pc = "send" /\ r.op \in {"upgradeProxy", "upgradeBeacon"}
       /\ contracts' = IF IsUpgradeable(r.target)
                       THEN [contracts EXCEPT ![r.target].impl = r.version] ELSE contracts
       /\ Ends(p)
       /\ UNCHANGED manifest

ChangeProxyAdmin(p) ==
    LET r == run[p]
    IN /\ r.pc = "send" /\ r.op = "changeProxyAdmin"
       /\ contracts' = IF contracts[r.target].admin = admin
                       THEN [contracts EXCEPT ![r.target].admin = r.current] ELSE contracts
       /\ Ends(p)
       /\ UNCHANGED manifest

\* addProxy replaces what was registered at the address.
AddProxy(p) ==
    LET r == run[p]
    IN /\ r.pc = "register"
       /\ proxies' = [a \in DOMAIN proxies \union {r.target} |->
                         IF a = r.target THEN r.kind ELSE proxies[a]]
       /\ Ends(p)
       /\ UNCHANGED <<contracts, impls, admin>>

\* The process dies, or the call throws what the node or the user's code throws.
Fail(p) ==
    /\ run[p] # Idle
    /\ Ends(p)
    /\ UNCHANGED <<contracts, manifest>>

----------------------------------------------------------------------------
ProxyInit ==
    /\ \E start \in Starts :
           /\ contracts = start.contracts
           /\ impls = start.impls
           /\ admin = start.admin
           /\ proxies = start.proxies
    /\ run = [p \in Processes |-> Idle]

ProxyNext ==
    \E p \in Processes :
        \/ \E call \in Calls : Begin(p, call)
        \/ GetUpgrader(p) \/ ProcessProxyKind(p) \/ ReadCurrent(p) \/ Check(p)
        \/ DeployImpl(p) \/ ChooseImportKind(p) \/ DeployAdmin(p)
        \/ CreateContract(p) \/ Upgrade(p) \/ ChangeProxyAdmin(p) \/ AddProxy(p)
        \/ Fail(p)

ProxySpec == ProxyInit /\ [][ProxyNext]_proxyVars
----------------------------------------------------------------------------
\* The plugin compared the next implementation with the one it replaces, of
\* every proxy of a beacon too, unless the user skipped the comparison or
\* another call has upgraded the same proxy since it was read.
UpgradesAreCompatible ==
    [][\A p \in Processes : Upgrade(p) =>
          LET r    == run[p]
              then == contracts[r.target].impl
          IN \/ r.skip \/ r.current # then
             \/ <<then, r.version>> \in Compatible]_proxyVars

\* A UUPS proxy that was registered as one when the call read the manifest gets
\* no implementation without upgradeTo, with which it could never be upgraded
\* again, whatever kind the options name or leave to be inferred, unless they
\* allow it.  Nothing is said of a proxy that was not registered then, or as
\* another kind: such a call may take it for a transparent one, and to import it
\* as UUPS before the transaction comes too late.
UupsStaysUpgradeable ==
    [][\A p \in Processes : (Upgrade(p) /\ contracts' # contracts) =>
          LET r == run[p]
          IN (contracts[r.target].type = "uups" /\ r.registered = "uups")
                 => r.version \in HasUpgradeTo \/ r.allow]_proxyVars

\* A registered proxy, however it came into the manifest and whoever has
\* upgraded it since, can be compared with its next version.
RegisteredHaveLayouts ==
    \A a \in DOMAIN proxies : ~IsBeaconProxy(a) => contracts[a].impl \in impls
=============================================================================
