------------------------------ MODULE MCScripts ------------------------------
(***************************************************************************)
(* What the people who deploy run, for TLC: the operations of the plugin   *)
(* on proxies, the scripts that deploy the protocol, and the migration of  *)
(* an OpenZeppelin CLI project.  They share no state; a behaviour runs one *)
(* of them, its subject.                                                   *)
(***************************************************************************)
EXTENDS DeployScripts, LegacyMigration, MCProxyUpgrades

VARIABLE subject

Type(kind, contract, name) ==
    [within |-> <<>>, kind |-> kind, contract |-> contract, name |-> name]
Elementary(name) == Type("Elementary", Absent, name)
Struct(contract, name) == Type("Struct", contract, name)
Enum(contract, name) == Type("Enum", contract, name)

Inside(kind, of, type) == [type EXCEPT !.within = <<[kind |-> kind, of |-> of]>> \o @]
Mapping(value) == Inside("Mapping", Absent, value)
DynArray(element) == Inside("DynArray", Absent, element)
StaticArray(element, size) == Inside("StaticArray", size, element)

Field(label, type) == [label |-> label, type |-> type]
Item(name, members) == [name |-> name, members |-> members]

\* Structs and enums of one name in two contracts, also inside one another.
Types ==
    <<Item(Elementary("t_uint256"), Absent),
      Item(Struct("A", "S"), <<Field("x", Elementary("t_uint256"))>>),
      Item(Struct("B", "S"), <<Field("y", Mapping(Struct("A", "S"))), Field("e", Enum("A", "E"))>>),
      Item(Enum("A", "E"), <<"p", "q">>),
      Item(Enum("B", "E"), <<"r">>),
      Item(Mapping(Struct("A", "S")), Absent),
      Item(DynArray(Mapping(Struct("B", "S"))), Absent),
      Item(StaticArray(Enum("B", "E"), "3"), Absent)>>

Storage ==
    <<Field("a", Struct("A", "S")), Field("b", Struct("B", "S")),
      Field("c", DynArray(Mapping(Struct("B", "S")))), Field("d", StaticArray(Enum("B", "E"), "3"))>>

LegacyContract(hash, address, types, storage) ==
    [deployedBytecodeHash |-> hash, address |-> address, types |-> types, storage |-> storage]

Good ==
    [manifestVersion |-> "2.2", proxyAdmin |-> "admin", solidityLibs |-> {},
     contracts |-> <<LegacyContract("h1", "c1", Types, Storage),
                     LegacyContract(Absent, Absent, Absent, Absent),
                     LegacyContract("h2", "c2", <<>>, <<>>),
                     LegacyContract("h2", "c3", SubSeq(Types, 1, 2), SubSeq(Storage, 1, 1))>>,
     proxies |-> [Box  |-> <<[kind |-> "Minimal", address |-> "p1"],
                             [kind |-> "Upgradeable", address |-> "p2"],
                             [kind |-> "Upgradeable", address |-> "p3"]>>,
                  Safe |-> <<[kind |-> "Upgradeable", address |-> Absent],
                             [kind |-> "Upgradeable", address |-> "p4"]>>]]

\* What a network's file can hold: also files of other versions and ones that
\* cannot be migrated, for want of an admin, a type or an address, or with
\* libraries.
Contents ==
    {NoFile, Good,
     [Good EXCEPT !.manifestVersion = "2.0"],
     [Good EXCEPT !.manifestVersion = Absent],
     [Good EXCEPT !.proxyAdmin = Absent],
     [Good EXCEPT !.solidityLibs = {"L"}],
     [Good EXCEPT !.contracts[1].types = SubSeq(Types, 1, 2)],
     [Good EXCEPT !.contracts[3].storage = Absent],
     [Good EXCEPT !.contracts[1].address = Absent]}

MCDirectories ==
    {[mainnet |-> m, dev5 |-> u, dev31337 |-> d] :
        m \in Contents, u \in Contents, d \in {NoFile, Good}}

ScriptIsIdle ==
    /\ script = "pcog" /\ created = <<>> /\ pools = <<>>
    /\ file = [k \in KeySet |-> NoAddress] /\ configs = file /\ addresses = file
    /\ step = 0 /\ stage = "deploy" /\ newConfig = {} /\ starts = 0

MigrationIsIdle ==
    /\ legacy = [n \in Networks |-> NoFile]
    /\ disk = [f \in Networks \X {"", "dev", "unknown"} |-> NoFile]
    /\ projectFile = TRUE /\ exported = {}
    /\ phase = "idle" /\ newManifests = <<>> /\ networksExport = {} /\ manifestFiles = {}
    /\ deployed = {} /\ runs = 0

ProxiesAreIdle ==
    /\ contracts = <<>> /\ impls = {} /\ admin = None /\ proxies = <<>>
    /\ run = [p \in Processes |-> Idle] /\ calls = 0

ScriptsInit ==
    \/ subject = "deployment" /\ ScriptInit /\ MigrationIsIdle /\ ProxiesAreIdle
    \/ subject = "migration" /\ ScriptIsIdle /\ MigrationInit /\ ProxiesAreIdle
    \/ subject = "proxies" /\ ScriptIsIdle /\ MigrationIsIdle /\ MCInit

ScriptsNext ==
    /\ UNCHANGED subject
    /\ \/ subject = "deployment" /\ ScriptNext /\ UNCHANGED <<migrationVars, mcVars>>
       \/ subject = "migration" /\ MigrationNext /\ UNCHANGED <<scriptVars, mcVars>>
       \/ subject = "proxies" /\ MCNext /\ UNCHANGED <<scriptVars, migrationVars>>

ScriptsSpec == ScriptsInit /\ [][ScriptsNext]_<<subject, scriptVars, migrationVars, mcVars>>
=============================================================================
