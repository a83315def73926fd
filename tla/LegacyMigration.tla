-------------------------- MODULE LegacyMigration --------------------------
(***************************************************************************)
(* migrate-oz-cli-project.ts: the network files of the OpenZeppelin CLI in *)
(* the directory .openzeppelin become manifests of upgrades-core, in place *)
(* for public networks and under a new name for unknown ones; what else    *)
(* they hold is exported to a file, and the files of development networks  *)
(* and of the project are deleted.  The script can stop at any await and   *)
(* is then run again, while the plugin already uses the new manifests.     *)
(*                                                                         *)
(* The identifier of a type spells the mappings and arrays around it, from *)
(* the outside, and what is inside: a struct or an enum of a contract, or  *)
(* an elementary type.  The CLI had dropped the keys of mappings.          *)
(***************************************************************************)
EXTENDS Naturals, Sequences, FiniteSets, Functions

CONSTANTS
    Public, Unknown, Development,   \* networks, by the name of their file
    Directories,    \* contents of the directory before the first run
    Fresh,          \* a proxy that the plugin deploys
    Absent,         \* a missing entry of an object
    Depth,          \* bound: how deep types nest
    MaxRuns         \* bound: how often the script is started

Networks == Public \union Unknown \union Development

\* What is read of a file that is not there, or whose write was cut short.
NoFile == [manifestVersion |-> "no file"]
Torn == [manifestVersion |-> "torn"]

IsList(s) == s \in Seq(Range(s))

IsTypeName(t) ==
    /\ IsList(t.within)
    /\ t = [within |-> t.within, kind |-> t.kind, contract |-> t.contract, name |-> t.name]

\* The types of a layout are the entries of an object, one for each name.
IsLegacyTypes(types) ==
    /\ IsList(types)
    /\ \A i \in DOMAIN types : IsTypeName(types[i].name)
    /\ \A i, j \in DOMAIN types : types[i].name = types[j].name => i = j

\* The CLI wrote no manifests of the plugin.
IsLegacyFile(data) ==
    /\ data.manifestVersion \notin {"3.2", "torn"}
    /\ data # NoFile =>
           /\ IsList(data.contracts)
           /\ \A i \in DOMAIN data.contracts :
                  data.contracts[i].types # Absent => IsLegacyTypes(data.contracts[i].types)

ASSUME MigrationAssumption ==
    /\ Public \cap Unknown = {} /\ Development \cap (Public \union Unknown) = {}
    /\ \A files \in Directories, n \in Public \union Unknown : IsLegacyFile(files[n])
    /\ MaxRuns \in Nat /\ Depth \in Nat

VARIABLES
    legacy,         \* what the CLI left: the file of each network
    disk,           \* the files of the directory
    projectFile,    \* whether project.json is there
    exported,       \* the networks in the export file
    phase,          \* where the script is
    newManifests,   \* its newManifestsData that are still to be written
    networksExport, \* the networks in its networksExportData
    manifestFiles,  \* development networks whose files it still has to delete
    deployed,       \* networks on which the plugin has recorded Fresh
    runs

scriptLocals == <<phase, newManifests, networksExport, manifestFiles>>
migrationVars == <<legacy, disk, projectFile, exported, scriptLocals, deployed, runs>>

----------------------------------------------------------------------------
(* File names. *)

OldLocation(network) == <<network, IF network \in Public THEN "" ELSE "dev">>

\* Mutant: unknown networks keep the name of their file.
MutantNewManifestLocation(network) == OldLocation(network)

\* getNewManifestLocation
NewManifestLocation(network) == <<network, IF network \in Unknown THEN "unknown" ELSE "">>

\* The file that the plugin opens.
ManifestFile(network) == <<network, IF network \in Public THEN "" ELSE "unknown">>

----------------------------------------------------------------------------
(* Storage layouts. *)

\* getArgument, down to the innermost type
Innermost(t) ==
    [within |-> <<>>, kind |-> t.kind, contract |-> t.contract, name |-> t.name]

Indices(types, t) == {i \in DOMAIN types : types[i].name = Innermost(t)}

\* Mutant: no number is made up for types of which the CLI dropped it.
MutantAstId(types, t) == 0

\* getAstId
AstId(types, t) == CHOOSE i \in Indices(types, t) : TRUE

\* getAstId finds the struct or enum in a type name.
IsKnown(types, t) == t.kind # "Elementary" => Indices(types, t) # {}

\* The name of the contract is stripped from a struct or an enum.
TransformTypeName(types, t) ==
    LET of(c) == IF c.kind = "Mapping" THEN "unknown" ELSE c.of
    IN [within |-> [k \in DOMAIN t.within |-> [kind |-> t.within[k].kind, of |-> of(t.within[k])]],
        kind   |-> t.kind,
        name   |-> t.name,
        astId  |-> IF t.kind = "Elementary" THEN Absent ELSE AstId(types, t)]

\* getTypeKind
IsA(kind, t) == t.within = <<>> /\ t.kind = kind

TransformItem(types, item) ==
    [label |-> item.label, type |-> TransformTypeName(types, item.type)]

TransformMembers(types, item) ==
    IF IsA("Struct", item.name)
    THEN [k \in DOMAIN item.members |-> TransformItem(types, item.members[k])]
    ELSE item.members

\* Of two types with one new name the later one stays.
TransformTypes(types) ==
    LET name(i) == TransformTypeName(types, types[i].name)
    IN [id \in {name(i) : i \in DOMAIN types} |->
           LET i == CHOOSE j \in DOMAIN types :
                        name(j) = id /\ \A k \in DOMAIN types : name(k) = id => k <= j
           IN TransformMembers(types, types[i])]

TransformLayout(contract) ==
    [storage |-> [k \in DOMAIN contract.storage |->
                     TransformItem(contract.types, contract.storage[k])],
     types   |-> TransformTypes(contract.types)]

IsLayoutKnown(contract) ==
    /\ contract.types # Absent /\ contract.storage # Absent
    /\ \A i \in DOMAIN contract.types :
           /\ IsKnown(contract.types, contract.types[i].name)
           /\ IsA("Struct", contract.types[i].name) =>
                  \A k \in DOMAIN contract.types[i].members :
                      IsKnown(contract.types, contract.types[i].members[k].type)
    /\ \A k \in DOMAIN contract.storage : IsKnown(contract.types, contract.storage[k].type)

----------------------------------------------------------------------------
(* Manifests. *)

\* Mutant: only the first proxy of each contract.
MutantTransformProxies(proxies) ==
    {proxies[c][1] : c \in {d \in DOMAIN proxies : proxies[d] # <<>>}}

\* Those of kind Upgradeable that have an address.
TransformProxies(proxies) ==
    {proxy \in UNION {{proxies[c][k] : k \in DOMAIN proxies[c]} : c \in DOMAIN proxies} :
        proxy.kind = "Upgradeable" /\ proxy.address # Absent}

\* By the hash of their bytecode: the last of the contracts that share it.
TransformImplementations(contracts) ==
    LET hashed == {i \in DOMAIN contracts : contracts[i].deployedBytecodeHash # Absent}
        hash(i) == contracts[i].deployedBytecodeHash
    IN [h \in {hash(i) : i \in hashed} |->
           LET last == CHOOSE i \in hashed :
                           hash(i) = h /\ \A j \in hashed : hash(j) = h => j <= i
           IN [address |-> contracts[last].address,
               layout  |-> TransformLayout(contracts[last])]]

\* updateManifestData does not throw.
CanUpdate(data) ==
    /\ data.proxyAdmin # Absent
    /\ data.solidityLibs = {}
    /\ \A i \in DOMAIN data.contracts :
           data.contracts[i].deployedBytecodeHash # Absent =>
               data.contracts[i].address # Absent /\ IsLayoutKnown(data.contracts[i])

UpdateManifestData(data) ==
    [manifestVersion |-> "3.2",
     impls   |-> TransformImplementations(data.contracts),
     proxies |-> TransformProxies(data.proxies),
     admin   |-> data.proxyAdmin]

IsMigrated(data) == data.manifestVersion = "3.2"

\* JSON.parse or migrateManifestsData throws.
IsRejected(data) ==
    IF data = Torn THEN TRUE
    ELSE ~IsMigrated(data) /\ (data.manifestVersion # "2.2" \/ ~CanUpdate(data))

----------------------------------------------------------------------------
Exists(file) == disk[file] # NoFile

ExportEnds == phase' = "idle" /\ newManifests' = <<>> /\ networksExport' = {} /\ manifestFiles' = {}

\* getManifestFiles, and the migration of all data before anything is written.
StartMigration ==
    LET listed == {n \in Public \union Unknown : Exists(OldLocation(n))}
        data == [n \in listed |-> disk[OldLocation(n)]]
        outdated == {n \in listed : ~IsMigrated(data[n])}
    IN /\ phase = "idle" /\ runs < MaxRuns
       /\ runs' = runs + 1
       /\ IF \E n \in listed : IsRejected(data[n])
          THEN ExportEnds
          ELSE /\ newManifests' = [n \in outdated |-> UpdateManifestData(data[n])]
               /\ networksExport' = outdated
               /\ manifestFiles' = {n \in Development : Exists(OldLocation(n))}
               /\ phase' = "write"
       /\ UNCHANGED <<legacy, disk, projectFile, exported, deployed>>

WriteManifest(network) ==
    /\ phase = "write" /\ network \in DOMAIN newManifests
    /\ disk' = [disk EXCEPT ![NewManifestLocation(network)] = newManifests[network]]
    /\ newManifests' = [n \in DOMAIN newManifests \ {network} |-> newManifests[n]]
    /\ UNCHANGED <<legacy, projectFile, exported, phase, networksExport, manifestFiles,
                   deployed, runs>>

\* getProjectFile throws when it is not there.
WriteExport ==
    /\ phase = "write" /\ DOMAIN newManifests = {}
    /\ IF projectFile
       THEN /\ exported' = networksExport
            /\ phase' = "delete"
            /\ UNCHANGED <<newManifests, networksExport, manifestFiles>>
       ELSE ExportEnds /\ UNCHANGED exported
    /\ UNCHANGED <<legacy, disk, projectFile, deployed, runs>>

\* deleteLegacyFiles
DeleteManifest(network) ==
    /\ phase = "delete" /\ network \in manifestFiles
    /\ disk' = [disk EXCEPT ![OldLocation(network)] = NoFile]
    /\ manifestFiles' = manifestFiles \ {network}
    /\ UNCHANGED <<legacy, projectFile, exported, phase, newManifests, networksExport,
                   deployed, runs>>

DeleteProject ==
    /\ phase = "delete" /\ manifestFiles = {}
    /\ projectFile' = FALSE
    /\ ExportEnds
    /\ UNCHANGED <<legacy, disk, exported, deployed, runs>>

\* The script dies, also in the middle of writing a manifest.
Interrupt ==
    /\ phase # "idle"
    /\ disk' \in {disk} \union
           {[disk EXCEPT ![NewManifestLocation(n)] = Torn] : n \in DOMAIN newManifests}
    /\ ExportEnds
    /\ UNCHANGED <<legacy, projectFile, exported, deployed, runs>>

\* The plugin refuses the files of the CLI, and makes the file it misses.
AddMigratedProxy(network) ==
    LET file == ManifestFile(network)
        none == [manifestVersion |-> "3.2", impls |-> <<>>, proxies |-> {}, admin |-> Absent]
        manifest == IF disk[file] = NoFile THEN none ELSE disk[file]
    IN /\ network \notin deployed
       /\ IF manifest = Torn THEN FALSE ELSE IsMigrated(manifest)
       /\ disk' = [disk EXCEPT ![file] = [manifest EXCEPT !.proxies = @ \union {Fresh}]]
       /\ deployed' = deployed \union {network}
       /\ UNCHANGED <<legacy, projectFile, exported, scriptLocals, runs>>

----------------------------------------------------------------------------
MigrationInit ==
    /\ legacy \in Directories
    /\ disk = [file \in Networks \X {"", "dev", "unknown"} |->
                  IF file = OldLocation(file[1]) THEN legacy[file[1]] ELSE NoFile]
    /\ projectFile = TRUE /\ exported = {}
    /\ phase = "idle" /\ newManifests = <<>> /\ networksExport = {} /\ manifestFiles = {}
    /\ deployed = {} /\ runs = 0

MigrationNext ==
    \/ StartMigration \/ WriteExport \/ DeleteProject \/ Interrupt
    \/ \E network \in Networks :
           WriteManifest(network) \/ DeleteManifest(network) \/ AddMigratedProxy(network)

MigrationSpec == MigrationInit /\ [][MigrationNext]_migrationVars
----------------------------------------------------------------------------
(* The layout of a contract as a reader follows it in both formats, from   *)
(* the variables to the members of structs: the reference for the made-up  *)
(* names.                                                                  *)

\* The types of two lists of variables or members, one by one.
SideBySide(old, new) == {<<old[k].type, new[k].type>> : k \in DOMAIN old \cap DOMAIN new}

DeclarationOf(types, t) == types[CHOOSE i \in Indices(types, t) : TRUE].members
PlainName(id) == [id EXCEPT !.within = <<>>]

\* The types met at most depth structs below the variables.
MetTypes(contract, layout, depth) ==
    LET Members(pair) ==
            IF pair[1].kind = "Struct" /\ pair[2].kind = "Struct"
            THEN SideBySide(DeclarationOf(contract.types, pair[1]), layout.types[PlainName(pair[2])])
            ELSE {}
        Met[d \in Nat] ==
            IF d = 0 THEN SideBySide(contract.storage, layout.storage)
            ELSE Met[d - 1] \union UNION {Members(pair) : pair \in Met[d - 1]}
    IN Met[depth]

SameLabels(old, new) ==
    /\ DOMAIN old = DOMAIN new
    /\ \A k \in DOMAIN old : old[k].label = new[k].label

\* The same containers, around the same elementary type or one with the same
\* members.
SameType(contract, layout, t, id) ==
    /\ t.kind = id.kind
    /\ DOMAIN t.within = DOMAIN id.within
    /\ \A k \in DOMAIN t.within :
           /\ t.within[k].kind = id.within[k].kind
           /\ t.within[k].kind # "Mapping" => t.within[k].of = id.within[k].of
    /\ t.kind = "Elementary" => t.name = id.name
    /\ t.kind = "Enum" => DeclarationOf(contract.types, t) = layout.types[PlainName(id)]
    /\ t.kind = "Struct" =>
           SameLabels(DeclarationOf(contract.types, t), layout.types[PlainName(id)])

SameLayout(contract, layout) ==
    /\ SameLabels(contract.storage, layout.storage)
    /\ \A pair \in MetTypes(contract, layout, Depth) :
           SameType(contract, layout, pair[1], pair[2])

IsManifest(content) == IF content \in {NoFile, Torn} THEN FALSE ELSE IsMigrated(content)

\* The proxies that a reader of the file finds, in either format.
ProxiesIn(content) ==
    IF content \in {NoFile, Torn} THEN {}
    ELSE IF IsMigrated(content) THEN content.proxies ELSE TransformProxies(content.proxies)

UpgradeableProxies(data) ==
    IF data = NoFile THEN {}
    ELSE {p \in UNION {{data.proxies[c][k] : k \in DOMAIN data.proxies[c]} : c \in DOMAIN data.proxies} :
             p.kind = "Upgradeable" /\ p.address # Absent}

\* Wherever the script stops, whatever it rejects and however often it runs
\* again, a proxy of the CLI is in the file of its network, and in the one that
\* the plugin opens once the script has come to its end; on a public network
\* the proxies that the plugin has added since are there as well.  Only a write
\* that was cut short loses them.
ProxiesAreKept ==
    \A n \in Public \union Unknown :
        Torn \notin {disk[OldLocation(n)], disk[ManifestFile(n)]} =>
            /\ UpgradeableProxies(legacy[n])
                   \subseteq ProxiesIn(disk[OldLocation(n)]) \union ProxiesIn(disk[ManifestFile(n)])
            /\ ~projectFile => UpgradeableProxies(legacy[n]) \subseteq ProxiesIn(disk[ManifestFile(n)])
            /\ n \in deployed \cap Public => Fresh \in ProxiesIn(disk[ManifestFile(n)])

\* A migrated implementation is one the CLI knew under its hash, and its layout
\* leads from each variable to the same members and values: the names that are
\* made up for types keep apart what the CLI kept apart.
LayoutsAreKept ==
    \A n \in Public \union Unknown :
        IsManifest(disk[ManifestFile(n)]) =>
            \A h \in DOMAIN disk[ManifestFile(n)].impls :
                LET impl == disk[ManifestFile(n)].impls[h]
                IN \E i \in DOMAIN legacy[n].contracts :
                       /\ legacy[n].contracts[i].deployedBytecodeHash = h
                       /\ legacy[n].contracts[i].address = impl.address
                       /\ SameLayout(legacy[n].contracts[i], impl.layout)
=============================================================================
