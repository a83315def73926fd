--------------------------- MODULE DeployScripts ---------------------------
(***************************************************************************)
(* The scripts that deploy the protocol: migration 8 (Precog), migration 2 *)
(* (PCOG behind a proxy) and deploy/staking_deploy.ts.  Each goes through  *)
(* a list of contracts; one without an address in the config file of the   *)
(* network is deployed, set up and written to the file.  Then migration 8  *)
(* registers the contracts in PrecogStorage, and the staking script makes  *)
(* two pools.  A script can stop at any await and is then run again.       *)
(*                                                                         *)
(* A contract is named for its key in the file; its address is its number  *)
(* on the chain.  Fixed arguments, and the exchange behind the price feed, *)
(* are left out.                                                           *)
(***************************************************************************)
EXTENDS Naturals, Sequences, FiniteSets

CONSTANTS
    Scripts,        \* the scripts to run
    Given,          \* sets of contracts that a config file may start with
    NoAddress, Damaged,
    MaxStarts       \* bound: how often the script is started

ASSUME ScriptAssumption ==
    /\ Scripts \subseteq {"precog", "pcog", "staking"}
    /\ NoAddress \notin Nat
    /\ MaxStarts \in Nat

VARIABLES
    script,         \* the one that is run, fixed
    file,           \* the config file, by key, or Damaged
    created,        \* what was deployed: key, arguments, and what it was told
    pools,          \* the factories that createPool was called on
    step,           \* where the script is: 0 when it does not run
    stage,          \* and in which part of the step
    configs,        \* the file as it was required at the start
    addresses,      \* the local variables, by key
    newConfig,      \* the keys that later writes repeat
    starts

locals == <<configs, addresses, newConfig>>
scriptVars == <<script, file, created, pools, step, stage, locals, starts>>

----------------------------------------------------------------------------
(* What each script deploys, in its order. *)

PrecogKeys ==
    <<"PCOG", "EXCHANGE_MIDDLEWARE", "IPCOG_FACTORY", "PRECOG_STORAGE", "PRECOG_INTERNAL",
      "PRECOG_CORE", "PRECOG_FACTORY", "PRECOG_VAULT", "PRECOG_PROFIT", "PRECOG",
      "WITHDRAWAL_REGISTER">>

PcogKeys == <<"PCOG", "PROXY_ADMIN", "TRANSPARENT_PROXY">>

StakingKeys ==
    <<"HR", "WBTC", "PCOG", "BEACON_POOL", "BEACON_REWARD_FLEXIBLE", "BEACON_REWARD_APR",
      "REWARD_APR", "REWARD_FLEXIBLE", "PRICE_FEED", "FACTORY">>

Keys ==
    CASE script = "precog" -> PrecogKeys
      [] script = "pcog" -> PcogKeys
      [] script = "staking" -> StakingKeys

KeySet == {Keys[i] : i \in DOMAIN Keys}

\* The addresses that go into a constructor or initializer.
Needs(key) ==
    CASE key = "PRECOG_INTERNAL" -> {"PRECOG_STORAGE"}
      [] key \in {"PRECOG_CORE", "PRECOG_VAULT", "PRECOG_PROFIT", "PRECOG"} ->
             {"PRECOG_STORAGE", "PRECOG_INTERNAL"}
      [] key = "PRECOG_FACTORY" -> {"PRECOG_STORAGE", "PRECOG_INTERNAL", "IPCOG_FACTORY"}
      [] key = "WITHDRAWAL_REGISTER" -> {"PRECOG", "PRECOG_CORE"}
      [] key = "TRANSPARENT_PROXY" -> {"PCOG", "PROXY_ADMIN"}
      [] key = "REWARD_APR" -> {"PCOG", "HR", "BEACON_REWARD_APR"}
      [] key = "REWARD_FLEXIBLE" -> {"WBTC", "HR", "BEACON_REWARD_FLEXIBLE"}
      [] key = "FACTORY" ->
             {"HR", "PCOG", "BEACON_POOL", "PRICE_FEED", "REWARD_APR", "REWARD_FLEXIBLE"}
      [] OTHER -> {}

\* The contracts given have no needs, so their order does not matter.
ASSUME GivenAssumption == \A given \in Given : \A key \in given : Needs(key) = {}

\* Contracts that a transaction makes usable: minting, initialize, and the
\* role of the factory in HR.
HasSetup(key) ==
    \/ key \in {"WBTC", "FACTORY", "TRANSPARENT_PROXY"}
    \/ key = "PCOG" /\ script = "staking"

\* The keys that migration 8 registers in the storage.
Registered ==
    <<"EXCHANGE_MIDDLEWARE", "PCOG", "PRECOG_INTERNAL", "PRECOG_CORE", "PRECOG_FACTORY",
      "PRECOG_VAULT", "PRECOG_PROFIT", "PRECOG", "WITHDRAWAL_REGISTER">>

\* Transactions after the last contract.
Finals ==
    CASE script = "precog" -> Len(Registered)
      [] script = "pcog" -> 0
      [] script = "staking" -> 2

LastStep == Len(Keys) + Finals
IsDone == step = LastStep + 1

----------------------------------------------------------------------------
\* The first step from this one on that has something to do.
From(i, known) ==
    CHOOSE j \in i .. LastStep + 1 :
        /\ j <= Len(Keys) => known[Keys[j]] = NoAddress
        /\ \A k \in i .. j - 1 : k <= Len(Keys) /\ known[Keys[k]] # NoAddress

\* require(configPath) and the destructuring of it.
StartScript ==
    /\ step = 0 \/ IsDone
    /\ file # Damaged
    /\ starts < MaxStarts
    /\ starts' = starts + 1
    /\ configs' = file /\ addresses' = file
    /\ newConfig' = {}
    /\ step' = From(1, file) /\ stage' = "deploy"
    /\ UNCHANGED <<script, file, created, pools>>

Deploy ==
    /\ step \in 1 .. Len(Keys) /\ stage = "deploy"
    /\ LET key == Keys[step]
       IN /\ created' = Append(created,
              [key |-> key, args |-> [d \in Needs(key) |-> addresses[d]],
               isSetUp |-> ~HasSetup(key), knows |-> {}])
          /\ addresses' = [addresses EXCEPT ![key] = Len(created) + 1]
          /\ stage' = IF HasSetup(key) THEN "setup" ELSE "write"
    /\ UNCHANGED <<script, file, pools, step, configs, newConfig, starts>>

\* Mutant: the transaction is forgotten.
MutantSetUp(key) == created

SetUp(key) == [created EXCEPT ![addresses[key]].isSetUp = TRUE]

FinishSetup ==
    /\ step \in 1 .. Len(Keys) /\ stage = "setup"
    /\ LET done == SetUp(Keys[step])
       IN created' = IF Keys[step] = "FACTORY"
                     THEN [done EXCEPT ![addresses["HR"]].knows =
                              @ \union {<<"FACTORY", addresses["FACTORY"]>>}]
                     ELSE done
    /\ stage' = "write"
    /\ UNCHANGED <<script, file, pools, step, locals, starts>>

\* Whether later writes repeat the key: the staking script writes one object
\* that it keeps, migration 8 collects all but PCOG_ADDRESS in newConfig, and
\* migration 2 writes each key alone.
Remembers(key) ==
    CASE script = "precog" -> key # "PCOG"
      [] script = "pcog" -> FALSE
      [] script = "staking" -> TRUE

\* {...configs, ...newConfig}
ConfigWith(keys) == [k \in KeySet |-> IF k \in keys THEN addresses[k] ELSE configs[k]]

Write ==
    /\ step \in 1 .. Len(Keys) /\ stage = "write"
    /\ LET key == Keys[step]
       IN /\ newConfig' = IF Remembers(key) THEN newConfig \union {key} ELSE newConfig
          /\ file' = ConfigWith(newConfig \union {key})
    /\ step' = From(step + 1, addresses) /\ stage' = "deploy"
    /\ UNCHANGED <<script, created, pools, configs, addresses, starts>>

\* Mutant: the address that was in the file.
MutantAddressOf(key) == configs[key]

AddressOf(key) == addresses[key]

\* A setter of PrecogStorage.
Register ==
    /\ script = "precog" /\ step \in Len(Keys) + 1 .. LastStep
    /\ LET key == Registered[step - Len(Keys)]
       IN created' = [created EXCEPT ![addresses["PRECOG_STORAGE"]].knows =
              {known \in @ : known[1] # key} \union {<<key, AddressOf(key)>>}]
    /\ step' = step + 1
    /\ UNCHANGED <<script, file, pools, stage, locals, starts>>

CreatePool ==
    /\ script = "staking" /\ step \in Len(Keys) + 1 .. LastStep
    /\ pools' = Append(pools, addresses["FACTORY"])
    /\ step' = step + 1
    /\ UNCHANGED <<script, file, created, stage, locals, starts>>

\* The script throws or is killed; in the middle of a write, with the file.
Stop ==
    /\ step \in 1 .. LastStep
    /\ step' = 0
    /\ file' \in {file} \union (IF stage = "write" THEN {Damaged} ELSE {})
    /\ UNCHANGED <<script, created, pools, stage, locals, starts>>

----------------------------------------------------------------------------
\* A file that starts with contracts has them in any order on the chain.
ScriptInit ==
    /\ script \in Scripts
    /\ \E given \in Given :
           LET keys == given \intersect KeySet
           IN \E known \in [1 .. Cardinality(keys) -> keys] :
                 /\ \A k \in keys : \E n \in DOMAIN known : known[n] = k
                 /\ created = [n \in DOMAIN known |->
                        [key |-> known[n], args |-> <<>>, isSetUp |-> TRUE, knows |-> {}]]
                 /\ file = [k \in KeySet |->
                        IF k \in keys THEN CHOOSE n \in DOMAIN known : known[n] = k
                        ELSE NoAddress]
    /\ pools = <<>>
    /\ step = 0 /\ stage = "deploy"
    /\ configs = file /\ addresses = file /\ newConfig = {}
    /\ starts = 0

ScriptNext ==
    \/ StartScript \/ Deploy \/ FinishSetup \/ Write \/ Register \/ CreatePool \/ Stop

ScriptSpec == ScriptInit /\ [][ScriptNext]_scriptVars
----------------------------------------------------------------------------
IsRecorded(config, key) == config # Damaged /\ config[key] # NoAddress

\* Whichever run it comes from, and wherever earlier runs stopped, a contract
\* in the file is set up, the staking factory with its role in the HR of the
\* file, and was built from the contracts in the file (of migration 2, which
\* writes each address alone, only the former).
RecordedAreComplete ==
    \A key \in KeySet : IsRecorded(file, key) =>
        LET contract == created[file[key]]
        IN /\ contract.key = key
           /\ contract.isSetUp
           /\ script # "pcog" => \A d \in DOMAIN contract.args : contract.args[d] = file[d]
           /\ key = "FACTORY" => <<"FACTORY", file[key]>> \in created[file["HR"]].knows

\* After a run of migration 8 the storage knows the contracts of the file,
\* also when it and others come from earlier runs that stopped.
StorageKnowsConfig ==
    (script = "precog" /\ IsDone) =>
        \A key \in {Registered[i] : i \in DOMAIN Registered} :
            IsRecorded(file, key) =>
                {a \in {known[2] : known \in created[file["PRECOG_STORAGE"]].knows} :
                    <<key, a>> \in created[file["PRECOG_STORAGE"]].knows} = {file[key]}

\* An address that is once in the file stays: the next run, and the scripts
\* that read it, find the contract of the last one.
AddressesStay ==
    [][\A key \in KeySet :
          (IsRecorded(file, key) /\ file' # Damaged) => IsRecorded(file', key)]_scriptVars
=============================================================================
