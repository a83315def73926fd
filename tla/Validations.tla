---------------------------- MODULE Validations ----------------------------
(***************************************************************************)
(* How the Truffle plugin decides that an implementation is safe to put    *)
(* behind a proxy.  The artifacts of the build directory are turned back   *)
(* into one compiler output, source by source (validations.ts); sources    *)
(* whose imports have no artifact are dropped.  Every contract that is     *)
(* left is checked (validate/run.ts) and a call for one of them collects   *)
(* the errors of all the code that its proxies would run (validate/        *)
(* query.ts, overrides.ts).                                                *)
(*                                                                         *)
(* The project is given: the contracts and their sources, what each        *)
(* inherits and links, and the unsafe constructs that its own code has and *)
(* no annotation allows.  The artifacts of a source come from one run of   *)
(* the compiler, which numbers what it compiles; other sources may come    *)
(* from other runs, with the same numbers for other things.  Of two        *)
(* contracts with one name Truffle writes one artifact: `named` gives the  *)
(* contract that the artifact under a contract's name is of.               *)
(***************************************************************************)
EXTENDS Naturals, Sequences, FiniteSets, SequencesExt

CONSTANTS
    Projects,       \* the sources and the artifacts that a run may find
    UnsafeAllowed,  \* values of the option unsafeAllow
    ErrorKinds, Linking, MissingUpgradeTo,
    Undefined       \* the JavaScript value of a missing entry

\* An artifact is named for its contract, and ids are unique within a run.  The
\* checks of a contract's own code report neither Linking, which comes of
\* the placeholders, nor MissingUpgradeTo, which comes with the call.
ASSUME ValidationAssumption ==
    /\ {Linking, MissingUpgradeTo} \subseteq ErrorKinds /\ Linking # MissingUpgradeTo
    /\ \A p \in Projects :
           /\ IsFiniteSet(DOMAIN p.source) /\ Undefined \notin DOMAIN p.source
           /\ p.artifacts \subseteq DOMAIN p.source
           /\ \A c \in p.artifacts : p.named[c] = c
           /\ \A c, d, e \in DOMAIN p.source :
                  LET id == p.id[p.run[p.source[c]]] IN id[d] = id[e] => d = e
           /\ {p.parents, p.libraries} \subseteq [DOMAIN p.source -> SUBSET DOMAIN p.source]
           /\ \A c \in DOMAIN p.source :
                  /\ p.errors[c] \subseteq ErrorKinds \ {Linking, MissingUpgradeTo}
                  /\ p.placeholders[c] \subseteq Nat /\ IsFiniteSet(p.placeholders[c])
           /\ \A c \in p.artifacts : p.imports[p.source[c]] \in Seq(Range(p.imports[p.source[c]]))

VARIABLES
    project,        \* what is in the directories, fixed
    unvisited,      \* sources the consistency check has yet to visit
    dependencies,   \* by source: those found to import it
    output,         \* the sources still in the compiler output
    validation,     \* the ValidationRunData, by contract name
    unsafeAllow,    \* the caller's array of allowed errors
    verdict         \* of the call: the errors it reports

validationVars == <<project, unvisited, dependencies, output, validation, unsafeAllow, verdict>>

Contracts == DOMAIN project.source
SourceOf(c) == project.source[c]

\* A source is in the output when an artifact brings its syntax tree.
Sources == {SourceOf(c) : c \in project.artifacts}

Reachable(from, Successors(_)) ==
    LET Grow[n \in Nat] ==
            IF n = 0 THEN from ELSE Grow[n - 1] \union UNION {Successors(x) : x \in Grow[n - 1]}
    IN Grow[Cardinality(Contracts) + Cardinality(Sources)]

Fails(how) == [contract |-> Undefined, kind |-> Undefined, errors |-> {how}]
Throws == Fails("throws")
NeverEnds == Fails("never ends")

ASSUME UndefinedAssumption == Undefined # NeverEnds

----------------------------------------------------------------------------
(* checkForImportIdConsistency *)

\* An import without an artifact: one more path to an OpenZeppelin interface
\* (scenario 2) is passed over.
IsUnknown(path) == path \notin Sources /\ path \notin project.samename

\* What the compiler run of a source numbered x, a source or a contract.
Id(s, x) == project.id[project.run[s]][x]

\* The runs of the importing and of the imported artifact numbered the source
\* differently.
IsInconsistent(s, path) == path \in Sources /\ Id(path, path) # Id(s, path)

\* Mutant: the edge points from the importing source to the imported one.
MutantWithDependency(deps, s, paths) == [deps EXCEPT ![s] = @ \union paths]

WithDependency(deps, s, paths) ==
    [p \in DOMAIN deps |-> IF p \in paths THEN deps[p] \union {s} ELSE deps[p]]

\* The queue of sources to drop, which never empties when it comes back to one.
Dropped(s, deps) == Reachable({s}, LAMBDA p : deps[p])
ComesBack(s, deps) ==
    \E p \in Dropped(s, deps) : p \in Reachable(deps[p], LAMBDA q : deps[q])

\* The imports of the next source, up to the first that ends the loop.
Visit ==
    /\ unvisited # <<>> /\ verdict = Undefined
    /\ LET s     == Head(unvisited)
           paths == project.imports[s]
           ends  == {k \in DOMAIN paths : IsUnknown(paths[k]) \/ IsInconsistent(s, paths[k])}
           first == CHOOSE k \in ends : \A l \in ends : k <= l
           deps  == WithDependency(dependencies, s,
                        {paths[k] : k \in {l \in DOMAIN paths : \A e \in ends : l < e}})
       IN IF s \notin output THEN UNCHANGED <<dependencies, output, verdict>>
          ELSE /\ dependencies' = deps
               /\ IF ends = {} THEN UNCHANGED <<output, verdict>>
                  ELSE IF IsInconsistent(s, paths[first])
                  THEN verdict' = Throws /\ UNCHANGED output
                  ELSE /\ verdict' = IF ComesBack(s, deps) THEN NeverEnds ELSE Undefined
                       /\ output' = output \ Dropped(s, deps)
    /\ unvisited' = Tail(unvisited)
    /\ UNCHANGED <<project, validation, unsafeAllow>>

----------------------------------------------------------------------------
(* validate *)

\* The positions that reconstructLinkReferences finds: it adds the position
\* of each placeholder to the index it goes on from.
LinkReferences(placeholders) ==
    LET PlaceholderLength == 4
        Found[index \in Nat] ==
            LET rest == {p \in placeholders : p >= index}
                next == CHOOSE p \in rest : \A q \in rest : p <= q
            IN IF rest = {} THEN {}
               ELSE {next} \union Found[index + next + PlaceholderLength]
    IN Found[0]

\* getConstructorErrors, getOpcodeErrors, getStateVariableErrors, getLinkingErrors
ErrorsOf(c) ==
    project.errors[c]
        \union (IF LinkReferences(project.placeholders[c]) = {} THEN {} ELSE {Linking})

Left == {c \in Contracts : SourceOf(c) \in output}

\* The name of a contract, with the validation that it leads to; Undefined when
\* there is none.
Name(c) == IF project.named[c] \in project.artifacts \intersect Left THEN project.named[c]
           ELSE Undefined

\* fromId: of the contracts with one id the last one gives its name; the order
\* of the directory is left open.
FromIds ==
    LET Ids == {Id(SourceOf(c), d) : c \in Left, d \in Contracts}
        Numbered(id) == {c \in Left : Id(SourceOf(c), c) = id}
    IN {fromId \in [Ids -> project.artifacts \union {Undefined}] :
           \A id \in Ids :
               IF Numbered(id) = {} THEN fromId[id] = Undefined
               ELSE \E c \in Numbered(id) : fromId[id] = Name(c)}

Ancestors(c) == Reachable(project.parents[c], LAMBDA e : project.parents[e])

\* The ids of what c inherits and links are those of its own run.
ContractValidation(c, fromId) ==
    [inherit   |-> {fromId[Id(SourceOf(c), e)] : e \in Ancestors(c)},
     libraries |-> {fromId[Id(SourceOf(c), e)] : e \in project.libraries[c]},
     upgradeTo |-> c \in project.upgradeTo,
     errors    |-> ErrorsOf(c)]

Validations(fromId) ==
    [c \in project.artifacts \intersect Left |-> ContractValidation(c, fromId)]

Validate ==
    /\ unvisited = <<>> /\ validation = Undefined /\ verdict = Undefined
    /\ \E fromId \in FromIds : validation' = Validations(fromId)
    /\ UNCHANGED <<project, unvisited, dependencies, output, unsafeAllow, verdict>>

----------------------------------------------------------------------------
(* assertUpgradeSafe *)

\* Mutant: the libraries that a library uses are not looked at.
MutantUsedContractsAndLibraries(name) ==
    LET res == {name} \union validation[name].inherit
    IN res \union UNION {validation[c].libraries : c \in res \ {Undefined}}

\* getUsedContractsAndLibraries
UsedContractsAndLibraries(name) ==
    Reachable({name} \union validation[name].inherit,
              LAMBDA c : IF c = Undefined THEN {} ELSE validation[c].libraries)

MethodsHaveUpgradeTo(name) ==
    \E c \in {name} \union validation[name].inherit : validation[c].upgradeTo

\* withValidationDefaults adds to the array of the caller.
WithDefaults(allow, unsafeAllowLinkedLibraries) ==
    IF unsafeAllowLinkedLibraries THEN allow \union {Linking} ELSE allow

\* processExceptions
ProcessExceptions(errors, kind, allow) ==
    errors \ (allow \union IF kind \in {"transparent", "beacon"} THEN {MissingUpgradeTo} ELSE {})

\* A name that is undefined makes the lookup of its errors throw.
AssertUpgradeSafe(c, kind, unsafeAllowLinkedLibraries) ==
    /\ validation # Undefined /\ c \in DOMAIN validation
    /\ verdict = Undefined
    /\ unsafeAllow' = WithDefaults(unsafeAllow, unsafeAllowLinkedLibraries)
    /\ LET used   == UsedContractsAndLibraries(c)
           errors == (UNION {validation[e].errors : e \in used})
                         \union (IF MethodsHaveUpgradeTo(c) THEN {} ELSE {MissingUpgradeTo})
       IN verdict' = IF Undefined \in used THEN Throws
                     ELSE [contract |-> c, kind |-> kind,
                           errors |-> ProcessExceptions(errors, kind, unsafeAllow')]
    /\ UNCHANGED <<project, unvisited, dependencies, output, validation>>

----------------------------------------------------------------------------
ValidationInit ==
    /\ project \in Projects
    /\ unvisited \in SetToSeqs(Sources)
    /\ dependencies = [s \in Sources |-> {}]
    /\ output = Sources
    /\ validation = Undefined
    /\ unsafeAllow \in UnsafeAllowed
    /\ verdict = Undefined

ValidationNext ==
    \/ Visit
    \/ Validate
    \/ \E c \in Contracts, kind \in {"transparent", "uups"}, linked \in BOOLEAN :
           AssertUpgradeSafe(c, kind, linked)

ValidationSpec == ValidationInit /\ [][ValidationNext]_validationVars
----------------------------------------------------------------------------
\* All the code that runs in a proxy of c: its own, what it inherits, and the
\* libraries any of that uses, as the sources have it.
Code(c) == Reachable({c} \union Ancestors(c), LAMBDA e : project.libraries[e])

Passed == IF verdict = Undefined THEN FALSE ELSE verdict.errors = {}

\* Among the contracts that are left, an id that c knows an ancestor or a library
\* by stands for nothing else.  A run of the compiler over the whole project
\* gives that, when no two contracts have one name: the recompilation that
\* checkForImportIdConsistency asks for.  The check itself does not, since it
\* compares runs along imports only.
NamesResolve ==
    \A c, d \in Left : \A e \in Ancestors(c) \union project.libraries[c] :
        Id(SourceOf(c), e) = Id(SourceOf(d), d) => project.named[d] = e

IsAllowed(e) ==
    /\ project.errors[e] \subseteq unsafeAllow
    /\ project.placeholders[e] = {} \/ Linking \in unsafeAllow

\* A contract passes only if the caller allowed every unsafe construct in its own
\* code, and, where ids stand for one name, in all the code of its proxies; and
\* then for a UUPS proxy only if it can be upgraded again.  It holds too when some
\* sources were dropped, so that parts of that code are unknown.
PassedIsSafe ==
    Passed =>
        /\ IsAllowed(verdict.contract)
        /\ NamesResolve =>
               /\ \A e \in Code(verdict.contract) : IsAllowed(e)
               /\ \/ verdict.kind # "uups" \/ MissingUpgradeTo \in unsafeAllow
                  \/ \E e \in {verdict.contract} \union Ancestors(verdict.contract) :
                         e \in project.upgradeTo

Imports(s) == IF s \in Sources THEN Range(project.imports[s]) ELSE {}

\* A source is dropped only if what it imports, however far away, is missing;
\* the loop that drops sources goes on for ever only where imports form a cycle.
DroppedIsIncomplete ==
    /\ \A s \in Sources \ output : \E path \in Reachable({s}, Imports) : IsUnknown(path)
    /\ verdict = NeverEnds => \E s \in Sources : s \in Reachable(Imports(s), Imports)
============================================================================
