--------------------------- MODULE StorageCompare ---------------------------
(***************************************************************************)
(* How upgrades-core decides whether a new version of a contract may take  *)
(* over the storage of the old one: StorageLayoutComparator (compare.ts)   *)
(* over the edits that the Levenshtein matrix of levenshtein.ts finds      *)
(* between the variables of the two layouts.  One upgrade after another is *)
(* proposed; an accepted one becomes the layout of the contract.           *)
(*                                                                         *)
(* A type is an identifier of the catalogue Types; a name, a label and the *)
(* head of a type are strings that are only compared.  The cache of type   *)
(* comparisons does not change their results and is left out.  A slot has  *)
(* SlotBytes bytes, and an enum of more than 2^BitsPerByte members takes   *)
(* one byte more: 32 and 8 in the code.                                    *)
(***************************************************************************)
EXTENDS Integers, Sequences, FiniteSets, SequencesExt

CONSTANTS
    Types,          \* type items by identifier: TypeItem with the parsed id
    Layouts,        \* the layouts a contract can have, annotations included
    Options,        \* the validation options of the calls
    SlotBytes, BitsPerByte,
    None

ASSUME CompareAssumption == SlotBytes \in Nat \ {0} /\ BitsPerByte \in Nat \ {0}

VARIABLES
    layout,         \* of the implementation in use
    proposed,       \* of the one compared with it last
    opts,           \* and the options of that call
    report          \* the operations of its LayoutCompatibilityReport

compareVars == <<layout, proposed, opts, report>>

RECURSIVE TypeChange(_, _, _, _), Cells(_, _), BytesOf(_), Parts(_, _)

\* TLC evaluates a definition once and a constant at every use.
TypeItems == Types

LabelOf(t) == TypeItems[t].label
HeadOf(t) == TypeItems[t].head

----------------------------------------------------------------------------
(* Levenshtein distance; change[i, j] is what getChangeOp says of the i-th *)
(* element of one list and the j-th of the other.                          *)

ChangeCost == 3
InsertionCost == 2
DeletionCost == 2

\* What getChangeOp throws aborts the whole comparison.
Throw == [kind |-> "throw"]

\* Mutant: off by one.
MutantIsAppend(j, n) == j > n + 1

\* An element of the updated list beyond the length n of the original one.
IsAppend(j, n) == j > n

\* Mutant: the last of several equally cheap entries instead of the cheapest.
MutantMinBy(entries) == Last(entries)

\* The first of the entries with the least cost.
MinBy(entries) ==
    entries[CHOOSE k \in DOMAIN entries :
                \A l \in DOMAIN entries :
                    \/ entries[k].cost < entries[l].cost
                    \/ entries[k].cost = entries[l].cost /\ k <= l]

\* Matrix[i, j] has the operations that take the first i elements of a to the
\* first j of b, and their cost.
Levenshtein(a, b, change) ==
    LET With(entry, cost, op) == [cost |-> entry.cost + cost, ops |-> Append(entry.ops, op)]
        Matrix[i \in 0 .. Len(a), j \in 0 .. Len(b)] ==
            LET insertion == IF IsAppend(j, Len(a))
                             THEN With(Matrix[i, j - 1], 0, [kind |-> "append", updated |-> j])
                             ELSE With(Matrix[i, j - 1], InsertionCost,
                                       [kind |-> "insert", updated |-> j])
                deletion == With(Matrix[i - 1, j], DeletionCost,
                                 [kind |-> "delete", original |-> i])
                replacement == IF change[i, j] = None THEN Matrix[i - 1, j - 1]
                               ELSE With(Matrix[i - 1, j - 1], ChangeCost, change[i, j])
            IN IF i = 0 THEN IF j = 0 THEN [cost |-> 0, ops |-> <<>>] ELSE insertion
               ELSE IF j = 0 THEN deletion ELSE MinBy(<<replacement, insertion, deletion>>)
    IN IF \E i \in DOMAIN a, j \in DOMAIN b : change[i, j] = Throw
       THEN <<Throw>> ELSE Matrix[Len(a), Len(b)].ops

WithoutAppends(ops) == SelectSeq(ops, LAMBDA op : op.kind # "append")

----------------------------------------------------------------------------
(* Changes of a type.  A change is None, Throw, or a record with its kind. *)

\* A change of a part, reported at the type that has the part.
Within(kind, inner) ==
    IF inner \in {None, Throw} THEN inner ELSE [kind |-> kind, inner |-> inner.kind]

IsFunction(t) == HeadOf(t) \in {"t_function_internal", "t_function_external"}

\* getVisibilityChange asserts that both are functions.
VisibilityChange(o, u) ==
    IF ~IsFunction(o) THEN Throw
    ELSE IF HeadOf(o) # HeadOf(u) THEN [kind |-> "visibility change"] ELSE None

\* ceil(log2(max(2, memberCount)) / 8)
EnumSize(memberCount) ==
    CHOOSE size \in 1 .. memberCount + 1 :
        /\ memberCount <= 2 ^ (BitsPerByte * size)
        /\ size = 1 \/ memberCount > 2 ^ (BitsPerByte * (size - 1))

EnumChange(o, u) ==
    LET members(t) == TypeItems[t].members
        replaced == [i \in DOMAIN members(o), j \in DOMAIN members(u) |->
                        IF members(o)[i] = members(u)[j] THEN None ELSE [kind |-> "replace"]]
    IN IF EnumSize(Len(members(o))) # EnumSize(Len(members(u)))
       THEN [kind |-> "enum resize"]
       ELSE IF WithoutAppends(Levenshtein(members(o), members(u), replaced)) # <<>>
       THEN [kind |-> "enum members"] ELSE None

\* Mutant: an array may grow wherever it is.
MutantLengthChange(o, u, allowAppend) ==
    IF None \in {TypeItems[o].length, TypeItems[u].length} THEN
        IF TypeItems[o].length # TypeItems[u].length THEN [kind |-> "array dynamic"] ELSE None
    ELSE IF TypeItems[u].length < TypeItems[o].length THEN [kind |-> "array shrink"] ELSE None

\* The lengths in the tails of two array types; None is that of a dynamic array.
LengthChange(o, u, allowAppend) ==
    IF None \in {TypeItems[o].length, TypeItems[u].length} THEN
        IF TypeItems[o].length # TypeItems[u].length THEN [kind |-> "array dynamic"] ELSE None
    ELSE IF TypeItems[u].length < TypeItems[o].length THEN [kind |-> "array shrink"]
    ELSE IF TypeItems[u].length > TypeItems[o].length /\ ~allowAppend THEN [kind |-> "array grow"]
    ELSE None

----------------------------------------------------------------------------
(* Changes of a variable or a struct member. *)

NameChange(o, u) ==
    /\ ~opts.unsafeAllowRenames
    /\ o.label # u.renamedFrom
    /\ \/ u.label # o.label
       \/ u.renamedFrom # None /\ u.renamedFrom # o.renamedFrom

RetypedFromOriginal(o, u) == u.retypedFrom = LabelOf(o.type)

HasLayout(field) == field.position # None

\* The slot and the offset are one position; an uncertain change is one that
\* layouts without positions cannot show.
LayoutChange(o, u) ==
    LET labels == {LabelOf(o.type), LabelOf(u.type)}
    IN IF Cardinality(labels) = 1 \/ labels \subseteq {"uint8", "bool"} THEN "none"
       ELSE IF HasLayout(o) /\ HasLayout(u)
       THEN IF o.position = u.position /\ BytesOf(o.type) = BytesOf(u.type)
            THEN "none" ELSE "certain"
       ELSE "uncertain"

\* The change of a field, given those of its name, type and place.
FieldReport(u, nameChange, typeChange, layoutChange) ==
    CASE typeChange = Throw -> Throw
      [] u.retypedFrom # None /\ layoutChange # "none" -> [kind |-> "layoutchange"]
      [] typeChange # None /\ nameChange -> [kind |-> "replace"]
      [] nameChange -> [kind |-> "rename"]
      [] typeChange # None -> [kind |-> "typechange", change |-> typeChange]
      [] layoutChange = "certain" -> [kind |-> "layoutchange"]
      [] OTHER -> None

\* getFieldChange; within holds the comparisons of types it is part of.
FieldChange(o, u, within) ==
    FieldReport(u, NameChange(o, u),
                IF RetypedFromOriginal(o, u) THEN None
                ELSE TypeChange(o.type, u.type, FALSE, within),
                LayoutChange(o, u))

\* layoutLevenshtein
FieldOps(original, updated, allowAppend, within) ==
    LET change == [i \in DOMAIN original, j \in DOMAIN updated |->
                      FieldChange(original[i], updated[j], within)]
        ops == Levenshtein(original, updated, change)
    IN IF allowAppend THEN WithoutAppends(ops) ELSE ops

MembersReport(ops) ==
    CASE ops = <<>> -> None
      [] ops = <<Throw>> -> Throw
      [] OTHER -> [kind |-> "struct members"]

StructChange(o, u, allowAppend, within) ==
    MembersReport(FieldOps(TypeItems[o].members, TypeItems[u].members, allowAppend, within))

\* The key type is unknown in manifests migrated from the OpenZeppelin CLI.
KeyChange(o, u, within) ==
    IF HeadOf(o) = "unknown" THEN None ELSE TypeChange(o, u, FALSE, within)

TypeChange(o, u, allowAppend, within) ==
    LET here == within \union {<<o, u, allowAppend>>}
        part(n, append) == TypeChange(TypeItems[o].args[n], TypeItems[u].args[n], append, here)
        missing == None \in {TypeItems[o].members, TypeItems[u].members}
    IN CASE <<o, u, allowAppend>> \in within -> Throw       \* recursive types
         [] IsFunction(u) -> VisibilityChange(o, u)
         [] HeadOf(o) # HeadOf(u) -> [kind |-> "obvious mismatch"]
         [] TypeItems[o].args = None -> None
         [] HeadOf(o) = "t_contract" -> None
         [] HeadOf(o) \in {"t_struct", "t_enum"} /\ missing ->
                IF opts.unsafeAllowCustomTypes THEN None ELSE [kind |-> "missing members"]
         [] HeadOf(o) = "t_struct" -> StructChange(o, u, allowAppend, here)
         [] HeadOf(o) = "t_enum" -> EnumChange(o, u)
         [] HeadOf(o) = "t_mapping" ->
                LET key == KeyChange(TypeItems[o].args[1], TypeItems[u].args[1], here)
                IN IF key # None THEN Within("mapping key", key)
                   ELSE Within("mapping value", part(2, TRUE))
         [] HeadOf(o) = "t_array" ->
                IF LengthChange(o, u, allowAppend) # None THEN LengthChange(o, u, allowAppend)
                ELSE Within("array value", part(1, FALSE))
         [] OTHER -> [kind |-> "unknown"]

----------------------------------------------------------------------------
\* compareLayouts
CompareLayouts(original, updated) == FieldOps(original, updated, TRUE, {})

\* assertStorageUpgradeSafe does not throw.
Passes(ops) == ops = <<>>

CompareInit ==
    /\ layout \in Layouts
    /\ proposed = layout
    /\ opts \in Options
    /\ report = <<>>

\* assertStorageUpgradeSafe for a next version of the contract.  A call that
\* throws ends there: the contract keeps its layout.
Propose(updated) ==
    /\ Passes(report)
    /\ proposed' = updated
    /\ report' = CompareLayouts(layout, updated)
    /\ layout' = IF Passes(report') THEN updated ELSE layout
    /\ UNCHANGED opts

CompareNext == \E updated \in Layouts : Propose(updated)

CompareSpec == CompareInit /\ [][CompareNext]_compareVars
----------------------------------------------------------------------------
(* What the storage holds, as the compiler lays it out: the reference for   *)
(* the comparison.  A cell is a place and what is read there.               *)

RoundUp(n) == ((n + SlotBytes - 1) \div SlotBytes) * SlotBytes

\* The first byte of each of a sequence of types: a value that does not fit
\* in the rest of a slot starts the next one.
Starts(types) ==
    LET Start[i \in DOMAIN types] ==
            LET free == IF i = 1 THEN 0 ELSE Start[i - 1] + BytesOf(types[i - 1])
            IN IF (free % SlotBytes) + BytesOf(types[i]) > SlotBytes THEN RoundUp(free) ELSE free
    IN Start

Extent(types) ==
    IF types = <<>> THEN 0
    ELSE RoundUp(Starts(types)[Len(types)] + BytesOf(types[Len(types)]))

TypesOf(fields) == [i \in DOMAIN fields |-> fields[i].type]
Elements(t) == [k \in 1 .. TypeItems[t].length |-> TypeItems[t].args[1]]
IsFixedArray(t) == HeadOf(t) = "t_array" /\ TypeItems[t].length # None

BytesOf(t) ==
    CASE HeadOf(t) = "t_struct" /\ TypeItems[t].members # None -> Extent(TypesOf(TypeItems[t].members))
      [] IsFixedArray(t) -> Extent(Elements(t))
      [] HeadOf(t) \in {"t_mapping", "t_array"} -> SlotBytes
      [] OTHER -> TypeItems[t].bytes

\* Types nest at most this deep here; a recursive type is cut off below.
Depth == 6

CellsOf(types, depth) ==
    UNION {{<<Starts(types)[i] + cell[1], cell[2]>> : cell \in Cells(types[i], depth)} :
               i \in DOMAIN types}

\* The types that a type is made of.
PartsOf(t) ==
    IF HeadOf(t) = "t_struct" /\ TypeItems[t].members # None
    THEN Range(TypesOf(TypeItems[t].members))
    ELSE IF HeadOf(t) \in {"t_array", "t_mapping"} THEN Range(TypeItems[t].args) ELSE {}

Parts(t, depth) ==
    IF depth = 0 THEN {t} ELSE {t} \union UNION {Parts(p, depth - 1) : p \in PartsOf(t)}

\* Old manifests lack the members of structs and enums.
IsDescribed(t) == HeadOf(t) \in {"t_struct", "t_enum"} => TypeItems[t].members # None

\* The cells behind a mapping or a dynamic array are those of one value or of
\* two elements in a region of their own.
Cells(t, depth) ==
    LET arg(n) == TypeItems[t].args[n]
        within == depth - 1
    IN CASE depth = 0 -> {}
         [] HeadOf(t) = "t_struct" /\ TypeItems[t].members # None ->
                CellsOf(TypesOf(TypeItems[t].members), within)
         [] IsFixedArray(t) -> CellsOf(Elements(t), within)
         [] HeadOf(t) = "t_array" ->
                {<<0, <<"element", cell>>>> : cell \in CellsOf(<<arg(1), arg(1)>>, within)}
         [] HeadOf(t) = "t_mapping" ->
                {<<0, <<"value", key, cell>>>> :
                    key \in {"unknown", HeadOf(arg(1))}, cell \in Cells(arg(2), within)}
         [] HeadOf(t) = "t_enum" /\ TypeItems[t].members # None ->
                {<<0, <<"enum", TypeItems[t].bytes, k, TypeItems[t].members[k]>>>> :
                    k \in DOMAIN TypeItems[t].members}
         [] OTHER -> {<<0, <<"plain", HeadOf(t)>>>>}

\* The compiler's positions, or None where it gave none.
Placed(fields, withPositions) ==
    [i \in DOMAIN fields |->
        [label |-> fields[i].label, type |-> fields[i].type,
         renamedFrom |-> fields[i].renamedFrom, retypedFrom |-> fields[i].retypedFrom,
         position |-> IF withPositions THEN Starts(TypesOf(fields))[i] ELSE None]]

VariableCells(fields, i) ==
    {<<Starts(TypesOf(fields))[i] + cell[1], cell[2]>> : cell \in Cells(fields[i].type, Depth)}

\* A variable whose type the author declared to replace another one.
IsRetyped(o, u) == RetypedFromOriginal(o, u) /\ LabelOf(o.type) # LabelOf(u.type)

\* The author names a type that kept its name and changed inside: nothing is
\* compared then.
IsVacuous(o, u) ==
    RetypedFromOriginal(o, u) /\ LabelOf(o.type) = LabelOf(u.type) /\ o.type # u.type

----------------------------------------------------------------------------
\* An upgrade that passes leaves every variable where it was, and what was
\* stored in it is read as it was written, through structs, arrays, mappings
\* and enums, whatever is renamed, retyped or appended around it.
AcceptedKeepsData ==
    [][Passes(report') =>
          /\ Len(layout) <= Len(layout')
          /\ (\A i \in DOMAIN layout :
                  /\ ~IsVacuous(layout[i], layout'[i])
                  /\ \A p \in Parts(layout[i].type, Depth) \union Parts(layout'[i].type, Depth) :
                         IsDescribed(p)) =>
                 \A i \in DOMAIN layout :
                     /\ Starts(TypesOf(layout))[i] = Starts(TypesOf(layout'))[i]
                     /\ IsRetyped(layout[i], layout'[i])
                            \/ VariableCells(layout, i) \subseteq VariableCells(layout', i)]_compareVars

MaxLength == CHOOSE n \in {Len(l) : l \in Layouts} : \A l \in Layouts : Len(l) <= n

\* The ways to line up lists of two lengths: which element becomes which, in
\* order.
Alignments ==
    [m, n \in 0 .. MaxLength |->
        {pairs \in SUBSET ((1 .. m) \X (1 .. n)) :
            \A p, q \in pairs : p # q => \/ p[1] < q[1] /\ p[2] < q[2]
                                         \/ p[1] > q[1] /\ p[2] > q[2]}]

AlignmentCost(original, updated, pairs) ==
    LET changed == {p \in pairs : FieldChange(original[p[1]], updated[p[2]], {}) # None}
        deleted == DOMAIN original \ {p[1] : p \in pairs}
        inserted == {j \in DOMAIN updated \ {p[2] : p \in pairs} : j <= Len(original)}
    IN 3 * Cardinality(changed) + 2 * Cardinality(deleted) + 2 * Cardinality(inserted)

OpsCost(ops) ==
    LET cost(op) == IF op.kind \in {"insert", "delete"} THEN 2 ELSE 3
    IN FoldLeft(LAMBDA sum, op : sum + cost(op), 0, ops)

\* The report explains the upgrade by the cheapest edits there are, in a list
\* of which no part hides a change that other edits would show.
EditsAreMinimal ==
    Throw \notin Range(report) /\ ~Passes(report) =>
        /\ \E pairs \in Alignments[Len(layout), Len(proposed)] :
               AlignmentCost(layout, proposed, pairs) = OpsCost(report)
        /\ \A pairs \in Alignments[Len(layout), Len(proposed)] :
               AlignmentCost(layout, proposed, pairs) >= OpsCost(report)

\* Types the comparison has an answer for; for the others it always reports a
\* change, or throws.
IsSupported(t) ==
    \A p \in Parts(t, Depth) :
        /\ HeadOf(p) # "t_userDefinedValueType" /\ ~IsFunction(p)
        /\ IsDescribed(p)
        /\ \A q \in PartsOf(p) : p \notin Parts(q, Depth)

\* A version that only adds variables after those of the old one passes,
\* with whatever annotations its variables still carry.
AppendingPasses ==
    [][(/\ Len(layout) <= Len(proposed')
        /\ SubSeq(proposed', 1, Len(layout)) = layout
        /\ \A i \in DOMAIN proposed' : IsSupported(proposed'[i].type))
          => Passes(report')]_compareVars
============================================================================
