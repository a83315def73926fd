-------------------------- MODULE MCStorageCompare --------------------------
(***************************************************************************)
(* A catalogue of types and layouts for TLC: short lists of annotated       *)
(* value types, and single variables of composite types followed by one    *)
(* that would be overwritten if they grew.                                 *)
(***************************************************************************)
EXTENDS StorageCompare, TLC

Item(head, label, bytes) ==
    [head |-> head, label |-> label, bytes |-> bytes, args |-> None, length |-> None,
     members |-> None]

Member(label, type) ==
    [label |-> label, type |-> type, renamedFrom |-> None, retypedFrom |-> None,
     position |-> None]

\* Identifiers of user-defined types carry a number; their arguments name them.
Struct(members) ==
    [Item("t_struct", "struct S", None) EXCEPT !.args = <<"S">>, !.members = members]
Enum(members, bytes) ==
    [Item("t_enum", "enum E", bytes) EXCEPT !.args = <<"E">>, !.members = members]
Array(element, length, label) ==
    [Item("t_array", label, None) EXCEPT !.args = <<element>>, !.length = length]
Mapping(key, value, label) ==
    [Item("t_mapping", label, SlotBytes) EXCEPT !.args = <<key, value>>]

Catalogue ==
   [u8 |-> Item("t_uint8", "uint8", 1),
    bool |-> Item("t_bool", "bool", 1),
    u16 |-> Item("t_uint16", "uint16", 2),
    addr |-> Item("t_address", "address", 2),
    any |-> Item("unknown", "unknown", None),
    C |-> [Item("t_contract", "contract C", 2) EXCEPT !.args = <<"C">>],
    price |-> [Item("t_userDefinedValueType", "Price", 2) EXCEPT !.args = <<"Price">>],
    fi |-> [Item("t_function_internal", "function ()", 1) EXCEPT !.args = <<>>],
    fe |-> [Item("t_function_external", "function () external", 2) EXCEPT !.args = <<>>],
    S0 |-> [Struct(None) EXCEPT !.bytes = SlotBytes],
    S1 |-> Struct(<<Member("a", "u8")>>),
    S2 |-> Struct(<<Member("a", "u8"), Member("b", "u8")>>),
    S3 |-> Struct(<<Member("a", "u8"), Member("b", "u16")>>),
    S4 |-> Struct(<<Member("b", "u8"), Member("a", "u8")>>),
    S5 |-> Struct(<<Member("a", "u8"), Member("e", "A1")>>),
    S6 |-> Struct(<<Member("a", "u8"), Member("e", "A2")>>),
    R |-> Struct(<<Member("a", "u8"), Member("next", "MR")>>),
    MR |-> Mapping("addr", "R", "mapping(address => struct S)"),
    E1 |-> Enum(<<"p", "q">>, 1),
    E2 |-> Enum(<<"p", "q", "r">>, 2),
    E3 |-> Enum(<<"q", "p">>, 1),
    E4 |-> Enum(<<"p">>, 1),
    A1 |-> Array("u8", 1, "uint8[1]"),
    A2 |-> Array("u8", 2, "uint8[2]"),
    A3 |-> Array("u8", 3, "uint8[3]"),
    AD |-> Array("u8", None, "uint8[]"),
    AS1 |-> Array("S1", None, "struct S[]"),
    AS2 |-> Array("S2", None, "struct S[]"),
    AS3 |-> Array("S3", None, "struct S[]"),
    M1 |-> Mapping("addr", "S1", "mapping(address => struct S)"),
    M2 |-> Mapping("addr", "S2", "mapping(address => struct S)"),
    M3 |-> Mapping("addr", "S3", "mapping(address => struct S)"),
    M5 |-> Mapping("addr", "S5", "mapping(address => struct S)"),
    M6 |-> Mapping("addr", "S6", "mapping(address => struct S)"),
    MU |-> Mapping("u8", "S1", "mapping(uint8 => struct S)"),
    MX |-> Mapping("any", "S1", "mapping(unknown => struct S)"),
    MA2 |-> Mapping("addr", "A2", "mapping(address => uint8[2])"),
    MA3 |-> Mapping("addr", "A3", "mapping(address => uint8[3])"),
    MAS |-> Mapping("addr", "AS1", "mapping(address => struct S[])"),
    MAT |-> Mapping("addr", "AS2", "mapping(address => struct S[])"),
    ME1 |-> Mapping("addr", "E1", "mapping(address => enum E)"),
    ME2 |-> Mapping("addr", "E2", "mapping(address => enum E)")]

Field(label, type, renamed, retyped) ==
    [label |-> label, type |-> type, renamedFrom |-> renamed, retypedFrom |-> retyped]

\* Variables of value types, with every annotation that concerns them.
Values ==
    {Field(label, type, renamed, retyped) :
        label \in {"x", "y"}, type \in {"u8", "bool", "u16"},
        renamed \in {None, "x"}, retyped \in {None, "uint8"}}

Plain(label, type) == Field(label, type, None, None)

Lists ==
    {<<>>, <<Plain("x", "u8"), Plain("y", "u8"), Plain("z", "u16")>>,
     <<Plain("y", "u8"), Plain("z", "u16"), Plain("x", "u8")>>,
     <<Plain("z", "u16"), Plain("x", "u8")>>, <<Plain("f", "fi")>>, <<Plain("f", "fe")>>,
     <<Plain("f", "fi"), Plain("x", "u8")>>, <<Plain("v", "price")>>}
    \union {<<f, Plain("z", "u8")>> : f \in Values}

\* A composite variable and a neighbour.
Composites ==
    {<<Plain("w", type), Plain("z", "u8")>> :
        type \in DOMAIN Catalogue \ {"any", "fi", "fe", "price"}}

MCLayouts ==
    {Placed(fields, positions) : fields \in Lists \union Composites, positions \in BOOLEAN}

MCOptions == [unsafeAllowRenames : BOOLEAN, unsafeAllowCustomTypes : BOOLEAN]
============================================================================
