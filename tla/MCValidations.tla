--------------------------- MODULE MCValidations ---------------------------
(***************************************************************************)
(* Projects of three contracts in three sources for TLC.                   *)
(***************************************************************************)
EXTENDS Validations, TLC

C == {"c1", "c2", "c3"}
S == [c1 |-> "s1", c2 |-> "s2", c3 |-> "s3"]

\* What one contract has to do with another: its source imports the other's,
\* and it may inherit or link it.  Only c1 and c2 import in a cycle.
Edges == {<<"c1", "c2">>, <<"c1", "c3">>, <<"c2", "c3">>, <<"c2", "c1">>}

Relations ==
    {r \in [Edges -> {"none", "import", "parent", "library"}] :
        r[<<"c2", "c1">>] \in {"none", "import"}}

Related(r, c, kinds) == {d \in C : <<c, d>> \in Edges /\ r[<<c, d>>] \in kinds}

\* The one thing of interest in the project.
Features ==
    {<<"error", "c2">>, <<"error", "c3">>, <<"placeholders", "c1">>, <<"placeholders", "c3">>,
     <<"upgradeTo", "c1">>, <<"upgradeTo", "c2">>}

Imported(r, c) == {S[d] : d \in Related(r, c, {"import", "parent", "library"})}

\* A compiler run numbers contracts and sources; another one may do it otherwise:
\* with numbers of its own, with those of c2 and c3 or of their sources
\* exchanged, or with those of the contracts alone.
Numbering == [c1 |-> 1, c2 |-> 2, c3 |-> 3, s1 |-> 4, s2 |-> 5, s3 |-> 6]
Fresh     == [x \in DOMAIN Numbering |-> Numbering[x] + 6]
Exchanged == [Numbering EXCEPT !.c2 = 3, !.c3 = 2, !.s2 = 6, !.s3 = 5]
Edited    == [Numbering EXCEPT !.c2 = 3, !.c3 = 2]

\* A project in which every import has its artifact, or all but those of one
\* source; an interface may be imported under a second path.
Project(r, imports1, imports2, feature, missing, samename) ==
    [source       |-> S,
     artifacts    |-> C \ {missing},
     named        |-> [c \in C |-> c],
     run          |-> [s1 |-> 1, s2 |-> 1, s3 |-> 1],
     id           |-> <<Numbering, Numbering>>,
     samename     |-> samename,
     imports      |-> [s1 |-> imports1, s2 |-> imports2, s3 |-> <<>>],
     parents      |-> [c \in C |-> Related(r, c, {"parent"})],
     libraries    |-> [c \in C |-> Related(r, c, {"library"})],
     errors       |-> [c \in C |-> IF feature = <<"error", c>> THEN {"selfdestruct"} ELSE {}],
     placeholders |-> [c \in C |-> IF feature = <<"placeholders", c>> THEN {3, 8, 12} ELSE {}],
     upgradeTo    |-> {c \in C : feature = <<"upgradeTo", c>>}]

\* The source of c3 is of another run.
TwoRuns(p) ==
    {[p EXCEPT !.run.s3 = 2, !.id = <<Numbering, other>>] : other \in {Fresh, Exchanged, Edited}}

\* c3 is a contract of the first source and has the name of c2.
OneName(p) == [p EXCEPT !.source.c3 = "s1", !.artifacts = {"c1", "c2"}, !.named.c3 = "c2"]

ProjectsOf(r) ==
    UNION {
        {Project(r, i, j, feature, missing, {}) :
             feature \in Features, missing \in {Undefined, "c2", "c3"}}
        \union {Project(r, i, j, <<"error", "c3">>, "c3", {"s3"})}
        \union UNION {TwoRuns(Project(r, i, j, feature, Undefined, {})) :
                          feature \in {<<"error", "c2">>, <<"error", "c3">>}} :
        i \in SetToSeqs(Imported(r, "c1")), j \in SetToSeqs(Imported(r, "c2"))}

ProjectsWithOneName(r) ==
    {OneName(Project(r, i, j, <<"error", "c3">>, Undefined, {})) :
        i \in SetToSeqs(Imported(r, "c1") \ {"s3"}), j \in SetToSeqs(Imported(r, "c2"))}

MCProjects ==
    UNION {ProjectsOf(r) : r \in Relations}
        \union UNION {ProjectsWithOneName(r) : r \in {q \in Relations : q[<<"c2", "c3">>] = "none"}}
=============================================================================
