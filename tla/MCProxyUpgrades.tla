-------------------------- MODULE MCProxyUpgrades --------------------------
(***************************************************************************)
(* Small instances of ProxyUpgrades for TLC.                               *)
(***************************************************************************)
EXTENDS ProxyUpgrades, TLC

CONSTANT MaxCalls           \* bound: calls that all processes make
ASSUME MaxCalls \in Nat

VARIABLE calls

mcVars == <<proxyVars, calls>>

MCInit == ProxyInit /\ calls = 0

MCNext ==
    /\ ProxyNext
    /\ calls' = calls + IF \E p \in Processes : run[p] = Idle /\ run'[p] # Idle THEN 1 ELSE 0
    /\ calls' <= MaxCalls

MCSpec == MCInit /\ [][MCNext]_mcVars

\* v3 does not keep the storage of v1, and v2 cannot be upgraded by itself.
MCCompatible ==
    {<<"v1", "v1">>, <<"v1", "v2">>, <<"v2", "v2">>, <<"v2", "v3">>, <<"v3", "v3">>}

Start(cs, vs, adm, ps) == [contracts |-> cs, impls |-> vs, admin |-> adm, proxies |-> ps]

Transparent(v, adm) == Contract("transparent", v, adm, None)
Uups(v) == Contract("uups", v, None, None)
WithBeacon(v) == <<Contract("beacon", v, None, None), Contract("beaconproxy", None, None, 1)>>

\* What calls of the plugin leave that came to their end, or died before
\* addProxy, and proxies that were deployed without it.
MCStarts ==
    {Start(<<>>, {}, None, <<>>),
     Start(<<Transparent("v1", "admin")>>, {"v1"}, "admin", <<"transparent">>),
     Start(<<Transparent("v2", "admin")>>, {"v1", "v2"}, "admin", <<"transparent">>),
     Start(<<Transparent("v1", "other")>>, {}, None, <<>>),
     Start(<<Transparent("v2", "other")>>, {"v1"}, "admin", <<>>),
     Start(<<Uups("v1")>>, {}, None, <<>>),
     Start(<<Uups("v1")>>, {"v1"}, None, <<>>),
     Start(<<Uups("v1")>>, {"v1", "v2"}, "admin", <<"uups">>),
     Start(<<Uups("v3")>>, {"v1", "v3"}, None, <<"uups">>),
     Start(WithBeacon("v1"), {}, None, <<>>),
     Start(WithBeacon("v2"), {"v1", "v2"}, "admin", 2 :> "beacon")}

ProcessSymmetry == Permutations(Processes)
=============================================================================
