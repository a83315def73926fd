------------------------------ MODULE MCChecks ------------------------------
(***************************************************************************)
(* Three calculations that share no state, side by side for TLC: whether a *)
(* layout may follow another, whether the code of a project is safe behind *)
(* a proxy, and how the calendar of a pool is extended.  A behaviour runs  *)
(* one of them, its subject; the others keep an idle value.                *)
(***************************************************************************)
EXTENDS MCStorageCompare, MCValidations, TradingCycleLoop

VARIABLE subject

CompareIsIdle ==
    layout = <<>> /\ proposed = <<>> /\ report = <<>>
    /\ opts = [unsafeAllowRenames |-> FALSE, unsafeAllowCustomTypes |-> FALSE]

ValidationIsIdle ==
    /\ project = [source |-> <<>>, artifacts |-> {}]
    /\ unvisited = <<>> /\ dependencies = <<>> /\ output = {}
    /\ validation = Undefined /\ unsafeAllow = {} /\ verdict = Undefined

LoopIsIdle ==
    /\ first = [id |-> 0, startTime |-> 0, endTime |-> 1]
    /\ tradingCycle = 1 /\ applyTime = 0
    /\ lastTradingCycle = first /\ pushed = <<>>

ChecksInit ==
    \/ subject = "layouts" /\ CompareInit /\ ValidationIsIdle /\ LoopIsIdle
    \/ subject = "code" /\ CompareIsIdle /\ ValidationInit /\ LoopIsIdle
    \/ subject = "calendar" /\ CompareIsIdle /\ ValidationIsIdle /\ LoopInit

ChecksNext ==
    /\ UNCHANGED subject
    /\ \/ subject = "layouts" /\ CompareNext /\ UNCHANGED <<validationVars, loopVars>>
       \/ subject = "code" /\ ValidationNext /\ UNCHANGED <<compareVars, loopVars>>
       \/ subject = "calendar" /\ LoopNext /\ UNCHANGED <<compareVars, validationVars>>

ChecksSpec == ChecksInit /\ [][ChecksNext]_<<subject, compareVars, validationVars, loopVars>>
=============================================================================
