-------------------------------- MODULE MCMemory --------------------------------
(* The stores of what the agent remembers, one of them at a time.               *)
(* Records: two days, a request for both files, a forced one that is late for   *)
(* the second day, one that is only welcome in order, and a context rebuilt.    *)
(* The ego memory: an agent and a role of it, two requests at a time.           *)
EXTENDS ContextRecovery, EgoMemory, TLC

CONSTANTS a, b, r1, r2, r3, r4, both, forced, plain, anna, boss, people, x, y, p, q
VARIABLE store   \* which of the two it is

MCRecords == {r1, r2, r3, r4}
MCKeyOf == [r \in MCRecords |-> IF r = r2 THEN b ELSE a]
MCTimeOf == [r \in MCRecords |-> CASE r = r2 -> 1 [] r = r3 -> 2 [] OTHER -> 3]
MCDay == [k \in {a, b} |-> IF k = b THEN 1 ELSE 2]
MCDayOf == [t \in 1..4 |-> IF t = 1 THEN 1 ELSE 2]
MCRecordsOf == [s \in {both, forced, plain} |->
    CASE s = both -> {r1, r2} [] s = forced -> {r3} [] s = plain -> {r4}]
MCForced == [s \in {both, forced, plain} |-> s = forced]
MCBefore(s, t) == s = r2 /\ t = r1
MCAgentOf == boss :> anna

MCInit ==
    /\ Init /\ StartRecovery /\ EgoInit
    /\ store \in {"records", "ego"} /\ (store = "records" => registered = {})
MCNext ==
    \/ store = "records" /\ RecoveryNext /\ UNCHANGED <<egoVars, store>>
    \/ store = "ego" /\ EgoNext /\ UNCHANGED <<vars, recovery, store>>
MCSpec == MCInit /\ [][MCNext]_<<vars, recovery, egoVars, store>>
Symmetry == Permutations({p, q})
================================================================================
