---------------------------- MODULE MCCasePlacement ----------------------------
(* An instance of CasePlacement: two records and two messages of one channel,  *)
(* a message of another one.                                                   *)
EXTENDS CasePlacement, TLC

CONSTANTS ch1, ch2, r1, r2, m1, m2, m3, a, b, id

MCInputs == {r1, r2, m1, m2, m3}
MCChannelOf == [x \in MCInputs |-> IF x = m3 THEN ch2 ELSE ch1]
MCTimeOf == [x \in MCInputs |-> IF x \in {r1, m1} THEN 1 ELSE 2]
MCSent == <<m1, m2, m3>>
MCEarlier(x, y) == <<x, y>> \in {<<r1, r2>>, <<m1, m2>>, <<m1, m3>>, <<m2, m3>>}
\* The message of the other channel has an id that records of the first may have.
MCInit == PlacementInit /\ idOf[m3] = id
MCSpec == MCInit /\ [][PlacementNext]_placementVars
MCSymmetry == Permutations({a, b})
================================================================================
