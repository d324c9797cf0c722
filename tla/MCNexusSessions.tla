---------------------------- MODULE MCNexusSessions ----------------------------
(* NexusSessions for TLC: two channels, the first configured, the second with *)
(* the same binding or not configured; changes and edits lead to the other    *)
(* configurations.                                                            *)
EXTENDS NexusSessions

CONSTANTS c1, c2, b1, b2, role, e1

(* The key b2 in event e1 is configured with a pipeline name nobody knows.    *)
UnknownKeys == {<<b2, e1>>}

MCInit == NexusInit /\ config[c1] = b1 /\ config[c2] # b2

MCSpec == MCInit /\ [][NexusNext]_nexusVars
================================================================================
