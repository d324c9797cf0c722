---------------------------- MODULE MCCaseArchive ----------------------------
(* An instance of CaseArchive: the role has one record, its event has channel  *)
(* records on two channels and a think record that the first of them names.    *)
EXTENDS CaseArchive, TLC

CONSTANTS role, event, ch1, ch2, c1, c2, r1, e1, e2, t1

MCSuffixes == {role, event}
MCEvents == {event}
MCChannels == {ch1, ch2}
MCCases == {c1, c2}
MCRecords == {r1, e1, e2, t1}
MCSuffixOf == [r \in MCRecords |-> IF r = r1 THEN role ELSE event]
MCChannelOf == [r \in MCRecords |-> IF r = e2 THEN ch2 ELSE ch1]
MCTimeOf == [r \in MCRecords |-> IF r = e2 THEN 2 ELSE 1]
MCPlaceholder == [r \in MCRecords |-> IF r = t1 THEN e1 ELSE NoRecord]
MCSymmetry == Permutations(MCCases)
=============================================================================
