------------------------------ MODULE MCRecordNotify ------------------------------
(* A channel record and a think record of one suffix, and a channel record of  *)
(* another.                                                                    *)
EXTENDS RecordNotify, TLC

CONSTANTS a, t, o, s1, s2, c1, c2, none

MCRecords == {a, t, o}
MCSuffixes == {s1, s2}
MCChannels == {c1, c2}
MCSuffixOf == a :> s1 @@ t :> s1 @@ o :> s2
MCChannelOf == a :> c1 @@ t :> none @@ o :> c2
================================================================================
