----------------------------- MODULE MCBatchQueue ------------------------------
(* Three messages whose channels use three different batch intervals, one of   *)
(* them zero.                                                                  *)
EXTENDS BatchQueue, TLC

CONSTANTS m1, m2, m3

MCMessages == {m1, m2, m3}
MCInterval == (m1 :> 0) @@ (m2 :> 1) @@ (m3 :> 2)
================================================================================
