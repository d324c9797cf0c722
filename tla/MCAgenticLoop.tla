----------------------------- MODULE MCAgenticLoop -----------------------------
(* AgenticLoop for TLC: both pipelines, two tools at once, two rounds, two    *)
(* turns; the values of the constants are in the configurations.              *)
EXTENDS AgenticLoop
================================================================================
