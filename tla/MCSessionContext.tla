---------------------------- MODULE MCSessionContext ---------------------------
(* Two messages and two system texts.                                          *)
EXTENDS SessionContext, TLC

CONSTANTS a, b, s1, s2

Symmetric == Permutations({a, b}) \union Permutations({s1, s2})
================================================================================
