---------------------------- MODULE MCSnowflake ----------------------------
(***************************************************************************)
(* An instance of Snowflake for TLC: a process whose generator two         *)
(* goroutines use, and another process with a node of its own.             *)
(***************************************************************************)
EXTENDS Snowflake

CONSTANTS g1, g2, c1, c2, c3

MCGeneratorOf == [c \in Callers |-> IF c = c3 THEN g2 ELSE g1]
MCNodeId == [g \in Generators |-> IF g = g1 THEN 1 ELSE 0]

MCMaxCalls == [c \in Callers |-> IF c = c3 THEN 1 ELSE 2]
=============================================================================
