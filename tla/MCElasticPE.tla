----------------------------- MODULE MCElasticPE -----------------------------
(***************************************************************************)
(* ElasticPE with a unit of two modes: one of two edges, one combinational *)
(* like FMUL, whose latency in FPUnit_wrapper::all_modes is 0.             *)
(***************************************************************************)
EXTENDS ElasticPE

CONSTANTS fadd, fmul

MCLatency == [op \in {fadd, fmul} |-> IF op = fadd THEN 2 ELSE 0]
=============================================================================
