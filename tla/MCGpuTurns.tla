----------------------------- MODULE MCGpuTurns -----------------------------
(* The models and backends the runs of GpuTurns set up.                      *)
EXTENDS GpuTurns

MCPassing == {[recurrent |-> FALSE, fails |-> FALSE], [recurrent |-> TRUE, fails |-> TRUE]}
MCUnwinding == {[recurrent |-> FALSE, fails |-> TRUE]}
MCZeroing == {[recurrent |-> TRUE, fails |-> FALSE]}

(* Either alone leaves GPU work outside the regions.                         *)
MCUngated == MCUnwinding \cup MCZeroing
=============================================================================
