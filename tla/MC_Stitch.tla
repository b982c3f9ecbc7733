------------------------------ MODULE MC_Stitch ------------------------------
(***************************************************************************)
(* An instance of Stitch for TLC: enough nodes for the counter to reach    *)
(* two digits on the Exogeni site, no boot scripts.                        *)
(***************************************************************************)
EXTENDS Stitch

MCTemplate == {}
MCMaxWorkers == 3
MCStartHosts == {10}
MCFileSets == {Kinds}
MCScriptSets == {{}}
\* the Exogeni storage node's fallback name, and a host name prefix
MCTargets == {[pre |-> "Node", num |-> 1], [pre |-> "storage", num |-> None]}
=============================================================================
