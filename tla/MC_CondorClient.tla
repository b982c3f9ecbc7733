--------------------------- MODULE MC_CondorClient ---------------------------
(***************************************************************************)
(* Small instances of CondorClient for TLC.                                *)
(***************************************************************************)
EXTENDS CondorClient

MCTemplate == Tokens
MCMaxWorkers == 2
\* a start in the middle of the range, and one close to its end
MCStartHosts == {10, 252}
MCFileSets == {Kinds, Kinds \ {"storage"}, {"submit", "worker"}}
MCScriptSets == {{}, {"worker"}, {"storage"}, Kinds}
=============================================================================
