CONSTANTS
    None = None
    Template <- MCTemplate
    MaxWorkers <- MCMaxWorkers
    StartHosts <- MCStartHosts
    FileSets <- MCFileSets
    ScriptSets <- MCScriptSets
    Targets <- MCTargets
SPECIFICATION SSpec
INVARIANT StitchedNodeActive
INVARIANT PublishedAsProvisioned
PROPERTY PollEnds
\* the script ends, or spins in the poll loop
CHECK_DEADLOCK FALSE
