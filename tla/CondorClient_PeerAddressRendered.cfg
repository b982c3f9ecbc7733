CONSTANTS
    None = None
    Template <- MCTemplate
    MaxWorkers <- MCMaxWorkers
    StartHosts <- MCStartHosts
    FileSets <- MCFileSets
    ScriptSets <- MCScriptSets
INIT Init
NEXT Next
INVARIANT PeerAddressRendered
\* the script ends: sys.exit, a return from main, or an exception
CHECK_DEADLOCK FALSE
