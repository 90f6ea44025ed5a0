CONSTANT
    MaxDocFaults = 0
SPECIFICATION DocsSpec
INVARIANT DocumentedCallsReachTheirHandler
