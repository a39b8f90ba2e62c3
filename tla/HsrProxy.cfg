\* The request loop (one request task at a time) with reconfiguration,
\* shutdown and failures, and the local-to-service copy task of the first
\* accepted connection.
CONSTANTS
    p1 = p1
    p2 = p2
    Ports <- MCPorts
    Configs <- MCConfigs
    Slots = {1}
    MaxChunks = 3
    CanFail = TRUE
SPECIFICATION Spec
INVARIANT TypeOK
INVARIANT StalledReaderHasNothingBuffered
INVARIANT ClosedWriterSentEverything
PROPERTY ShutdownStopsHandler
PROPERTY ReadChunkEventuallySent
PROPERTY CloseOnlyAfterCleanEof
