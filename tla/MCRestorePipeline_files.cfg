\* One fetcher failure: a failed Fetch followed by persisting a nil reader.
CONSTANTS
    NumSnaps <- MCNumSnaps
    MaxFetchers <- MCMaxFetchers
    LeanInterval <- MCLeanInterval
    MaxFetcherFaults <- MCOneFault
SPECIFICATION Spec
INVARIANT NoFilesLeftAtEnd
CHECK_DEADLOCK FALSE
