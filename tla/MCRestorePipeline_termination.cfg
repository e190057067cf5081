\* One fetcher failure suffices to block cleanup for ever.
CONSTANTS
    NumSnaps <- MCNumSnaps
    MaxFetchers <- MCMaxFetchers
    LeanInterval <- MCLeanInterval
    MaxFetcherFaults <- MCOneFault
SPECIFICATION Spec
PROPERTY Termination
CHECK_DEADLOCK FALSE
