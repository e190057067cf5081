\* No fetcher failure; applier, lean, alarm and defrag failures enabled.
CONSTANTS
    NumSnaps <- MCNumSnaps
    MaxFetchers <- MCMaxFetchers
    LeanInterval <- MCLeanInterval
    MaxFetcherFaults <- MCNoFaults
SPECIFICATION Spec
PROPERTY Termination
