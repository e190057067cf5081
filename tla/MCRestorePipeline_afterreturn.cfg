CONSTANTS
    NumSnaps <- MCNumSnaps
    MaxFetchers <- MCMaxFetchers
    LeanInterval <- MCLeanInterval
    MaxFetcherFaults <- MCOneFault
SPECIFICATION Spec
PROPERTY NoApplyAfterReturn
CHECK_DEADLOCK FALSE
