\* All failure paths enabled, two fetcher failures.  A fetcher failure can
\* block the pipeline for ever (see MCRestorePipeline_termination.cfg), so
\* such states are not reported as deadlocks here.
CONSTANTS
    NumSnaps <- MCNumSnaps
    MaxFetchers <- MCMaxFetchers
    LeanInterval <- MCLeanInterval
    MaxFetcherFaults <- MCTwoFaults
SPECIFICATION Spec
INVARIANT TypeOK
INVARIANT AppliedInOrder
INVARIANT SuccessImpliesComplete
 
INVARIANT CleanupRemovesFiles
INVARIANT NoSendOnClosedSnapLocs
CHECK_DEADLOCK FALSE
