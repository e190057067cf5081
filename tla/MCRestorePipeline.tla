-------------------------- MODULE MCRestorePipeline --------------------------
(* RestorePipeline on small instances: three remaining deltas, two        *)
(* fetchers, a lean attempt every second delta, and 0, 1 or 2 injected     *)
(* fetcher failures depending on the run.                                  *)
EXTENDS RestorePipeline

MCNumSnaps == 3
MCMaxFetchers == 2
MCLeanInterval == 2
MCNoFaults == 0
MCOneFault == 1
MCTwoFaults == 2
=============================================================================
