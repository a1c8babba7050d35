---------------------------- MODULE WatchedStore ----------------------------
(* The store with a flag that remembers whether anything went wrong yet, so *)
(* that one run, or one invariant, speaks of calm behaviours and another    *)
(* one of recovery.                                                         *)
EXTENDS ModStore

VARIABLE calm  \* no crash and no swap that ended with an error so far

WatchedInit == Init /\ calm = TRUE
WatchedNext ==
  /\ Next
  /\ calm' = (calm /\ status' = "up" /\ ~\E j \in Jobs : SwapFails(j))
WatchedSpec == WatchedInit /\ [][WatchedNext]_<<vars, calm>>

\* Installs, asynchronous updates, removals and toggles in any interleaving leave
\* on disk what the rows record, at the right root, and nothing else, as long as
\* the process is not killed and no swap ends with an error.
CalmDiskIsCatalogue == calm => DiskIsCatalogue
=============================================================================
