--------------------------- MODULE MCWatchedStore ---------------------------
(* The watched store, with the instances of MCModStore.                     *)
EXTENDS MCModStore, WatchedStore

\* The hypotheses of the theorems about this run's properties hold in its instance.
ASSUME InstanceIsHale == Hale
=============================================================================
