----------------------------- MODULE MCBackups -----------------------------
(* Backups alone: whether every backup that is listed can be restored.      *)
EXTENDS Backups

MCParentOf == [a \in Addons |-> CHOOSE m \in Mods : TRUE]
=============================================================================
