------------------------------ MODULE MCAddons ------------------------------
(* Two mods, the first with an addon: small enough for TLC.                 *)
EXTENDS AddonChanges

MCHostOf == [a \in ForgeAddons |-> "p1"]
=============================================================================
