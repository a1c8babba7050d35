---------------------------- MODULE ModCatalogue ----------------------------
(***************************************************************************)
(* What the catalogue of Quartermaster promises, whatever fails underneath *)
(* it: it always names one whole version of every installed item, no two   *)
(* items own the same path, an addon is installed only with its mod, and   *)
(* each change of it is one of the four operations of an operator, all at  *)
(* once or not at all.  (The removal of a mod may stop after some of its   *)
(* addons, each of which is then gone as a whole.)                         *)
(*                                                                         *)
(* ModStore implements it: its jobs, markers, crashes and recoveries are   *)
(* stuttering steps here until the moment they replace the rows.           *)
(***************************************************************************)
CONSTANTS Mods, Addons, ParentOf, Versions,
          Manifest,   \* Manifest[i][v]: the paths version v of item i owns
          None

VARIABLE entry        \* what is installed: a version, and whether it is disabled

Items == Mods \cup Addons

Owns(i) == IF entry[i] = None THEN {} ELSE Manifest[i][entry[i].ver]

\* No other installed item owns a path of version v of i.
Admissible(i, v) == \A k \in Items \ {i} : Owns(k) \cap Manifest[i][v] = {}

Init == entry = [i \in Items |-> None]

Install(i, v) ==
  /\ entry[i] = None
  /\ i \in Addons => entry[ParentOf[i]] # None
  /\ Admissible(i, v)
  /\ entry' = [entry EXCEPT ![i] = [ver |-> v, disabled |-> FALSE]]

Update(i, v) ==
  /\ entry[i] # None
  /\ Admissible(i, v)
  /\ entry' = [entry EXCEPT ![i] = [ver |-> v, disabled |-> entry[i].disabled]]

\* A set of addons, or a mod with all its addons.
Remove(items) ==
  /\ \A a \in Addons : entry[a] # None /\ ParentOf[a] \in items => a \in items
  /\ entry' = [i \in Items |-> IF i \in items THEN None ELSE entry[i]]

Toggle(i) ==
  /\ entry[i] # None
  /\ entry' = [entry EXCEPT ![i] = [ver |-> entry[i].ver, disabled |-> ~entry[i].disabled]]

Next ==
  \/ \E i \in Items, v \in Versions : Install(i, v) \/ Update(i, v)
  \/ \E items \in SUBSET Items : Remove(items)
  \/ \E i \in Items : Toggle(i)

Spec == Init /\ [][Next]_entry

\* Two installed items never own the same path.
OneOwner == \A i, k \in Items : i # k => Owns(i) \cap Owns(k) = {}
=============================================================================
