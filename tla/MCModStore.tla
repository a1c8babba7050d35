----------------------------- MODULE MCModStore -----------------------------
(* Instances of ModStore small enough for TLC.  Two versions of every item; *)
(* the second drops a file, keeps one and adds one.                         *)
EXTENDS ModStore, TLC

CONSTANTS modA, modB, addA, dirA, dirB, dirS, j1, j2

MCVersions == {1, 2}

\* One mod with two directories' worth of cases: a file that changes (a), one that
\* only version 1 has (b), one only version 2 has (c), and a loose file (l).
MCParentOf == [a \in Addons |-> modA]

SoloPaths == {"a", "b", "c", "l"}
SoloDirOf == [p \in SoloPaths |-> IF p = "l" THEN None ELSE dirA]
SoloArchive ==
  [i \in Items |-> [v \in MCVersions |->
     IF v = 1 THEN [p \in {"a", "b", "l"} |-> IF p = "l" THEN "h" ELSE "v1"]
     ELSE [p \in {"a", "c", "l"} |-> IF p = "l" THEN "h" ELSE "v2"]]]
SoloUnder == [d \in Dirs |-> {"a", "b", "c"}]

\* Two items, each with a directory of its own.
PairPaths == {"a1", "a2", "b1", "b2"}
PairOwn(i) == IF i = modA THEN {"a1", "a2"} ELSE {"b1", "b2"}
PairArchive ==
  [i \in Items |-> [v \in MCVersions |->
     IF v = 1 THEN [p \in PairOwn(i) |-> "v1"]
     ELSE [p \in PairOwn(i) \ {"a1", "b1"} |-> "v2"]]]
ApartDirOf == [p \in PairPaths |-> IF p \in {"a1", "a2"} THEN dirA ELSE dirB]
\* The same two items in one directory.
SharedDirOf == [p \in PairPaths |-> dirS]
DirUnder(dirOf) == [d \in Dirs |-> {p \in PairPaths : dirOf[p] = d}]
ApartUnder == DirUnder(ApartDirOf)
SharedUnder == DirUnder(SharedDirOf)

\* A mod and its addon (or a second mod) that disagree about a path: version 2 of
\* the other item brings a file that version 1 of the mod has and version 2 drops.
ClashPaths == {"a", "b", "c"}
ClashArchive ==
  [i \in Items |-> [v \in MCVersions |->
     IF i = modA
     THEN [p \in IF v = 1 THEN {"a", "c"} ELSE {"a"} |-> IF v = 1 THEN "v1" ELSE "v2"]
     ELSE [p \in IF v = 1 THEN {"b"} ELSE {"b", "c"} |-> IF v = 1 THEN "v1" ELSE "v2"]]]
ClashDirOf == [p \in ClashPaths |-> dirS]
ClashUnder == [d \in Dirs |-> ClashPaths]

\* The hypothesis of the theorem about store_shared's property holds there.
ASSUME PairsAreApart == Archive = PairArchive => ArchivesApart

MCHashes == {"v1", "v2", "h"}

JobSymmetry == Permutations(Jobs)
=============================================================================
