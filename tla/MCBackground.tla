---------------------------- MODULE MCBackground ----------------------------
(* What the dashboard does in the background, side by side: the components  *)
(* share no state, so a behaviour is one of a component, picked at the      *)
(* start, with the others at rest.                                          *)
EXTENDS TLC, TaskTracker, Raids, IntegrityChecks, UpdateNews, SyncLayout, UrlQueue

VARIABLE part  \* the component that runs

\* Nothing tells the URLs apart.
UrlSymmetry == Permutations(Urls)

MCIds == {0, 1, 2}

MCNameOf == [u \in Urls |-> "n"]

\* Two mods, an addon of the first; all in one folder, or the addon in its own.
MCModOrder == <<"m1", "m2">>
MCParentMod == [a \in Extras |-> "m1"]
MCFolderMaps == {[i \in Parts |-> "f1"], [i \in Parts |-> IF i = "a1" THEN "f2" ELSE "f1"]}

BackgroundInit ==
  /\ part \in {"tasks", "raids", "integrity", "news", "layout", "urls"}
  /\ Init /\ RaidsInit /\ IntegrityInit /\ NewsInit /\ UrlInit
  /\ LayoutInit /\ (part # "layout" => folderOf["a1"] = "f1")

BackgroundNext ==
  /\ UNCHANGED part
  /\ \/ /\ part = "tasks"
        /\ UNCHANGED <<raidVars, integrityVars, newsVars, layoutVars, urlVars>>
        /\ Next
     \/ /\ part = "raids"
        /\ UNCHANGED <<vars, integrityVars, newsVars, layoutVars, urlVars>>
        /\ RaidsNext
     \/ /\ part = "integrity"
        /\ UNCHANGED <<vars, raidVars, newsVars, layoutVars, urlVars>>
        /\ IntegrityNext
     \/ /\ part = "news"
        /\ UNCHANGED <<vars, raidVars, integrityVars, layoutVars, urlVars>>
        /\ NewsNext
     \/ /\ part = "layout"
        /\ UNCHANGED <<vars, raidVars, integrityVars, newsVars, urlVars>>
        /\ LayoutNext
     \/ /\ part = "urls"
        /\ UNCHANGED <<vars, raidVars, integrityVars, newsVars, layoutVars>>
        /\ UrlNext

BackgroundSpec ==
  BackgroundInit /\ [][BackgroundNext]_<<part, vars, raidVars, integrityVars, newsVars, layoutVars, urlVars>>

\* The type invariant of the component that runs: the others are at rest.
BackgroundTypeOK ==
  CASE part = "tasks" -> TypeOK
    [] part = "raids" -> RaidsTypeOK
    [] part = "integrity" -> IntegrityTypeOK
    [] part = "news" -> NewsTypeOK
    [] part = "layout" -> LayoutTypeOK
    [] part = "urls" -> UrlTypeOK

\* Neither of the two caches of the mods page shows what an operation, once heard of,
\* has made untrue: not the integrity report, not the list of updates.
CachesAreTrue == FreshIsTrue /\ CachedForInstalled
=============================================================================
