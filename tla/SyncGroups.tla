----------------------------- MODULE SyncGroups -----------------------------
(***************************************************************************)
(* The sync groups in quartermaster.toml: what Config::load makes of old   *)
(* files (src/src/config.rs) and what the forms of the dashboard and the   *)
(* removal of a mod make of the result (src/src/web/handlers/modsync.rs,   *)
(* src/src/ops.rs).  Settings per mod are deprecated: loading turns each   *)
(* into a group of its own.  Of the four flags of a group the model keeps  *)
(* one that falls back to the global setting, and exclude_headless.        *)
(***************************************************************************)
EXTENDS Naturals, Sequences, FiniteSets

CONSTANTS
  SyncMods,    \* Forge mods
  UserSlugs,   \* slugs of groups that users make
  SplitSlug,   \* mod -> "override-<id>", the slug that the migration gives it
  NoHeadless,  \* the predefined group
  Catchall,    \* "default", reserved
  SlugOrder,   \* all slugs, as the map orders them
  Inherit      \* a flag that is not set; no override

Slugs == {SlugOrder[n] : n \in DOMAIN SlugOrder}
SplitSlugs == {SplitSlug[m] : m \in SyncMods}

ASSUME GroupsAssumption ==
  /\ SplitSlug \in [SyncMods -> Slugs]
  /\ \A m, n \in SyncMods : SplitSlug[m] = SplitSlug[n] => m = n
  /\ NoHeadless \in Slugs /\ Catchall \in Slugs \ {NoHeadless}
  /\ UserSlugs \cup SplitSlugs \subseteq Slugs \ {NoHeadless, Catchall}
  /\ SlugOrder \in Seq(Slugs)
  /\ \A j, k \in DOMAIN SlugOrder : SlugOrder[j] = SlugOrder[k] => j = k
  /\ IsFiniteSet(SyncMods) /\ Inherit \notin Slugs \cup {"on", "off", "none"}

VARIABLES
  syncFile,   \* the modsync section of the file
  clientMods  \* the installed mods with client files

groupVars == <<syncFile, clientMods>>

Settings == {"on", "off"}
Flags == Settings \cup {Inherit}
SyncGroup == [members : SUBSET SyncMods, flag : Flags, headless : BOOLEAN]
  \* headless: the group is for headless clients too

HasOverride(c) == {m \in SyncMods : c.overrides[m] # "none"}
GroupOf(c, m) == {s \in DOMAIN c.groups : m \in c.groups[s].members}
SetGroup(groups, s, g) == [t \in DOMAIN groups \cup {s} |-> IF t = s THEN g ELSE groups[t]]
DropGroups(groups, S) == [t \in DOMAIN groups \ S |-> groups[t]]

------------------------------------------------------------------------------
(* Config::load                                                            *)

\* migrate_overrides_to_groups, one mod at a time; `was` are the groups before.
Overlaid(flag, override) == IF override = Inherit THEN flag ELSE override
Fresh(m, flag, headless) == [members |-> {m}, flag |-> flag, headless |-> headless]

\* Alone in its group: the override goes into the group.
Merged(groups, s, override) == [groups EXCEPT ![s].flag = Overlaid(@, override)]
\* Not alone: the mod leaves with the settings of the group under its own.
MergedWithOthers(groups, s, m, override) == Merged(groups, s, override)  \* mutant
SplitOut(groups, s, m, override) ==
  SetGroup([groups EXCEPT ![s].members = @ \ {m}], SplitSlug[m],
       Fresh(m, Overlaid(groups[s].flag, override), groups[s].headless))
Migrate(groups, was, m, override) ==
  IF was = {} THEN SetGroup(groups, SplitSlug[m], Fresh(m, override, TRUE))
  ELSE LET s == CHOOSE t \in was : TRUE IN
       IF Cardinality(groups[s].members) = 1 THEN Merged(groups, s, override)
       ELSE SplitOut(groups, s, m, override)

\* The overrides in the order of their keys, here that of the split slugs.
MigratedGroups(c) ==
  LET upTo[n \in 0..Len(SlugOrder)] ==
        IF n = 0 THEN c.groups
        ELSE IF \E m \in HasOverride(c) : SplitSlug[m] = SlugOrder[n]
        THEN LET m == CHOOSE k \in HasOverride(c) : SplitSlug[k] = SlugOrder[n]
             IN Migrate(upTo[n - 1], GroupOf(c, m), m, c.overrides[m])
        ELSE upTo[n - 1]
  IN upTo[Len(SlugOrder)]

\* ensure_predefined_groups
Predefined(groups) ==
  IF NoHeadless \in DOMAIN groups THEN [groups EXCEPT ![NoHeadless].headless = FALSE]
  ELSE SetGroup(groups, NoHeadless, [members |-> {}, flag |-> Inherit, headless |-> FALSE])

NoOverrides == [m \in SyncMods |-> "none"]
Migrated(c) == [c EXCEPT
  !.overrides = NoOverrides,
  !.groups = Predefined(DropGroups(MigratedGroups(c), {Catchall}))]

------------------------------------------------------------------------------
\* Files of older versions: a mod in one group at most, overrides for some.
OldFile(flag, overrides, in, flags) ==
  [flag |-> flag, overrides |-> overrides,
   groups |-> [s \in {in[m] : m \in SyncMods} \ {Inherit} |->
     [members |-> {m \in SyncMods : in[m] = s}, flag |-> flags[s], headless |-> s # NoHeadless]]]
GroupsInit ==
  /\ clientMods = SyncMods
  /\ \E flag \in Settings, overrides \in [SyncMods -> Flags \cup {"none"}],
        in \in [SyncMods -> Slugs \cup {Inherit}], flags \in [Slugs -> {"off", Inherit}] :
       syncFile = OldFile(flag, overrides, in, flags)

LoadFile == syncFile' = Migrated(syncFile) /\ UNCHANGED clientMods

\* save_settings: the global flags; the groups stay.
SaveGlobal(flag) ==
  /\ syncFile' = [Migrated(syncFile) EXCEPT !.flag = flag]
  /\ UNCHANGED clientMods

\* save_groups: a mod stays in the first of the groups that list it.
FirstKeeps(form) ==
  [s \in DOMAIN form |-> [form[s] EXCEPT !.members = {m \in @ :
     \A n, k \in DOMAIN SlugOrder :
       SlugOrder[k] = s /\ n < k /\ SlugOrder[n] \in DOMAIN form => m \notin form[SlugOrder[n]].members}]]
InstalledOnly(form) == [s \in DOMAIN form |-> [form[s] EXCEPT !.members = @ \cap clientMods]]
SaveGroupForm(form) ==
  /\ syncFile' = [Migrated(syncFile) EXCEPT !.groups = Predefined(FirstKeeps(InstalledOnly(form)))]
  /\ UNCHANGED clientMods

\* The page submits the predefined group always, the others as the user made them.
Forms == {SetGroup(f, NoHeadless, [members |-> nh, flag |-> Inherit, headless |-> FALSE]) :
  nh \in SUBSET SyncMods,
  f \in UNION {[S -> [members : SUBSET SyncMods, flag : {"off", Inherit}, headless : {TRUE}]] :
               S \in SUBSET UserSlugs}}

\* remove_mod_by_id takes the mod out of its group; it may be installed again.
RemoveFromGroups(m) ==
  /\ m \in clientMods
  /\ clientMods' = clientMods \ {m}
  /\ syncFile' = LET c == Migrated(syncFile) IN
       [c EXCEPT !.groups = [s \in DOMAIN c.groups |-> [c.groups[s] EXCEPT !.members = @ \ {m}]]]
InstallClient(m) ==
  /\ m \notin clientMods /\ clientMods' = clientMods \cup {m}
  /\ UNCHANGED syncFile

GroupsNext ==
  \/ LoadFile
  \/ \E flag \in Settings : SaveGlobal(flag)
  \/ \E form \in Forms : SaveGroupForm(form)
  \/ \E m \in SyncMods : RemoveFromGroups(m) \/ InstallClient(m)

GroupsSpec == GroupsInit /\ [][GroupsNext]_groupVars

------------------------------------------------------------------------------
GroupsTypeOK ==
  /\ syncFile.flag \in Settings
  /\ syncFile.overrides \in [SyncMods -> Flags \cup {"none"}]
  /\ DOMAIN syncFile.groups \subseteq Slugs
  /\ \A s \in DOMAIN syncFile.groups : syncFile.groups[s] \in SyncGroup
  /\ clientMods \subseteq SyncMods

\* What the clients are told about a mod: its override before its group's flag before
\* the global one, and whether headless clients get it.
Effective(c, m) ==
  LET g == IF GroupOf(c, m) = {} THEN [flag |-> Inherit, headless |-> TRUE]
           ELSE LET s == CHOOSE t \in GroupOf(c, m) : TRUE
                IN [flag |-> c.groups[s].flag, headless |-> c.groups[s].headless]
      own == IF c.overrides[m] = "none" THEN Inherit ELSE c.overrides[m]
  IN [flag |-> Overlaid(c.flag, Overlaid(g.flag, own)), headless |-> g.headless]

\* Loading an old file changes no mod's settings, however overrides and groups met
\* in it: unless the group under the name override-<id> held somebody else already,
\* or the mod was in the reserved group, which goes with its settings.
MigrationKeepsSettings ==
  (\A m \in HasOverride(syncFile) : SplitSlug[m] \in DOMAIN syncFile.groups =>
      syncFile.groups[SplitSlug[m]].members \subseteq {m}) =>
    \A m \in SyncMods : Catchall \notin GroupOf(syncFile, m) =>
      Effective(Migrated(syncFile), m) = Effective(syncFile, m)
=============================================================================
