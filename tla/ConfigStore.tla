---------------------------- MODULE ConfigStore ----------------------------
(***************************************************************************)
(* quartermaster.toml and its copy in memory (src/src/config.rs and        *)
(* src/src/web/state.rs).  A settings handler takes config_lock, loads the *)
(* file, edits its section, writes the whole file back and loads it again  *)
(* into memory.  The removal of a mod strips the mod from its group in the *)
(* file too, without the lock (src/src/ops.rs).  Writing is fs::write: the *)
(* file is empty before it is whole again, and an empty file parses as the *)
(* defaults.                                                               *)
(***************************************************************************)
EXTENDS Naturals, FiniteSets

CONSTANTS
  Sections,   \* the settings forms, each with its fields
  Values,     \* what a form may set
  Initial,    \* the default value of every section
  GroupMods,  \* mods that may be members of a sync group
  Savers,     \* worker threads that serve a settings form
  Remover,    \* the thread that removes a mod (they share the database lock)
  EnvOf,      \* section -> value that a QUMA_ variable forces, or Unset
  Unset       \* not a value: no variable, no copy, no thread

Configs == [sections : [Sections -> Values], members : SUBSET GroupMods]

ASSUME ConfigAssumption ==
  /\ Initial \in Values
  /\ EnvOf \in [Sections -> Values \cup {Unset}]
  /\ Remover \notin Savers
  /\ Unset \notin Values /\ Unset \notin Sections /\ Unset \notin Configs
  /\ Unset \notin Savers \cup {Remover}

VARIABLES
  cfgFile,     \* the file: a configuration, or Unset while it is empty
  cfgMemory,   \* AppState::config
  cfgAt,       \* thread -> where it is in its change
  cfgCopy,     \* thread -> the configuration it loaded and the section it edits
  cfgSaved,    \* section -> the value that was last written for it
  cfgBlemished \* a removal met a save, or a write was cut short

configVars == <<cfgFile, cfgMemory, cfgAt, cfgCopy, cfgSaved, cfgBlemished>>

Threads == Savers \cup {Remover}
Copies == [config : Configs, part : Sections \cup {Unset}]
Defaults == [sections |-> [s \in Sections |-> Initial], members |-> {}]

\* Config::load: every field has a default, so an empty file is a valid one.
Load == IF cfgFile = Unset THEN Defaults ELSE cfgFile

\* load_with_env: a QUMA_ variable wins over the file.
WithEnv(c) ==
  [c EXCEPT !.sections = [s \in Sections |-> IF EnvOf[s] = Unset THEN @[s] ELSE EnvOf[s]]]

ConfigInit ==
  /\ cfgFile = WithEnv(Defaults) /\ cfgMemory = WithEnv(Defaults)
  /\ cfgAt = [t \in Threads |-> "idle"]
  /\ cfgCopy = [t \in Threads |-> Unset]
  /\ cfgSaved = WithEnv(Defaults).sections
  /\ cfgBlemished = FALSE

Free == \A h \in Savers : cfgAt[h] = "idle"
Meeting == cfgAt[Remover] # "idle" /\ ~Free

Goes(t, at) ==
  /\ cfgAt' = [cfgAt EXCEPT ![t] = at]
  /\ cfgBlemished' = (cfgBlemished \/ Meeting')

\* The handler takes config_lock and loads the file.
Unlocked(h) == cfgAt[h] = "idle"  \* mutant: the file is loaded before the lock
LockFree(h) == Free
SaverLoads(h) ==
  /\ LockFree(h)
  /\ cfgCopy' = [cfgCopy EXCEPT ![h] = [config |-> Load, part |-> Unset]]
  /\ Goes(h, "loaded")
  /\ UNCHANGED <<cfgFile, cfgMemory, cfgSaved>>

\* The five settings forms and the form of the sync groups: each edits its own part.
SaverEdits(h) ==
  /\ cfgAt[h] = "loaded"
  /\ \/ \E s \in Sections, v \in Values :
          cfgCopy' = [cfgCopy EXCEPT ![h].config.sections[s] = v, ![h].part = s]
     \/ \E m \in GroupMods :
          cfgCopy' = [cfgCopy EXCEPT ![h].config.members = @ \cup {m}]
  /\ Goes(h, "edited")
  /\ UNCHANGED <<cfgFile, cfgMemory, cfgSaved>>

\* Config::save: fs::write truncates the file ...
Truncates(t) ==
  /\ cfgAt[t] = "edited"
  /\ cfgFile' = Unset
  /\ Goes(t, "writing")
  /\ UNCHANGED <<cfgMemory, cfgCopy, cfgSaved>>

\* ... and fills it, or fails; the handler then returns its error.
SaverWrites(h) ==
  /\ cfgAt[h] = "writing"
  /\ cfgFile' = cfgCopy[h].config
  /\ cfgSaved' = [s \in Sections |->
       IF s = cfgCopy[h].part THEN cfgCopy[h].config.sections[s] ELSE cfgSaved[s]]
  /\ Goes(h, "written")
  /\ UNCHANGED <<cfgMemory, cfgCopy>>
WriteFails(t) ==
  /\ cfgAt[t] = "writing"
  /\ cfgCopy' = [cfgCopy EXCEPT ![t] = Unset]
  /\ cfgAt' = [cfgAt EXCEPT ![t] = "idle"]
  /\ cfgBlemished' = TRUE
  /\ UNCHANGED <<cfgFile, cfgMemory, cfgSaved>>

\* update_config_from_disk, still under the lock.
Reload(h) == cfgMemory' = WithEnv(Load)
SaverReloads(h) ==
  /\ cfgAt[h] = "written"
  /\ Reload(h)
  /\ cfgCopy' = [cfgCopy EXCEPT ![h] = Unset]
  /\ Goes(h, "idle")
  /\ UNCHANGED <<cfgFile, cfgSaved>>

\* remove_mod_by_id loads the file without the lock; when the mod is in no group
\* there is nothing to save.
RemoverLoads ==
  /\ cfgAt[Remover] = "idle"
  /\ \E m \in Load.members :
       cfgCopy' = [cfgCopy EXCEPT ![Remover] =
                    [config |-> [Load EXCEPT !.members = @ \ {m}], part |-> Unset]]
  /\ Goes(Remover, "edited")
  /\ UNCHANGED <<cfgFile, cfgMemory, cfgSaved>>

RemoverWrites ==
  /\ cfgAt[Remover] = "writing"
  /\ cfgFile' = cfgCopy[Remover].config
  /\ cfgCopy' = [cfgCopy EXCEPT ![Remover] = Unset]
  /\ Goes(Remover, "idle")
  /\ UNCHANGED <<cfgMemory, cfgSaved>>

\* The dashboard is killed and started again: quma serve loads the file, applies
\* the variables and saves the result.
ConfigRestart ==
  /\ cfgAt' = [t \in Threads |-> "idle"]
  /\ cfgCopy' = [t \in Threads |-> Unset]
  /\ cfgBlemished' = (cfgBlemished \/ cfgFile = Unset)
  /\ cfgFile' = WithEnv(Load) /\ cfgMemory' = WithEnv(Load)
  /\ cfgSaved' = [s \in Sections |-> IF EnvOf[s] = Unset THEN cfgSaved[s] ELSE EnvOf[s]]

ConfigNext ==
  \/ \E h \in Savers : SaverLoads(h) \/ SaverEdits(h) \/ SaverWrites(h) \/ SaverReloads(h)
  \/ \E t \in Threads : Truncates(t) \/ WriteFails(t)
  \/ RemoverLoads \/ RemoverWrites
  \/ ConfigRestart

ConfigSpec == ConfigInit /\ [][ConfigNext]_configVars

------------------------------------------------------------------------------
ConfigTypeOK ==
  /\ cfgFile \in Configs \cup {Unset} /\ cfgMemory \in Configs
  /\ cfgAt \in [Threads -> {"idle", "loaded", "edited", "writing", "written"}]
  /\ cfgCopy \in [Threads -> Copies \cup {Unset}]
  /\ cfgSaved \in [Sections -> Values] /\ cfgBlemished \in BOOLEAN

\* A setting that a form wrote is in the file until the same form sets it anew (or
\* a variable at the next start), whatever other forms, removals and restarts do in
\* between: only a removal that overlaps a save, or a write cut short, loses it.
SavedStays ==
  ~cfgBlemished /\ cfgFile # Unset => cfgFile.sections = cfgSaved
=============================================================================
