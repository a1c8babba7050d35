------------------------------ MODULE MCRecords ------------------------------
(* What the dashboard keeps on record, side by side: the components share   *)
(* no state, so a behaviour is one of a component, picked at the start,     *)
(* with the others at rest.                                                 *)
EXTENDS Accounts, ConfigStore, ModConfigs, Backups, SyncGroups, MCDeps, MCAddons, MCLogs,
        GameServer, MCFolder, Notes, RequestBoard, PlayerPages, SvmForms

VARIABLE part  \* the component that runs

MCEnvOf == [s \in Sections |-> IF s = "web" THEN 1 ELSE Unset]
MCParentOf == [a \in Addons |-> CHOOSE m \in Mods : TRUE]
MCSplitSlug == [m \in SyncMods |-> IF m = "m1" THEN "override-m1" ELSE "override-m2"]
MCSlugOrder == <<"default", "group", "no-headless", "override-m1", "override-m2">>

StashItem(n) == <<n, "item">>
MCStashItems == {StashItem(n) : n \in {"i1", "i2", "i3"}}
MCKinds == {[i \in StashItems |-> IF i = StashItem("i3") THEN "t2" ELSE "t1"]}
MCCountOf == [i \in StashItems |-> IF i = StashItem("i2") THEN 2 ELSE 1]
MCPriceList == [t \in {"t1"} |-> 5]
MCHandbook == [t \in {"t1", "t2"} |-> [parent |-> IF t = "t1" THEN "c1" ELSE "c2", price |-> 3]]
MCLocale == [c \in {"c1"} |-> "Guns"]

\* The other components start from a file without groups.
NoGroups == OldFile("on", NoOverrides, [m \in SyncMods |-> Inherit], [s \in Slugs |-> Inherit])

RecordsInit ==
  /\ part \in {"accounts", "config", "editor", "backups", "groups", "deps", "addons", "logs",
              "server", "folder", "notes", "board", "players", "forms"}
  /\ AccountsInit /\ ConfigInit /\ EditInit /\ BackupsInit
  /\ DepsInit /\ (part # "deps" => forge = CHOOSE f \in Forges : TRUE)
  /\ AddonsInit /\ ServerInit
  /\ LogsInit /\ (part # "logs" => logConf = CHOOSE c \in LogConfs : TRUE)
  /\ FolderInit /\ (part # "folder" => from = [m \in Owners |-> NoMod])
  /\ NotesInit /\ BoardInit
  /\ PlayersInit
  /\ part # "players" =>
       tables /\ linkOf = CHOOSE l \in [Players -> {"none", NoOne}] : "none" \in {l[u] : u \in Players}
  /\ (part # "forms" => focus = CHOOSE x \in AllSettings : TRUE) /\ FormsInit
  /\ IF part = "groups" THEN GroupsInit ELSE syncFile = NoGroups /\ clientMods = SyncMods

RecordsNext ==
  /\ UNCHANGED part
  /\ \/ /\ part = "accounts"
        /\ UNCHANGED <<configVars, editVars, backupVars, groupVars, depVars, addonVars,
                       logVars, serverVars, folderVars, noteVars, boardVars, playerVars,
                       formVars>>
        /\ AccountsNext
     \/ /\ part = "config"
        /\ UNCHANGED <<accountVars, editVars, backupVars, groupVars, depVars, addonVars,
                       logVars, serverVars, folderVars, noteVars, boardVars, playerVars,
                       formVars>>
        /\ ConfigNext
     \/ /\ part = "editor"
        /\ UNCHANGED <<accountVars, configVars, backupVars, groupVars, depVars, addonVars,
                       logVars, serverVars, folderVars, noteVars, boardVars, playerVars,
                       formVars>>
        /\ EditNext
     \/ /\ part = "backups"
        /\ UNCHANGED <<accountVars, configVars, editVars, groupVars, depVars, addonVars,
                       logVars, serverVars, folderVars, noteVars, boardVars, playerVars,
                       formVars>>
        /\ BackupsNext
     \/ /\ part = "groups"
        /\ UNCHANGED <<accountVars, configVars, editVars, backupVars, depVars, addonVars,
                       logVars, serverVars, folderVars, noteVars, boardVars, playerVars,
                       formVars>>
        /\ GroupsNext
     \/ /\ part = "deps"
        /\ UNCHANGED <<accountVars, configVars, editVars, backupVars, groupVars, addonVars,
                       logVars, serverVars, folderVars, noteVars, boardVars, playerVars,
                       formVars>>
        /\ DepsNext
     \/ /\ part = "addons"
        /\ UNCHANGED <<accountVars, configVars, editVars, backupVars, groupVars, depVars,
                       logVars, serverVars, folderVars, noteVars, boardVars, playerVars,
                       formVars>>
        /\ AddonsNext
     \/ /\ part = "logs"
        /\ UNCHANGED <<accountVars, configVars, editVars, backupVars, groupVars, depVars,
                       addonVars, serverVars, folderVars, noteVars, boardVars, playerVars,
                       formVars>>
        /\ LogsNext
     \/ /\ part = "server"
        /\ UNCHANGED <<accountVars, configVars, editVars, backupVars, groupVars, depVars,
                       addonVars, logVars, folderVars, noteVars, boardVars, playerVars,
                       formVars>>
        /\ ServerNext
     \/ /\ part = "folder"
        /\ UNCHANGED <<accountVars, configVars, editVars, backupVars, groupVars, depVars,
                       addonVars, logVars, serverVars, noteVars, boardVars, playerVars,
                       formVars>>
        /\ FolderNext
     \/ /\ part = "notes"
        /\ UNCHANGED <<accountVars, configVars, editVars, backupVars, groupVars, depVars,
                       addonVars, logVars, serverVars, folderVars, boardVars, playerVars,
                       formVars>>
        /\ NotesNext
     \/ /\ part = "board"
        /\ UNCHANGED <<accountVars, configVars, editVars, backupVars, groupVars, depVars,
                       addonVars, logVars, serverVars, folderVars, noteVars, playerVars,
                       formVars>>
        /\ BoardNext
     \/ /\ part = "players"
        /\ UNCHANGED <<accountVars, configVars, editVars, backupVars, groupVars, depVars,
                       addonVars, logVars, serverVars, folderVars, noteVars, boardVars,
                       formVars>>
        /\ PlayersNext
     \/ /\ part = "forms"
        /\ UNCHANGED <<accountVars, configVars, editVars, backupVars, groupVars, depVars,
                       addonVars, logVars, serverVars, folderVars, noteVars, boardVars,
                       playerVars>>
        /\ FormsNext

RecordsSpec ==
  RecordsInit
  /\ [][RecordsNext]_<<part, accountVars, configVars, editVars, backupVars, groupVars,
                       depVars, addonVars, logVars, serverVars, folderVars, noteVars,
                       boardVars, playerVars, formVars>>

\* The type invariant of the component that runs: the others are at rest.
RecordsTypeOK ==
  CASE part = "accounts" -> AccountsTypeOK
    [] part = "config" -> ConfigTypeOK
    [] part = "editor" -> EditTypeOK
    [] part = "backups" -> BackupsTypeOK
    [] part = "groups" -> GroupsTypeOK
    [] part = "deps" -> DepsTypeOK
    [] part = "addons" -> AddonsTypeOK
    [] part = "logs" -> LogsTypeOK
    [] part = "server" -> ServerTypeOK
    [] part = "folder" -> FolderTypeOK
    [] part = "notes" -> NotesTypeOK
    [] part = "board" -> BoardTypeOK
    [] part = "players" -> PlayersTypeOK
    [] part = "forms" -> FormsTypeOK
==============================================================================
