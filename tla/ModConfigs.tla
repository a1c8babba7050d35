----------------------------- MODULE ModConfigs -----------------------------
(***************************************************************************)
(* The editor of a mod's configuration file and its history: save_config   *)
(* and restore_config of src/src/config_mgmt/mod.rs over the git           *)
(* repository of src/src/config_mgmt/git.rs.  No lock is held: two editors *)
(* of one file interleave between the replacement of the file and the      *)
(* three steps of a snapshot (write into the work tree, git add, git       *)
(* commit), each of which may fail.  Files do not share state except the   *)
(* repository, so the model has one file.                                  *)
(***************************************************************************)
EXTENDS Naturals, Sequences, SequencesExt

CONSTANTS
  Contents,  \* what a file may hold
  Original,  \* what the mod came with
  Editors,   \* requests that save or restore
  MaxRevs,   \* bound on the length of the history
  Blank      \* nothing: no copy, no tracked content

ASSUME ModConfigsAssumption ==
  Original \in Contents /\ Blank \notin Contents /\ MaxRevs \in Nat

VARIABLES
  editDisk,   \* the file under SPT/user/mods
  editTree,   \* its copy in the work tree of the repository
  editStage,  \* its copy in the index
  history,    \* the committed versions, the newest last
  editAt,     \* editor -> step
  editJob,    \* editor -> [content, before]: to be saved, and found
  editTouched \* the editor has replaced the file at least once

editVars == <<editDisk, editTree, editStage, history, editAt, editJob, editTouched>>

EditSteps == {"idle", "treeFirst", "addFirst", "commitFirst",
          "persist", "tree", "add", "commit"}
Jobs == [content : Contents, before : Contents]

EditInit ==
  /\ editDisk = Original
  /\ editTree = Blank /\ editStage = Blank /\ history = <<>>
  /\ editAt = [e \in Editors |-> "idle"]
  /\ editJob = [e \in Editors |-> Blank]
  /\ editTouched = FALSE

At(e, from, to) ==
  /\ editAt[e] = from
  /\ editAt' = [editAt EXCEPT ![e] = to]

Tracked == history # <<>>

\* save_config reads the file and returns when there is nothing to change; an
\* untracked file is snapshot before it is replaced for the first time.
SaveReads(e, c) ==
  /\ editDisk # c
  /\ At(e, "idle", IF Tracked THEN "persist" ELSE "treeFirst")
  /\ editJob' = [editJob EXCEPT ![e] = [content |-> c, before |-> editDisk]]
  /\ UNCHANGED <<editDisk, editTree, editStage, history, editTouched>>

\* restore_config reads the chosen revision, and snapshots nothing beforehand.
RestoreReads(e) ==
  /\ \E i \in DOMAIN history :
       editJob' = [editJob EXCEPT ![e] = [content |-> history[i], before |-> history[i]]]
  /\ At(e, "idle", "persist")
  /\ UNCHANGED <<editDisk, editTree, editStage, history, editTouched>>

\* A temporary file is moved over the file.
Persist(e) ==
  /\ At(e, "persist", "tree")
  /\ editDisk' = editJob[e].content
  /\ editTouched' = TRUE
  /\ UNCHANGED <<editTree, editStage, history, editJob>>

\* snapshot: the work tree, the index, the commit; a commit of what HEAD already
\* has ("nothing to commit") succeeds.
WriteTree(e) ==
  /\ \/ At(e, "treeFirst", "addFirst") /\ editTree' = editJob[e].before
     \/ At(e, "tree", "add") /\ editTree' = editJob[e].content
  /\ UNCHANGED <<editDisk, editStage, history, editJob, editTouched>>
Add(e) ==
  /\ At(e, "addFirst", "commitFirst") \/ At(e, "add", "commit")
  /\ editStage' = editTree
  /\ UNCHANGED <<editDisk, editTree, history, editJob, editTouched>>
Committed ==
  /\ Len(history) < MaxRevs
  /\ history' = IF Tracked /\ Last(history) = editStage THEN history
                ELSE Append(history, editStage)
Commit(e) ==
  /\ At(e, "commitFirst", "persist") \/ At(e, "commit", "idle")
  /\ Committed
  /\ UNCHANGED <<editDisk, editTree, editStage, editJob, editTouched>>

\* A git command or a write fails and the request ends with its error.
SnapshotGoesOn(e) ==  \* mutant: a failed first snapshot is logged and ignored
  /\ editAt[e] \in {"treeFirst", "addFirst", "commitFirst"}
  /\ editAt' = [editAt EXCEPT ![e] = "persist"]
  /\ UNCHANGED <<editDisk, editTree, editStage, history, editJob, editTouched>>
SnapshotFails(e) ==
  /\ editAt[e] \in {"treeFirst", "addFirst", "commitFirst", "tree", "add", "commit"}
  /\ editAt' = [editAt EXCEPT ![e] = "idle"]
  /\ UNCHANGED <<editDisk, editTree, editStage, history, editJob, editTouched>>

\* The game server or an update of the mod rewrites the file.
WriteOutside(c) ==
  /\ editTouched /\ editDisk # c
  /\ editDisk' = c
  /\ UNCHANGED <<editTree, editStage, history, editAt, editJob, editTouched>>

EditCrash ==
  /\ \E e \in Editors : editAt[e] # "idle"
  /\ editAt' = [e \in Editors |-> "idle"]
  /\ UNCHANGED <<editDisk, editTree, editStage, history, editJob, editTouched>>

EditNext ==
  \/ \E e \in Editors :
       \/ \E c \in Contents : SaveReads(e, c)
       \/ RestoreReads(e)
       \/ Persist(e) \/ WriteTree(e) \/ Add(e) \/ Commit(e)
       \/ SnapshotFails(e)
  \/ \E c \in Contents : WriteOutside(c)
  \/ EditCrash

EditSpec == EditInit /\ [][EditNext]_editVars

------------------------------------------------------------------------------
EditTypeOK ==
  /\ editDisk \in Contents
  /\ {editTree, editStage} \subseteq Contents \cup {Blank}
  /\ Range(history) \subseteq Contents /\ Len(history) <= MaxRevs
  /\ editAt \in [Editors -> EditSteps]
  /\ editJob \in [Editors -> Jobs \cup {Blank}]
  /\ editTouched \in BOOLEAN

\* "Snapshot the before state if this file hasn't been tracked yet": once the
\* dashboard has replaced a file, the content the mod came with can be restored,
\* whatever requests overlapped, failed or died.
OriginalIsKept == editTouched => Original \in Range(history)
=============================================================================
