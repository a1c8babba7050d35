# Quartermaster: specifications, model checks and proofs

Quartermaster (`quma`) manages the mods of an SPT game server: a Rust command
line tool and an actix-web dashboard over one SQLite database and one server
directory. This directory holds TLA+ modules of its core, the TLC runs that
check them on small instances, and TLAPS proofs about them.

Paths below are those of the repository (`src/ops.rs` is the file
`src/src/ops.rs` of the checkout this project sits beside).

## 1. Inventory

| Component | State it keeps | Operations | Talks to |
|---|---|---|---|
| Mod store (`src/ops.rs`, `src/db/mods.rs`, `src/db/addons.rs`) | tables `installed_mods`, `installed_addons`, `installed_files`, `pending_updates`; files in the live directory and in the stash `quartermaster/disabled/` | install, update (locked, asynchronous), remove, disable, enable, recover | everything |
| Task tracker (`src/web/tasks.rs`) | map of tasks with status, next id | start (single, bulk), complete, fail, dismiss, prune | handlers, dashboard |
| All-mods archive (`src/web/mod_zip_cache.rs`) | `all-mods.zip`, flags `rebuilding` and `dirty` | invalidate, rebuild, get | handlers, configuration, store |
| Change queue (`src/queue.rs`, `src/web/handlers/queue.rs`, `src/cli/apply.rs`, `src/web/handlers/server.rs`) | table `pending_operations`, archives in `quartermaster/queue/` | queue, cancel, apply all, drain on restart, sweep | store, tracker, requests, server |
| Mod requests (`src/db/requests.rs`, `src/web/handlers/requests.rs`) | requests with status and history, votes | create, approve, reject, queue, install, reopen | store, queue |
| Integrity and update caches (`src/web/integrity_cache.rs`, `src/web/update_cache.rs`) | result, generation, running flag; result and time | invalidate, start check, get, set | store, Forge |
| Users and rights (`src/db/users.rs`, `src/db/rbac.rs`, `src/web/handlers/admin.rs`, `src/web/handlers/join.rs`) | users, roles, overrides, invite codes, reset tokens, sessions | register, log in, invite, grant, disable | all handlers |
| Raid poller, tracker and pages (`src/web/poller.rs`, `src/web/raid_tracker.rs`, `src/db/raids.rs`, `src/web/handlers/raids.rs`) | map of raids under way, tables of raids | poll, start, end, statistics | Fika, profiles |
| Configuration (`src/config.rs`, `src/web/state.rs`) | `quartermaster.toml`, copy in memory | load, edit, save, reload | settings, modsync, store |
| Configuration editor (`src/config_mgmt/`) | a mod's configuration file, a git repository with its history | save, restore | the mods |
| Sync groups and layout (`src/modsync.rs`, `src/web/handlers/modsync.rs`) | groups in the configuration, files moved between group directories, `config.yaml` | assign, regenerate, move, migrate old overrides | store, configuration |
| Backups (`src/backup.rs`, `src/db/backups.rs`) | directories and table `backups` | back up, prune, restore | store |
| Update notifications (`src/notify.rs`) | table `update_notifications` | poll, announce, mark | Forge, Discord, update cache |
| Dependency resolver (`src/ops.rs`, `src/web/install.rs`, `src/cli/install.rs`) | table `mod_dependencies` | plan, install one by one, record edges, reverse closure | store, Forge |
| Server lifecycle (`src/web/handlers/server.rs`, `src/container.rs`) | transition marker, containers | start, stop, restart, teardown | queue |
| SVM presets (`src/svm/`, `src/web/handlers/svm.rs`, `src/assets/svm-form.js`) | preset files, `loader.json`, the active preset in memory | switch, create, copy, delete, import, edit, save, reload | server |
| Archive extraction and adoption (`src/spt/mods.rs`, `src/adopt.rs`, `src/cli/reindex.rs`) | the game's directory, `installed_files` | install, update, remove, reindex, adopt | store, the container image |
| Logging (`src/logging/`, `src/db/logs.rs`, `src/web/handlers/logs.rs`) | layers and their filters, the channel to the writer, table `log_entries`, its counts | emit, flush, prune, reload, page | settings |
| Notes (`src/db/notes.rs`, `src/web/handlers/notes.rs`) | table `notes` | create, edit, delete | users |
| Request board (`src/db/requests.rs`, `src/web/handlers/requests.rs`) | votes, resolvers, status log | vote, resolve, reopen, list | users, queue |
| Player profiles and game data (`src/spt/`, `src/web/handlers/profiles.rs`, `admin.rs`) | the game's profile files, the link of an account, tables of items and prices | link, unlink, show | the game, users |
| Forge, GitHub and Fika clients, health pages, templates, set-up | - | - | not core |

**How they interact.** The database is one connection behind a mutex. A handler
either holds that mutex for a whole operation of `src/ops.rs` (the *locked*
operations) or, for the updates of the dashboard, for the first and the last of
three steps only, so that the slow file swap leaves the database free. Long
work runs in spawned futures that the task tracker names; what runs without a
task (toggle, remove, settings, the restart drain) is kept apart from them by
the mutex alone. After a change of the installed files the handler invalidates
the caches. A change made while the game server runs is queued instead and
applied later.

**What is hard.** The three steps of an update against everything that may come
between them; crashes and errors between a change of the disk and the change of
the rows that describes it, in both orders; recovery, which has only the marker
and the disk to go by; directories shared by several mods when one is
disabled; two kinds of task exclusion that do not know each other; flags set
and tested by different threads; decisions taken on a status read before an
await. PROJECT.json lists each such place, with its line, as a hazard.

**What makes each component correct.**

* Store: the catalogue always names one whole version per item; the files of an
  item are where its flag says; nobody touches a neighbour's files; updates of
  one row exclude each other and are recoverable at every moment.
* Tracker: one worker per id, bulk work alone, the display shows what runs.
* Archive: one rebuild at a time, never an older archive over a newer one, and
  after the last change a fresh one.
* Queue: each queued operation is applied at most once, in order, and not after
  it was cancelled; a request's status follows its operation.
* Requests: only the transitions of the lifecycle; *installed* means installed.
* Caches: never a result older than the last invalidation shown as current.
* Notifications: what can be updated is announced, and once.
* Users: a code is used once; someone who manages users remains.
* Poller: at most one open raid per player, and a kill counts for one raid.
* Configuration: no edit is lost; old files mean the same after migration.
* Editor: the text a file had before the first edit can be had back.
* Layout: the rows say where the files are, and what is enabled is served.
* Backups: what a change does away with is in a backup that can be restored.
* URL archives: a queued archive is there when its turn comes, and is the one
  that was asked for.
* Resolver: what an installed mod needs is installed, at every moment; a removal
  takes along what depends, and nothing else.
* Addons: an addon hangs on its own mod; what is queued is applied.
* Logging: the counts are those of the table, a reader misses no row, and a
  layer gets what its level asks for.
* Server pages: a transition ends; no save loses keys of a preset that the
  dashboard does not know; what is shown is the active preset.
* SVM forms: what the page shows can be saved, and a save changes only what was
  changed.
* Game directory: a core mod's file goes only with that mod; what a mod brought
  is in the catalogue.
* Notes: who sees a note, and whether others may edit it, is its author's to say.
* Request board: the log of a request is its whole story.
* Profiles: no two accounts come to share a profile unnoticed, and every profile
  is offered or shown; the totals of two pages agree.

## 2. Modules

| Module | What it is |
|---|---|
| `ModStore` | the store with its failures, crashes and recovery |
| `ModCatalogue` | what the store promises: the rows change by whole operations |
| `WatchedStore` | `ModStore` with a flag that remembers failures |
| `ModStoreProofs` | proofs about both, the refinement included |
| `MCModStore`, `MCWatchedStore` | instances of `ModStore` and `WatchedStore` for TLC |
| `TaskTracker` | the tracker and its workers |
| `ModZipCache`, `MCModZipCache` | the archive cache and its rebuild tasks |
| `ModZipCacheProofs` | proofs about `ModZipCache` |
| `ChangeQueue`, `ChangeQueueProofs`, `MCChangeQueue` | mod requests, the change queue, and the handlers and tasks between them |
| `UrlQueue` | the archives of queued URL installs |
| `Raids` | the raid poller, the tracker, the rows of raids and the pages that show them |
| `IntegrityChecks` | the integrity cache and its checks |
| `UpdateNews` | the update cache and the announcements |
| `SyncLayout` | the directories of the sync groups and the moves between them |
| `Accounts` | users, roles, invites and the handlers that change them |
| `ConfigStore` | the configuration file, its copy in memory and those who write it |
| `ModConfigs` | a mod's configuration file and its history |
| `Backups` | backups, retention and restores around whole mod operations |
| `SyncGroups` | the sync groups in the configuration file and their migration |
| `Dependencies` | plans of installs and updates, their fetches, the edges, and removals |
| `AddonChanges` | addons installed, updated and removed, at once or through the queue |
| `Logs` | the log's layers and their reload, the writer, its table and the page |
| `GameServer` | the containers as handlers start and stop them, and the SVM presets |
| `SvmTables` | the settings of a preset, and the fields the editor has for them |
| `SvmForms` | a setting on its way from the file through the form and back |
| `GameFolder` | where archives land, whose a file is, and the adoption of core mods |
| `Notes` | the notes and the forms that change them |
| `RequestBoard` | votes, resolvers and the history of requests |
| `PlayerPages` | the links between accounts and profiles, and what their pages add up |
| `AdminProofs` | proofs about `Accounts`, `Notes`, `PlayerPages`, `ConfigStore`, `ModConfigs`, `SyncGroups` and `SvmForms` |
| `FolderProofs` | proofs about `GameFolder` and `Dependencies` |
| `BackgroundProofs` | proofs about the components of `MCBackground`, and about all of them side by side |
| `Numbers` | lemmas they share: the least element of a set of numbers, positions in a sequence, sums over a finite set |
| `RecordsProofs` | proofs about `GameServer`, `AddonChanges`, `RequestBoard`, `Backups` and `Logs`, and about all of `MCRecords` side by side |
| `MCBackground`, `MCRecords` | the components above that share no state, side by side |
| `MCNews`, `MCBackups` | `UpdateNews` and `Backups` alone |
| `MCDeps`, `MCAddons`, `MCLogs`, `MCFolder` | instances of `Dependencies`, `AddonChanges`, `Logs` and `GameFolder`; `MCAddons` also runs alone |

`MCBackground` composes the tracker, `Raids`, `IntegrityChecks`, `UpdateNews`,
`SyncLayout` and `UrlQueue`; `MCRecords` composes `Accounts`, `ConfigStore`,
`ModConfigs`, `Backups`, `SyncGroups`, `Dependencies`, `AddonChanges`, `Logs`,
`GameServer`, `GameFolder`, `Notes`, `RequestBoard`, `PlayerPages` and
`SvmForms`. The components have no variable in common, so a state of one says
nothing of another: a variable `part` picks the component at the start, and the
others rest. One run then checks as many components as their product would, at
the price of their sum. For the same reason some properties are conjunctions of
the questions about one component, each named and explained where it is
defined.

### 2.1 ModStore

| TLA+ | Code |
|---|---|
| `disk[r][p]` | content of the file at path `p` below the live directory or the stash |
| `row[i]` | the row of a mod or addon: id, version, disabled |
| `files[p]` | the row of `installed_files`; `file_path` is UNIQUE, so a function |
| `markers` | `pending_updates`, at most one per row (UNIQUE) |
| `jobs[j]` | what an `apply_mod_update` or `apply_addon_update` future has in its local variables between steps 1 and 3 |
| `status`, `recover` | the process: up, down, or working through the markers |
| `InstallFromArchive`, `UpdateFromArchive`, `RemoveById`, `DisableMod`, `DisableAddon`, `EnableMod`, `EnableAddon` | the locked operations, mod and addon variants together where they do the same |
| `InstallHalts`, `UpdateHalts`, `RemoveHalts`, `DisableHalts`, `EnableHalts` | the same operations stopped halfway, by an error or a crash |
| `MarkUpdate`; `CopyFile`, `DeleteStale`; `CommitUpdate` | steps 1, 2 and 3 of an asynchronous update; step 2 file by file |
| `SwapFails` | an error in step 2: the job ends, the marker stays |
| `Crash`, `Restart`, `RecoverSingleUpdate`, `RecoverHalts`, `Serve` | a crash, `recover_pending_updates` record by record, the start of serving |

Names of files do not matter, only which top-level directory a path is in
(`DirOf`) and which paths begin with a directory's name (`Under`: the code
compares text without a trailing slash). An archive is a function from paths to
contents.

Abstractions:

* A locked operation is one action, also with respect to the file moves of a
  job in step 2, with which the code may interleave file by file. The jobs
  interleave with each other and with whole operations.
* Directories exist when they hold a file. An empty directory that is left
  behind may, in the code, be renamed like a full one; nothing is lost by that.
* Markers are recovered in any order (the code: by id).
* An undo of renames that fails itself, which the code only logs, is left out.
* No automatic backup and no modsync: `auto_backup` changes neither the rows
  nor the disk (`Backups` has it), and the layout moves are in `SyncLayout`.
* `Overlap` says which locked operations may come between the steps of an
  update of the same item. The code allows all; the runs that check a property
  which those overlaps break leave them out (a mod that is disabled between the
  steps of its update gets its new files at the root that was right before).
* The command line tool, a second process on the same database, is left out.
* `MaxId` bounds the row ids, and with them the installs.

`ModCatalogue` has one variable: per item nothing, or a version and a flag. Its
steps are install, update, remove (of a set of items closed under "addon of")
and toggle. `ModStore` implements it under `entry[i] = (row[i].ver,
row[i].disabled)`; swaps, failures, crashes and markers are stuttering.

### 2.2 TaskTracker

The tracker is a mutex around a map, so every call is an action. The workers,
the futures which handlers spawn in the same breath as they get a task, are the
set `workers`. `Zero` is the id 0 that bulk operations and installs from a URL
use. `Dismiss` takes finished tasks, for which alone the page shows a button;
with `DismissAny = TRUE` it takes any, as the endpoint would. `MaxTasks` bounds
the tasks ever started; `Cap` stands for the constant 20. A worker that panics
is not modelled.

### 2.3 ModZipCache

`rebuilding` and `dirty` are separate atomics; what a thread does between two
accesses is a step of its own. The installed files and the settings are a
number that grows with each change, the archive is the number it was listed
from, and `Empty` are the contents without files, for which the code removes
the archive. A caller commits a change, then calls `invalidate`: the exchange
succeeds and a rebuild task starts (`CallerStarts`), or it fails
(`CallerFindsRebuild`) and the store to `dirty` follows (`CallerMarks`). A task
clears the flag, lists the files under the database mutex, writes and renames
(`Publish`, which includes the drop of the guard: a caller that fails its
exchange between the rename and the drop fails it before the rename as well),
swaps the flag, and calls `invalidate` itself. Rebuilds may fail (`BuildFails`)
or panic (`BuildPanics`); `Restart` ends everything and warms the cache. The
atomics are taken to be sequentially consistent. `Workers`, `MaxContent` and
`MaxRestarts` are bounds.

### 2.4 ChangeQueue

The way of a change from the wish to the row: mod requests, the queue, and every
handler and task that reads one of the two before an `.await` and writes the
other after it. An installed mod is only the id of its row here; what happens to
files and versions is `ModStore`'s subject, and of the tracker only the ids of
the running tasks are kept.

| TLA+ | Code |
|---|---|
| `row[m]` | the id of the row of Forge mod `m` in `installed_mods`; `None`: not installed |
| `queue`, `nextOp` | `pending_operations` and its AUTOINCREMENT |
| `about[r]`, `status[r]` | a row of `mod_requests`: its mod and its status |
| `serverUp`, `Probe` | the game server, and what a handler may be told about it: the truth, or "stopped" after a failed probe or with `queue_changes` off |
| `working` | the ids of the running tasks |
| `jobs[p]` | the local variables and the place of a handler or task: `Change` (a change that is decided, queued or made), `Drain` (the apply task or a restart), `Cancel` (a cancellation) |
| `CreateRequest`, `ApproveRequest`, `RejectRequest`, `ReopenRequest`, `InstallApproved` | the handlers of requests, with `transition_request_status` as `Moved` |
| `AskChange`, `Decide`, `Enqueue` | install, update and remove handlers: the look-up of the row, the decision on the server's status, `has_pending_op` and the insertion under one lock |
| `Install`, `Update`, `Remove`, `Settle` | the change itself with the transitions at its tail, and the last lines of the task |
| `AskApply`, `AskRestart`, `ListOps`, `ClaimApply` | how the apply task and the restart come by their list; the task claims the tracker after listing |
| `ApplyInstall`, `ApplyUpdate`, `ApplyRemove`, `Unqueue`, `MarkApplied`, `EndApply` | one operation of the list after the other; only the task marks requests |
| `AskCancel`, `CancelDelete`, `CancelRestore` | the two cancellations: read, delete, move the request |
| `Fails`, `InstallHalts`, `RemoveHalts` | errors, and operations that stop between the row and the requests |
| `Crash`, `Restart`, `StartServer`, `StopServer` | the processes |

Abstractions:

* Forge mods only: no addons, no mods from a URL (their archives in
  `quartermaster/queue/` are in `UrlQueue`), no "update all".
* The command line tool changes the rows as an environment
  (`InstallDependency`) and does not queue.
* A query of the database succeeds. A future is dropped only when the process
  is killed.
* An update leaves the row id as it is, so it changes nothing here but the job.
* Which mods depend on a removed one is any set of installed mods. A
  dependency brought along by an install is any mod that is not installed.
* Row ids are drawn from `Rows` and are only required to be held by no row and
  no job: AUTOINCREMENT up to renaming, which nothing here looks at beyond
  equality. So a mod may be removed and installed again without bound.
* `MaxOps` bounds the operations ever queued, `Procs` what is in flight.

### 2.5 UrlQueue

An archive is downloaded into `.quartermaster/queued` first, then the operation
that names it is recorded. `archives` is the directory, `urlOps` the rows of
`pending_operations`, and `hand[p]` what a handler, a task or a command is
about: `Request`, `Fetched`, `FetchFails`, `RecordOp` for queueing; `ListOps`,
`InstallArchive`, `InstallFails`, `Unlink`, `DeleteOp`, `EndDrain` for a drain;
`Cancel` for a cancellation. `StartSweep` and `Sweep` are the two halves of
`sweep_orphaned_archives`. The dashboard and the commands are killed
separately (`StopDashboard`, `KillCommand`). A file knows who created it and
whether all of it is there: two downloads under one name give a mixture. The
ghosts `asked`, `clashed` and `parted` remember the names that were requested
twice in a second and those that lost their file or operation to a kill or a
sweep. What the code then does: an operation whose archive is gone fails at
every later drain of the dashboard ("queued archive not found") until it is
cancelled, and a failed download leaves its part until the next start.
Left out: `--name` of the command line, which renames the mod past the check
for a mod of the derived name.

### 2.6 Raids

One action per step of `poll_once`: `AskPresence` (and the pause), `EndRaid` for
each player who left, `StartRaid` for each who came, `EndPoll`. The game moves
on its own (`EnterMap`, `LeaveMap`, `Kill`, `SaveProfile`): it writes a profile
some time after the raid, and a profile that is being written cannot be read,
which either step survives by doing nothing. `tracked` is the map of the poller,
lost at a restart (`PollerRestart`). A kill is its place in the victim list;
`before` is the length of that list at the start of the raid. `LeaveMap` adds to
one exit counter of the profile (`Outcomes`), and the end of a raid is told by
the counter that has grown (`DiffExitStatus`); the headless client's exits are
nobody's. The rest of the module are the queries of the pages: `StatsPage`,
`AllRaidsPage`, `PlayerRaidsPage`, `RaidDetailPage`. `RaidsAreTrue` is
`OneOpenRaid`, `KillsCountOnce` and `PagesAgree`, the last of the states in which no
poll is under way and no raid is waited for: the pages read rows only, and after a
restart of the poller any set of rows is met in such a state.

What the code does besides: a player's own page counts the raid under way and
the leaderboard does not (`PagesAgree` allows for that); `server_id` is always
NULL, so squads are never grouped, and `exit_name` always None, so the favourite
extract is always empty; `close_stale_raids` is called by nobody; the profile is
read twice at the end of a raid; a late profile gives a raid the outcome of
another one, and of two merged raids one outcome is lost.

### 2.7 IntegrityChecks

`Changers` are operations: they take the database lock, change files and rows
(`ChangeDisk`, `ChangeRows`), release it, and either invalidate the cache
(`Invalidate`) or forget to (`EndUnheard`: installs from a request or a URL, and
every command). A check wins the flag, reads the generation, lists the rows
under the lock, scans the disk without it, and stores its report under the
generation it read first. Contents are counters.

### 2.8 UpdateNews

`Look`, `Ask` and `Hear` are a page's or the poller's way from the installed
versions to the stored answer, with no lock held in between; `ChangeMod`
invalidates the cache and `ChangeUnheard` does not (`apply_queue` and the
commands). `Announce` filters, posts and marks: all posts first, then all
marks. `SchemaVersion` is the number of scripts that `Database::open` runs.

### 2.9 SyncLayout

An item is a mod or an addon with one file in one plugin folder; `slot` is its
row, `fileAt` where the file is, `member` the group of each mod in the
configuration in memory, `served` what `config.yaml` names, `regen` what a
regenerating request has read. `Laid` is `ensure_mod_layout` as a function from
rows and files to rows and files: whether it moves (`Moves`), which files go
(`Inside`), which rows get the new prefix (`Reprefixed`). `mislaid` remembers the
items whose row and file a move has parted. `LayoutServes` says of every step that
there are no others after it (`RowsFollowFolders`), and that a regeneration serves what
is enabled (`EnabledIsServed`). The causes are: the row of a disabled item that shares the
folder is re-prefixed while its file stays in the stash; the file of an addon
whose mod has no file in the folder moves without its row; a crash between the
rename and the rows (`MoveCrash`).

### 2.10 Accounts

A handler of the user administration looks something up, releases the database
and writes in a second critical section; so it is two actions, `AskX` and
`Finish`, and `pending` holds what is between them. The checks that matter are
made again at the write, under the lock, which is what `ManagerRemains` and
`CodeIsHeld`, together `ChecksHoldAtWrite`, are about. An invite is good, past (its instant
is over, but on its
last day the text comparison of `use_invite` still takes it) or over. Of
permissions only `users.manage` is kept. `DeleteUser` may be refused by a note
that names the user: the foreign keys of `notes` have no ON DELETE, so a user who
wrote a note can never be deleted.
Left out: log-in and sessions, reset tokens. The link of a game profile, and the
profile that a failed join leaves at the game server, are in `PlayerPages`.

### 2.11 ConfigStore

`cfgFile` is the file and `Unset` while `fs::write` has truncated and not yet
filled it; `cfgMemory` is the copy of the dashboard. The settings forms hold
`config_lock` from load to reload; `remove_mod_by_id` loads, edits and saves
without it. `QUMA_` variables win over the file, and `quma serve` saves the
result. The configuration is a value per section and the members of the sync
groups. `cfgBlemished` remembers that a removal met a save or that a write was
cut short; only then a saved setting may be lost.

### 2.12 ModConfigs

One configuration file of a mod, its copy in the work tree and in the index of
the history's repository, and the committed versions. An editor goes through
the steps of `save_config`: the first snapshot, the replacement of the file, the
second snapshot; each snapshot is write, add and commit, and each may fail or be
cut short by a kill. No lock is held, so two editors interleave; the later text
wins and the other may miss in the history.

### 2.13 Backups

An item has one file. The operations of the store are whole steps here, with
the automatic backup that goes before; a backup is a directory and a row, and a
pass of the retention removes the directory of each record before its row
(`TakeDies` is a kill in between). `Triggers` is the CHECK of the table, which does
not know the triggers of addon operations: their backups always fail, and with
`require_backup` the operations are blocked (`Blocked`). `RestoreMod` and
`RestoreFull` are the two restores, `RestoreStops` one that fails after it deleted
files; a full restore enables every item of its manifest and leaves the files
of addons that are not in it.

### 2.14 SyncGroups

`syncFile` is the modsync section of the file. `Migrated` is what `Config::load`
makes of it, mod by mod in the order of the map: an override goes into the
group of the mod if it is alone there (`Merged`), takes it out of a group of
several (`SplitOut`) or makes a group (`Fresh`); then the predefined groups.
`MigrationKeepsSettings` compares what each mod is set to before and after. It
excepts what the code gets wrong on purpose or not at all: a mod alone in the
reserved group "default", which is dropped, and a user's group that has the slug
which the migration would give. Forms and removals act on the result.

### 2.15 Dependencies

A process has an errand: `MakePlan` asks the Forge for the tree and walks it
(`Walk`, one node in each `WalkStep`: what is installed, in conflict or already
listed is passed over with all below it, and a mod is listed after what it needs);
then one dependency after the other is fetched (`FetchDep`) and lands (`LandDep`) or turns
out to be there (`PassDep`); then the mod itself
(`LandMod` for the dashboard and the commands, `LandSecond` for the queue, which
finds the mod there and calls it installed; `SwapRelease` for an update); last
come the edges (`RecordEdges`), to what the same install found or brought.
Nothing is locked between two of these steps, so other errands, removals and
kills (`Abandon`) interleave. The updates of the command line and "update all"
go straight to the archive and resolve nothing (`SwapStraight`); `unresolved`
remembers their mods, which `NeedsArePresent` excepts (with `OnlyDependentsGo` it
is `NeedsAreKept`). `Dependents` is `collect_all_reverse_deps`; the command
removes a list made earlier. `MaxWalk` bounds the steps of a walk: the code has no
bound and says itself that it would overflow the stack in a tree with a cycle; a
plan whose walk does not end is not made here. `Dependents` needs none, as every row
is found and left once.
`Forges` are the trees: one whose needs grow with the releases, and it with a
conflict and a mod without a release.

What the code does besides: a mod whose dependency another install brought has
no edge to it, so removing the dependency leaves that mod behind; and edges
outlive the release that needed them.

### 2.16 AddonChanges

`hostRow` and `addonRow` are the rows of mods and addons, `addonOps` the addon
operations in the queue (a set: `queued_at` orders it as the ids do, and `First` is the
oldest), `chore[p]` what a handler, a task or a command is in the
middle of. A wish is queued while the server is up (`TryQueueAddonOp` of the
dashboard asks whether the operation is there, `CommandChange` does not), and
otherwise fetched and landed. `AddonAssumption` says that every addon has one mod. A drain
goes through the list it read at the start:
`FetchOp`, `LandOp`, `PassOp` (installed already: done, for the dashboard) and
`SkipOp` (nothing to apply it to). A failed operation is kept and passed over by
the dashboard; at a command it ends the drain and leaves the server stopped.
The dashboard removes an addon at once even while the server is up, as it does
with toggles, whatever `USAGE.md` says of operations in general. `MaxRelease`,
`MaxHosts` and `MaxWishes` are bounds.

### 2.17 Logs

`Emit` passes an entry through the floor and the layers and hands it to the
writer's unbounded channel (`backlog`); `ReceiveLog`, `FlushBatch` and
`AddCounts` are the writer's steps, `PruneLogs` its retention, `ShutdownWriter`,
`DrainLogs` and `EndServe` its end. `SaveLoggingSettings` changes the
configuration, and `ReloadFloor`, `ReloadConsole` and `ReloadFile` take effect one
after the other. `reader` is a page that loads older rows with a cursor.
`LogsAreComplete` says that the counts are those of the table, that a reader
misses nothing, and that the floor lets through what a layer asks for. The
exceptions are remembered: a count of the table that failed (`stale`), and ids
that were given again because the table was emptied under a reader
(`idsReused`; the table has no AUTOINCREMENT). `MaxLogged`, `LogBatch` and
`PageRows` are bounds.

What the code does besides: `serve` tells the writer to stop and does not wait
for it, so the tail of the log may be lost; a batch whose insertion fails is
lost; `--log-level` and `-v` last only until the logging settings are saved;
`-v` does not reach the console; the running writer keeps the retention it was
started with. On the page, `trimOldEntries` of `logs.html` leaves `oldestId` as it
was, so what it trimmed is not loaded again. The live stream, searching and the
rotation of the file are left out.

### 2.18 GameServer

`box` are the containers, `transition` what the dashboard shows of the server,
`request[h]` a handler between two of its calls: `AskServer` and
`HeadlessLifecycle`, `HandlerStops`, `HandlerStarts`, `HandlerEnds`; every call of a
container may fail. `FromOutside` are the commands, Fika and Docker, `TearDown`
and `ServeStarts` the end and the start of `quma serve`. The presets are files
with what the dashboard edits (`conf`) and keys it does not know (`extra`);
`svm` is the manager in memory. `CopyConf` and `SaveSection` are the two halves of
a save, the rest of the operations have their names. `ServerPagesHold` says that
no transition outlives its handlers, that a preset keeps its unknown keys, and
that the pages show the preset that is active. `imported` excepts an import under
another name. `MaxEdits` is a bound.

What the code does besides: a save writes the copy it read earlier under the
preset that is active by then; an import is in memory without being listed or
active, so the next save writes it into the active preset; `loader.json` names a
preset before that is loaded, also when it does not load; the mark "restart
needed" is not set by a switch of presets, and a start during which a save came
clears it; of two handlers that overlap, the first to end clears the transition
of the other.

### 2.19 SvmTables and SvmForms

`ConfigSections` is the table of the 816 settings of a preset, with type and what
serde makes of one that is missing, and `FieldsForSection` the table of the fields
the editor has for them: they are the structures of `src/svm/config.rs` and the
field lists of `src/svm/metadata.rs`. `SvmForms` picks one setting (`focus`; all
of them are initial states) and follows its value: file (`Deserialize`), form
(`Shown`), what is typed in (`TypeIn`) and let through by the browser (`Valid`),
what the script posts (`ParseNumber`, `Posted`), and what the server takes
(`Fits`, `Taken`). Values are kinds: the standard value, zero, a whole number, a
fraction, a tiny number, words. `FormsKeepSettings` says that a form can always be
saved and that a save means what the form showed, so a setting without a field,
with a field of the wrong kind or under a wrong path violates it. The tables
agree on all settings: `TablesFit`, an assumption about these two tables and nothing
else, which TLC evaluates in full, says that every setting has a field, of a kind for
its type, and the rest is proved from it. It excepts numbers written with an exponent and without a
point (1e3, or 1e-7, which is how a browser shows 0.0000001): `parseInt` saves
their first digit.

What the code does besides: an emptied number field is saved as 0, also below
its minimum, since the server checks no ranges; a setting that is missing in a
group which is there gets the default of that group's structure, which is zero
for the derived ones, and in `DailyQuests` makes the preset unreadable; an old
form overwrites its whole section. Numbers beyond 32 bits, which the browser
lets through and the server refuses, are left out.

### 2.20 GameFolder

`folder` says who put a file at a path, `fileOf` whose row the path has, `from`
the archive a mod came from, `boot` where adoption stands. `InstallMod` is the way
of an archive to the disk: normalisation of the first directories, the wrapper
directory, names that differ in case. `UpdateItem`, `TakeAway`, `Reindex` are the
other operations, `StackStarts` puts the core mods of the image there, and
`AdoptNext` adopts one of them. `GameWrites` are files the game makes.
`FilesHaveOwners` says that a core mod's file goes only with that mod, and that a
mod with rows has one for each of its files in the known directories.

What the code does besides: names are normalised before the wrapper is
stripped, so `w/bepinex/...` stays in lower case beside `BepInEx`; two spellings
of one file make the install fail; the left files of a removed core mod are
adopted again at the next start, though `src/adopt.rs` says adoption fires only
at the first; files the game wrote before adoption become the mod's, and its
next update removes them; an update or a removal of a mod without rows leaves its
files.

### 2.21 Notes

A form is admitted by the middleware (`SendNote`) and applied to the table
afterwards (`ApplyForm`), where the note is read again; `RemoveWriter` deletes an
account. `NotesAreTheirAuthors` says that visibility and place are the author's, that
a note closed for others keeps its text, and that one which goes is the
author's or goes by someone who could manage notes when the form came in. There
is no version of a note: the last form wins.

### 2.22 RequestBoard

`votes`, `statusLog` and the row of a request are what the page shows.
`StartVote`, `GetVote` and `WriteVote` are a vote between whose steps others come;
`Resolve`, `Reopen`, `QueueRequest` and `InstallHere` move requests;
`CommandReads` and `CommandWrites` are a command, which reads the requests before
its transaction. `HistoryIsWhole` says that the log of a request leads without
a gap from "pending" to its status, and that nobody who is gone is named or
counted; `overtaken` excepts a request to which a command wrote over another
status, such as a rejection.

What the code does besides: the resolver is set before a transition that may be
refused, and stays at a reopening, so a card may name someone who did not
resolve it; a vote may land after the request was resolved. The refresh of
descriptions is left out: of the stale ones it takes three at a time, and three
that always fail keep the others waiting.

### 2.23 PlayerPages

`linkOf[u]` is the profile of an account, `profile[a]` the file of the game,
`clerks` are the handlers between check and write: `RegisterProfile` and
`InsertUser` of a join, `LinkProfile` and `UpdateUserSptProfileId` of an
administrator. `parent` says what an item lies in; `WalkStashItems` goes down from a
place, level by level (`Levels`), and the tabs and the header of a stash are two sums
over what it finds. The game's own view goes up (`WayUp`, `RootOf`). `tables` is whether the
tables of game data loaded at the start.
`ProfilesAgree` says that a profile gets a second account only through a race that
the code does not rule out (the column is not UNIQUE), that every profile is
offered or shown, and that the tabs of the stash add up to its header. A join
that loses leaves its profile without an account, to be linked. Hideout, quests
and skills are left out. `MaxClerks` and `MaxBegun` are bounds.

What the code does besides: the survival rate reads other counters than
`src/web/raid_tracker.rs`; the tabs add without the saturation of the header;
the tables are loaded once, and a failure leaves them empty until the next start.

## 3. Runs

All runs set `CHECK_DEADLOCK FALSE`: operators and clients drive the system,
and the bounds on ids, tasks and changes let it stop.

| Run | Checks | Instance |
|---|---|---|
| `store_recovery` | `FilesAtResolvedRoot`, `CalmDiskIsCatalogue`, `ClaimedIsOnDisk` | mod and addon in directories of their own, 2 versions, 2 jobs, failing swaps, crashes at every moment and crashing recovery |
| `store_faults` | `TypeOK`, `SwapsAreGuarded`, `RowsAreWhole`, `ImplementsCatalogue` | mod and addon whose archives claim the same path, every kind of failure, 2 jobs |
| `store_shared` | `NeighboursUntouched` | two mods in one directory, crashes, locked updates that stop halfway, toggles between the steps of an update |
| `store_stash` | `FilesAtResolvedRoot` violated | two mods in one directory, no failures |
| `zip` | `StaleLeavesTrace`, `NeverOlder`, `DirtyIsHonoured`, `EventuallyQuiet` | 2 callers, 2 tasks, 4 changes, a restart, errors and panics |
| `zip_lost` | `QuietIsFresh` violated | 2 callers, 2 tasks, 2 changes |
| `queue` | `TypeOK`, `OneOpPerChange`, `AppliesAlone`, `QueuedStaysBacked`, `RejectedOnlyReopens`, `RowsMoveRequests` | 1 mod, 2 requests, 2 handlers or tasks, 2 operations, 2 row ids |
| `background` | `BackgroundTypeOK`, `ShownOnce`, `RaidsAreTrue`, `CachesAreTrue`, `LayoutServes`, `ArchivesServe` | tracker: ids 0, 1, 2, cap 2, 6 tasks; raids: 2 players, one of them headless, 3 rows, a kill and an exit each, pages of one row; checks: 2 operations, 3 changes; news: 1 mod, 2 versions, 2 pages and the poller; layout: 2 mods and an addon, in one folder or two, one group; archives: 2 URLs of one name, a handler, a command, 2 seconds, 2 operations |
| `records` | `RecordsTypeOK`, `ChecksHoldAtWrite`, `SavedStays`, `OriginalIsKept`, `RowsMatchFiles`, `ChangesAreBackedUp`, `MigrationKeepsSettings`, `NeedsAreKept`, `AddonsOnTheirMod`, `LogsAreComplete`, `ServerPagesHold`, `FormsKeepSettings`, `FilesHaveOwners`, `NotesAreTheirAuthors`, `HistoryIsWhole`, `ProfilesAgree` | accounts: 3 users, a custom role, a code, 2 handlers under way; configuration: 2 sections, 2 forms, a removal; editor: 2 texts, 2 editors, 3 revisions; backups: a mod and an addon, 2 versions, 3 directories, `max_backups` 1; groups: every file of 2 mods with overrides and groups; dependencies: 3 mods, 2 releases, 2 trees, a handler and a command, 3 wishes; addons: 2 mods, an addon, 2 releases, a worker and a command, 2 wishes; logs: 2 configurations, 2 starts, 3 entries of 2 levels, batches of 2, pages of 1; server: 2 containers, 2 handlers, 2 presets, one unreadable, 3 requests; forms: every setting of every section; folder: a mod with archives of 4 shapes, 2 core mods; notes: 2 writers, a note; board: 2 members, a request, 4 log entries; players: 2 accounts, a profile, 3 items, 2 handlers |
| `updates_untold` | `UpdatesAreHeardOf` violated | 1 mod, 2 versions, a page and the poller |
| `queue_stuck` | `QueueIsApplied` violated | a mod and its addon, a worker, a command, 2 wishes |
| `restore_addon` | `BackupIsRestorable` violated | a mod and an addon |

**Why the bounds are enough.** In the store, version 2 of every item drops a
path, keeps one with a new content or adds one, which are the cases recovery
tells apart; two items suffice for every interference, because an operation
looks at its own item and, through directories and paths, at any one other; an
addon stands for both a second item and a dependent. Two jobs are what the
UNIQUE marker decides between. Row ids run to two or three, so an item can be
removed and installed again under a marker of its former self. The tracker
needs more tasks than the cap plus the workers to prune out of order. The cache
needs one task on its way out, one that rebuilds, and one caller between its
two accesses. In the queue a mod has a second request only after a first one was
rejected and reopened, which two requests allow; every hazard on the list is
between two handlers; two operations are what can be queued twice, applied by
two drains, or cancelled under a drain. Two row ids are enough: for both
processes to remember rows that are gone, and different ones, a third would have
to remove the second, and indeed a third id adds no state. An instance with two mods, one
request and one operation,
where a removal takes a dependent along, has 675 thousand states and passes as
well.

A raid needs a second row to be confused with and a third to be opened after a
restart; two players show that nobody gets the other's. A check meets two
operations that overlap it and one another. In the layout the two mods share a
folder and the addon either shares it or has its own, which are the cases that
`ensure_mod_layout` tells apart; one group besides the plain directory lets a
folder move both ways and back. Two URLs with one derived name, in one second
or two, are what the timestamp tells apart; nothing looks at a URL beyond equality,
so they are symmetric. Three users are two administrators
who work against each other and a bystander, or one administrator and two
joins with one code. Two forms and a removal are all the writers that can hold
a copy of the configuration at a time. With `max_backups` 1 every backup after
the first prunes one, so retention meets every operation.

Two batches of log entries and a page of one row are what can be flushed or
pruned under a reader. Two presets let one be switched to, deleted or
overwritten under a save. Every setting is an instance of its own, because the
two tables are data: an error in either is one in a single setting. The four
archives are a plain one, a wrapped one with a second spelling below the
wrapper, one whose names are all to be normalised, and one with two spellings
of one file. One note and one request suffice, because no handler looks at two;
the second member is the one who votes, or is gone.

**What the violations show.** Each of these runs states what a comment of the
code says, and TLC finds a behaviour of the code that contradicts it.

* `store_stash`: disable mod A, then mod B in the same directory. With A
  disabled the directory counts as B's alone, `disable_mod` finds it in the
  stash, takes it for stale and deletes it, with the files of A.
* `zip_lost`: between the failed exchange and the store to `dirty` the rebuild
  ends and looks at the flag. The archive stays stale until the next change.
* `updates_untold`: `migrations/015_update_notifications.sql` is not in the list
  of `src/db/schema.rs`, so the table does not exist, `was_update_notified`
  fails, and a failed look-up counts as announced. With `SchemaVersion == 15`
  the same run passes.
* `restore_addon`: a mod with an addon is backed up with the addon's files, and
  the restore gives every file to the mod. The rows of the addon refuse that,
  after the files of the mod were deleted.

* `queue_stuck`: `quma install --addon` twice while the server runs queues the
  install twice. `quma server restart --drain` applies the first, fails at the
  second (the addon is there), leaves it in the queue and the server stopped;
  and so does every restart after it.

`DiskIsCatalogue` holds with separate directories until something fails
(`CalmDiskIsCatalogue`), and `FilesAtResolvedRoot` survives crashes of installs' successors,
swaps and recovery. They do not survive shared directories: a mod disabled file
by file leaves its directory in the stash, and enabling it then renames that
onto the live one and fails; what a disable does to its neighbours is in
`store_stash`. `FilesAtResolvedRoot` speaks of existence,
not content: rolling back a partial copy deletes what the new version added and
leaves what it overwrote (the code logs "Restore from backup").

**Fairness.** `zip`, `updates_untold` and `queue_stuck` state liveness. In `zip`, `FairSpec`
asks for weak fairness of
each caller's and each task's next step: they are threads of the runtime and of
its blocking pool, and nothing they do between two accesses waits for another
of them. Changes and restarts are not fair; they may stop at any time.
`NewsSpec` asks for weak fairness of the poller's look and question (the ticker
of `notify.rs` does not stop, and neither waits for anyone) and strong fairness
of a good answer and of a poll all of whose posts succeed (the Forge and Discord
fail now and then, and not for ever). `AddonsFairSpec` has an operator who drains
again and again, and a Forge and a patience that do not end the command every
time: strong fairness of the drain, of its next fetch and of its next landing.
Both violations are ones under all of these.

## 4. Proofs

TLAPS checks everything below from the assumptions named in the modules (`TablesFit` of `SvmForms`
is the only one about data of the code); none
restricts the number of items, jobs, paths, callers, tasks or ids. Where a theorem
holds under hypotheses on the constants, as some of the store do, the hypotheses are named
operators and the runs that show the property satisfy them.

**Store** (`ModStoreProofs`). Assumptions: `DirAssumption` (prefixes and
directories of paths), `ItemAssumption`, `NoneAssumption` (the sentinel is no
record), `ArchiveAssumption` (an archive holds at least one file),
`BoundAssumption`, `NoJobAssumption` (the sentinel is no job).

* `Typing`. `TypeOK` is not inductive alone: step 3 of a job reads what step 1
  stored and recovery reads what a crash left. `TypeInv` adds `ProcessOK` (jobs
  run only while the process is up, markers are recovered only while it recovers)
  and `CopyOK` (what a job has still to copy is in the archive of its version).
* `Exclusion` and `Marked`, from `MarkerInv`: two markers of one row are equal,
  and every job has its marker. Each alone is lost by a step: without the
  second, another job could mark the same row; without the first, the commit of
  one job could take the other's marker. Removing a mod and installing it again
  is safe because ids are never reused, which the invariant says too.
  `Guarded` is the conjunction.
* `OneVersion` and `NoDangling` (`WholeRows` together), from `RecordInv`. The steps are
  first sorted by
  what they do to the rows (`NextIsRowStep`: install, replace, delete, toggle, or
  nothing), and the invariant is proved for these four cases instead of for
  twenty-odd actions.
* `Refinement`: `Spec => ImplementsCatalogue`, along the same classification.
* `Owners`: no two installed items own the same path.
* `Untouched`: `NeighboursUntouched` for archives that have no path in common
  (`ArchivesApart`: where they have one, an update writes over the other's file before
  its transaction fails). Every file on disk is some archive's
  (`FromArchives`), and what a job has still to delete was in one of its own item
  (`StaleOK`). Then a step leaves the file there (`StepKeeps`, one case per
  operation), and what is there afterwards can only be the item's own.
* `Claimed`: `ClaimedIsOnDisk`, for items with paths and directories of their own
  (`AreasApart`) to which nothing else is done during an update (`Overlap = {}`), with
  all failures and crashes. `SwapInv` says of every job that the item is still
  the one it was started for and where it was, that what it has copied is there,
  and that none of it is among what it will delete. `DiskFrame` and `RowFrame`
  carry this past the steps that act on others (`ActsOn`), `OnlyItsJob` says that no
  other step acts on the item itself.
* `Resolved`: `FilesAtResolvedRoot`, under `Hale`. Of `Hale` each part is needed. No
  loose file's path starts with a directory's name (`NoneUnder`): the text of
  `Foo.dll` starts with `Foo`, so disabling its mod leaves it behind. Operations other
  than updates and the recovery go through or are killed between steps (`Steady`): one
  that stops halfway leaves files out. And where swaps may end with an error, the
  versions of an item follow each other (`Follows`): one has all files of the other,
  or the item is a mod with its files in the same directories. A swap
  that fails while it deletes the old files has copied all the new ones and leaves
  its marker without a job. If the item is then disabled, new files that no
  row names stay behind, unless their directory goes as a whole; a restart finds
  the copy incomplete and rolls back to old files of which some are gone. The
  invariant (`PlaceInv`) says that an item has all its recorded files at its root,
  or all those of the version in the marker of its row (deleting the old files of
  a job, the item is not whole in between); that a marker is of one row, there or
  gone, and its old paths are the rows'; and that after a restart it is on the
  list of the recovery. So when the recovery decides between forward and back,
  the side it decides for is complete. A toggle with a marker left keeps this: the
  item is whole, or what the marker is about goes along (`SwappedMoves`). The instance of
  `store_recovery`, failing swaps included, satisfies `Hale`.
* `Tidied`: `CalmDiskIsCatalogue`, under `AreasApart`, `NoneUnder` and
  `Overlap = {}`, while updates and the recovery may fail and the process may be
  killed (`Steady`; after that the flag is down). `CalmInv` is about every path of every version
  of an item (`Tidy`): nothing outside its root; at its root exactly the version
  of its row, unless it is being updated; and then nothing but the new version
  and what its job will delete.

**Tracker** (`BackgroundProofs`). `Exclusive` and `Shown` (`OnceShown` together), for
systems in which
only finished tasks are dismissed. The invariant says that the running tasks
are exactly those of the workers, with the same ids, and that task ids are
fresh: with less, pruning or a second start would break it.

**Archive** (`ModZipCacheProofs`). `Exclusive` (one rebuild, and the flag says
so), `Traced` (at rest a stale archive means a failed rebuild or a dirty flag
set too late) and `Newer`. The invariant for `Traced` is a promise: with no
rebuild running, a stale archive that no failure explains has a caller or a
task on its way to the flag, or the flag itself; and a file list about to be
published is current, or that promise stands.

**Folder of the game** (`FolderProofs`), from `FolderAssumption`. `EachHasItsOwner` is
`FilesHaveOwners` under `CoreApart`, which is about data: no archive of an ordinary mod
holds a file of a core mod, and what one core mod brings is neither brought by
another nor in what is adopted for it. In the instance this holds, for one core mod lies
inside the other's directory and is in its list of exclusions (`CoreModsAreApart`). Without
it the next
start puts a core mod's file where another mod has its row. The invariant
(`FolderInv`) says that what an ordinary mod put into the folder is of the archive
it was installed from (`PutPart`); that once it has rows, each of its files in the
known directories has one (`RowPart`); that a core mod's files and rows are among
what it brings or may adopt (`CorePart`); and where adoption stands (`BootPart`).
`FolderTyped` is `FolderTypeOK` without `CoreApart`: a row is of a file that is there,
of a mod that is installed, also where core mods and archives overlap.

**Dependencies** (`FolderProofs`), from `ForgeAssumption` and `DepsAssumption`.
`DepsTyped`, and `Kept`: `NeedsAreKept`, for any trees, also with cycles, and any
numbers of mods, releases, handlers and commands.

* The walk (`WalkFields`): what was looked at so far is met by a conflict, a row or
  the list, or something that still has to be looked at stands for it, before the
  node that needs it. So a list that is finished is in order (`InOrder`): what a
  mod of it needs is installed or comes before it. The way back (`OrderFields`)
  stays in every set of rows that the edges do not lead out of.
* What is installed or was (`Past`) never shrinks, whatever the others do, so an
  errand's list stays in order across their steps (`SoundGrows`), and once it is empty
  all that its mod needs is in `Past`.
* Ids are not given out twice (`Ids`): what an errand remembers as a mod's row is
  that mod's or nobody's. So an edge it records leads to what its mod needs
  (`EdgePart`), and so does any number of edges after each other (`BelowAll`).

**Queue** (`ChangeQueueProofs`), from `QueueAssumption` and
`NoJobAssumption` (the sentinel is no job).

* `Typing`. The request of a job must be about a mod, so `Typed` adds to
  `TypeOK` that every request which exists is about one (`Asked`).
* `QueuedOnce`: `OneOpPerChange`. By `QueueSteps` only `Enqueue` adds an
  operation, and it looks under the lock of its insertion.
* `AppliedAlone`: `AppliesAlone`. The invariant is the property itself: a job
  gets into the phases of the apply only by `ClaimApply`, which finds no task
  running, and only the end of that job or a kill takes `Bulk` from `working`,
  because the other tasks end under the id of a mod.
* `NoneStranded`: `QueuedStaysBacked`. An operation names a request only if it is an
  install, and one id names one operation in the queue and in what is being
  applied and cancelled: so the one that a step takes out of the queue is the one in the
  hands of its job, and the request stays with that.
* `Rejected` and `Together`: `RejectedOnlyReopens` and `RowsMoveRequests` are
  properties of steps. The steps are first sorted by what they do to the status
  (`StatusSteps`) and to the rows (`RowSteps`).

**Users and notes** (`AdminProofs`). `ChecksHold`: `ManagerRemains` and
`CodeIsHeld` are inductive with the types and `FreshIds` (no row has an id that
is still to be given out, so a user who joins takes nobody's place). What
carries it is not the check of a handler but the one at its write, which is why
`Finish` is taken apart by what it writes. `AuthorsDecide` is a property of the
steps of `ApplyForm`, from the types of notes and forms.

**Profiles** (`AdminProofs`), from `PlayersAssumption`.

* `PlayersWellFormed`: no item comes to lie in itself, at any depth, whatever the game
  moves. The invariant is `Rooted`: of any items, some lies outside of these. So the way
  up (`WayUp`) is over after as many steps as there are items: otherwise it met an item
  twice (pigeonhole), and those in between would all lie in each other. That a move
  keeps it so is why `Place` looks before it moves an item into another.
* `ProfilesAre`: `ProfilesAgree`. The walk down from a place finds exactly the items
  whose way up ends there, because one step down is one step up from the other side.
  The sums by item, by template and by category then agree by the lemmas
  of `Numbers` about sums. That nobody comes to share a profile except by a race is a
  property of the steps that write `linkOf`.

**Forms** (`AdminProofs`), from `TablesFit`. `FormsKeep`: `FormsKeepSettings`. Its
invariant says which texts an open form can hold, by the kind of its input
(`FormsTyped`); then what comes back from the browser is looked at once for
every kind of input, not once for every setting.

**Configuration** (`AdminProofs`). `SettingsStay`, from three parts: while
nothing is blemished one thread at most is at work, the file has what was saved
last, and the copy of a saver differs from that in its own section alone. `OriginalStays`:
an editor that has put its first
snapshot into the work tree or the index has put the original there as long as
no version is committed, and the file changes only after one is.

`SettingsKept` is about the migration of old files, a recursion over the mods in
the order of their slugs. `GroupsInv` says that a mod is in one group at most and
that the predefined group is not for headless clients. Then one mod of the migration
(`MigrateTells`) is shown to bring its override into its own settings and to leave
the groups of the others and their settings as they are: a group that one
mod's override goes into has nobody else in it, and a group which a mod leaves
keeps its flags. This needs that the name it leaves for is its own, which the
property assumes of the file (`OwnNames`) and the migration of the other mods
must not break.

**Background** (`BackgroundProofs`), each component and all side by side.

* `RaidsTrue`: `RaidsAreTrue`, whose first two parts are `OneOpen` and `ToldOnce`.
  `TableInv` orders the rows of a player (the older one is closed, with the victims up to
  the start of the newer one); `TrackInv` ties the poller's memory to the open row and
  says that the profile counts every outcome the rows tell of. Without the
  ends that are still to come (`Told` of all rows but the tracked one is what
  was there at its start) an end could be told twice. The third part,
  `PagesAgree`, is of the queries: in the order of a page the rank of a row is the number of
  those before it, so every row is on exactly one leaf; and the count of all raids is the
  sum over the players because the rows of different players are different.
* `ReportsTrue` and `CachesTrue`. A check carries what it may still claim from
  step to step: what it listed is true of the rows, and what it scanned of the
  disk, as long as its generation is current and no operation is under way; for
  updates, a question and an answer are about the versions that are installed
  unless one changed unheard.
* `QueuedArchivesServe`: every file has one user at most (a queued operation or a
  drain), that user's file is there and is what was asked for. A lost or mixed
  file must be remembered by a ghost before it can be met.
* `FoldersServe`. `Sound`: the row of an item says where its file is unless a move parted
  them, an addon has its mod, and one with a folder of its own never moves.
  That one regeneration brings every enabled item to where the clients look for it
  is a second induction over the mods in their order (`AllLaidBringsHome`).
* `BackgroundTyped`: all of them at once, through `MCBackground`'s `part`.
  `BackgroundHolds`: every property of the run `background`, of the components side by
  side. A component at rest takes no step, so a behaviour of the whole is one of each
  (`BackgroundParts`), and what was proved of each holds.

**Records** (`RecordsProofs`).

* `PagesHold`. `BoxInv`: a transition that is shown has a handler of the server
  at work. `PresetInv`: the active preset is listed, and the unknown keys in memory are
  those it was given, also while an import under another name is shown; with less, a
  save after that import would write another preset's keys.
* `OnTheirMod`. An install carries the row of its mod across a download. That row is the mod's
  or nobody's any more: it was given out, ids are not given out twice, and no
  two mods have one (`Fits`, `RowsApart`).
* `WholeHistory`: the logs are chains from "pending" to the status (`StoryPart`), and
  a command that writes over a status which it has not read leaves the request
  among those that were overtaken.
* `FilesMatch` and `BackedUpFirst`. A path belongs to its item or to the
  mod of the item and the owner is there (`OwnPart`); unless something stopped,
  what is installed owns its path and the file is what the row says
  (`MatchPart`). A restore replaces both from a directory, so the directories are
  part of it: every file in one is of an item of its manifest, and, unless one
  was spoilt, what the manifest says (`RecordPart`). `BackedUpFirst` is about the steps: the
  backup of an
  operation is a new directory that holds the family as it was, and the
  retention of the same step takes an older one.
* `LogsComplete`: `LayerPart` (a layer that is not left to reload is as
  configured), `OrderPart` (rows and what is on its way to them are in the order
  of emission, and the ids suffice), `TallyPart` (the counts and what is still
  to be added to them are the table's), `PagePart` (a row at or above the top
  of the reader's first page stays, so no id below is given again).
* `RecordsTyped` is `RecordsTypeOK`, and `RecordsHold` every other property of the run
  `records`, of the fourteen components side by side (`RecordsAreParts`).

**Recursion.** What `AllLaid`, `MigratedGroups`, `Walk`, `Dependents`, `Levels` and `WayUp`
compute is a recursive function over an interval, and the library's induction takes an
operator as parameter. The proofs use the least counterexample instead: a set of numbers
that is not empty has a least element (`LeastNat`, from the well-foundedness of finite
subsets), so the function exists, and of the mods that break an invariant there would be
a first. Sums (`SumFunctionOnSet`) are recursive over sets, one element chosen at a time.
`Numbers` characterises them by the smallest set for which a claim would fail: the
sum over the empty set is 0, an element adds its value, and hence sums over disjoint
unions and over partitions add up.

**What proving found in the models.** No property turned out to be false, but some
models said more, or less, than they meant. In `Accounts`, `Backups`,
`RequestBoard` and `SvmForms` the guards of a CASE overlapped, so TLC took the first
where the logic leaves it open; they are disjoint now. Assumptions on the
constants were only in the instances (the sentinels are no records, bounds are
numbers, the orders of slugs and mods have no duplicates, ids of requests are
numbers): they are stated in `ConfigStore`, `Notes`, `UpdateNews`, `UrlQueue`,
`SyncLayout`, `SyncGroups`, `GameServer`, `ModStore`, `ChangeQueue`, `AddonChanges`,
`RequestBoard`, `Backups`, `Logs`, `GameFolder` and `Dependencies` now. `AddonChanges`
had its queue as a sequence, whose filtering cannot be reasoned about, and `Logs`
its tally as the length of a filtered sequence: they are a set in the order of ids,
and the number of positions with a level. `Dependencies` and `PlayerPages` walked their trees by
RECURSIVE operators; they take them step by step now, and the runs have the same states.
`Raids` and `PlayerPages` sum by the functions of the library that have a definition which
can be reasoned about. In `GameFolder` nothing said that the mark for what is not installed
is not the one for what was adopted, and in `PlayerPages` not that "nobody" is no id and
no place: the types need both.

**Only model-checked.** Of the invariants and action properties none; each is stated by
a theorem, some of the store's under hypotheses on the constants (above), `ShownOnce` for
`~DismissAny` and `FilesHaveOwners` under `CoreApart`. What the runs' instances must satisfy
for the theorems to be about them is in their modules, and TLC evaluates it on every run:
`Hale` for `store_recovery` (`MCWatchedStore`), `ArchivesApart` for `store_shared`
(`MCModStore`), `CoreApart` for `records` (`MCFolder`). What stays with TLC:

* Liveness (`DirtyIsHonoured`, `EventuallyQuiet`) is out of the prover's reach.
* `TablesFit` is a closed formula about two tables of 816 settings, which TLC evaluates
  whenever it runs `records`.

## 5. Plan

1. `ChangeQueue`: the command line as a second process that queues Forge mods.
2. `ModStore`: the migration of old `.disabled` files; worker panics in
   `TaskTracker`.

## 6. Not modelled

The Forge, GitHub and Fika clients, health pages, templates and the set-up: input
and output, or sequential forms, without the concurrency, failure and ordering
this project is about. How a caller deals with an answer or a failure of these
clients is in the component that asks.

Of the modelled components: log-in, sessions and reset tokens; Fika's settings;
the exclusions and extra paths of sync groups; the operations on Forge mods that
commands queue; the creation of containers; hashes, limits and the formats of
archives; the live log stream, its search and the rotation of the log file; the
hideout, quests and skills of a profile; the refresh of request descriptions;
the migration of `.disabled` files. PROJECT.json lists the components with the
reason, and the parts that are planned.
