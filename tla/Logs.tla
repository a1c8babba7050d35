-------------------------------- MODULE Logs --------------------------------
(***************************************************************************)
(* The dashboard's own log: the layers of the subscriber and their reload  *)
(* (src/src/logging/mod.rs), the writer that moves entries into the        *)
(* database in batches and keeps a count per level (logging/writer.rs,     *)
(* db/logs.rs), and a reader who pages through it (web/handlers/logs.rs).  *)
(* Levels are numbers, the more verbose the greater.                       *)
(***************************************************************************)
EXTENDS Naturals, Sequences, FiniteSets

CONSTANTS
  LogConfs,   \* [logging] as saved: [level, console, file, web], file 0 when disabled
  LogFlags,   \* --log-level, -v and RUST_LOG of a start: [all, verbose, env]
  EntryLevels,\* levels of the entries that are kept apart
  MaxLogged,  \* bound on the entries ever emitted
  LogBatch,   \* a batch that is written at once (100 in the code)
  PageRows    \* limit of a page

Error == 1
Info == 3
Debug == 4
Trace == 5
LogLevels == Error..Trace
Unnamed == 0  \* a filter without a level for this target; a layer that is off

LevelOrOff == LogLevels \cup {Unnamed}
LogFilter == [all : LevelOrOff, own : LevelOrOff]

ASSUME LogAssumption ==
  /\ EntryLevels \subseteq LogLevels
  /\ PageRows \in Nat \ {0} /\ LogBatch \in Nat \ {0} /\ MaxLogged \in Nat
  /\ LogConfs \subseteq [level : LogLevels, console : BOOLEAN, file : LevelOrOff, web : LogLevels]
  /\ \A flags \in LogFlags :
       flags.all \in LevelOrOff /\ flags.verbose \in Nat /\ flags.env \in Seq(LogFilter)

VARIABLES
  logConf,   \* [logging] in force
  logFilter, \* the filter string it was resolved to: [all, own]
  layers,    \* what the layers let through: [floor, ownFloor, console, file]
  reload,    \* what is left to reload
  logged,    \* how many entries were emitted
  backlog,   \* the unbounded channel to the writer
  batch,     \* what the writer holds
  logRows,   \* log_entries: a set of [id, level, born]
  counts,    \* LogLevelCounts
  uncounted, \* a batch in the table, its counts still to be added
  stale,     \* the last counting of the table failed
  writer,    \* down, starting, running, stopping
  reader,    \* a page: [top, cursor, seen, more], or Away
  idsReused  \* the table was emptied under the reader

logVars == <<logConf, logFilter, layers, reload, logged, backlog, batch, logRows, counts,
             uncounted, stale, writer, reader, idsReused>>
layerVars == <<logConf, logFilter, layers, reload>>
writerVars == <<backlog, batch, logRows, counts, uncounted, stale, writer>>
readVars == <<reader, idsReused>>

Away == [top |-> 0, cursor |-> 0, seen |-> {}, more |-> FALSE]
MostOf(s) == CHOOSE l \in s : \A k \in s : k <= l
FirstNamed(l, k) == IF l = Unnamed THEN k ELSE l

LogEvent == [level : EntryLevels, born : 1..MaxLogged]
LogRow == [id : 1..MaxLogged, level : EntryLevels, born : 1..MaxLogged]
Layers == [floor : LogLevels, ownFloor : LogLevels, console : LevelOrOff, file : LevelOrOff]
ReaderPage == [top : Nat, cursor : Nat, seen : SUBSET LogRow, more : BOOLEAN]

LogsTypeOK ==
  /\ logConf \in LogConfs /\ logFilter \in LogFilter /\ reload \subseteq {"floor", "console", "file"}
  /\ layers \in Layers /\ layers.ownFloor >= layers.floor
  /\ logged \in 0..MaxLogged
  /\ {backlog, batch, uncounted} \subseteq Seq(LogEvent) /\ Len(batch) <= LogBatch
  /\ logRows \subseteq LogRow /\ \A r, s \in logRows : r.id = s.id => r = s
  /\ counts \in [EntryLevels -> Nat] /\ stale \in BOOLEAN
  /\ writer \in {"down", "starting", "running", "stopping"}
  /\ reader \in ReaderPage /\ idsReused \in BOOLEAN

------------------------------------------------------------------------------
(* Which events reach which layer                                          *)

\* --log-level wins over everything; -v and -vv only set the level of this crate.
ResolveLogFilter(c, flags) ==
  LET base == IF flags.env # <<>> THEN flags.env[1] ELSE [all |-> c.level, own |-> Debug]
  IN IF flags.all # Unnamed THEN [all |-> flags.all, own |-> Unnamed]
     ELSE CASE flags.verbose = 0 -> base
            [] flags.verbose = 1 -> [base EXCEPT !.own = Debug]
            [] OTHER -> [base EXCEPT !.own = Trace]

\* The floor lets through what the most permissive layer needs, and DEBUG of this crate.
ComputeFloorFilter(c, f) ==
  LET floor == MostOf({Error, f.all, f.own, c.web} \cup {c.file})
  IN [all |-> floor, own |-> MostOf({floor, Debug})]

ParseDefaultLevel(f) == FirstNamed(f.all, Info)

\* The three handles are reloaded one after the other, while others log.
Reconfigure(c, f) ==
  logConf' = c /\ logFilter' = f /\ reload' = {"floor", "console", "file"}

ReloadFloor ==
  /\ "floor" \in reload /\ reload' = reload \ {"floor"}
  /\ LET floor == ComputeFloorFilter(logConf, logFilter)
     IN layers' = [layers EXCEPT !.floor = floor.all, !.ownFloor = floor.own]
  /\ UNCHANGED <<logConf, logFilter, logged, writerVars, readVars>>

ReloadConsole ==
  /\ reload = {"console", "file"} /\ reload' = {"file"}
  /\ layers' = [layers EXCEPT !.console = IF logConf.console THEN ParseDefaultLevel(logFilter) ELSE Unnamed]
  /\ UNCHANGED <<logConf, logFilter, logged, writerVars, readVars>>

ReloadFile ==
  /\ reload = {"file"} /\ reload' = {}
  /\ layers' = [layers EXCEPT !.file = logConf.file]
  /\ UNCHANGED <<logConf, logFilter, logged, writerVars, readVars>>

\* The form resolves the filter without the flags of the command line.
NoFlags(env) == [all |-> Unnamed, verbose |-> 0, env |-> env]
SaveLoggingSettings(c) ==
  /\ writer = "running" /\ reload = {} /\ c # logConf
  /\ \E flags \in LogFlags : Reconfigure(c, ResolveLogFilter(c, NoFlags(flags.env)))
  /\ UNCHANGED <<layers, logged, writerVars, readVars>>

------------------------------------------------------------------------------
(* The writer                                                              *)

NoCounts == [l \in EntryLevels |-> 0]
CountsOf(rows) == [l \in EntryLevels |-> Cardinality({r \in rows : r.level = l})]
Tally(s) == [l \in EntryLevels |-> Cardinality({i \in DOMAIN s : s[i].level = l})]
Plus(c, d) == [l \in EntryLevels |-> c[l] + d[l]]
\* id is INTEGER PRIMARY KEY without AUTOINCREMENT.
LastId(rows) == IF rows = {} THEN 0 ELSE MostOf({r.id : r \in rows})

\* The layers before the configuration is known.
FirstLayers == [floor |-> Info, ownFloor |-> Debug, console |-> Info, file |-> Unnamed]

LogsInit ==
  /\ logConf \in LogConfs /\ logFilter = [all |-> Info, own |-> Debug]
  /\ layers = FirstLayers /\ reload = {}
  /\ logged = 0 /\ backlog = <<>> /\ batch = <<>> /\ logRows = {} /\ counts = NoCounts
  /\ uncounted = <<>> /\ stale = FALSE /\ writer = "down"
  /\ reader = Away /\ idsReused = FALSE

\* serve: the subscriber, its configuration, the counts of the table.
ServeLogs ==
  /\ writer = "down" /\ writer' = "starting"
  /\ \E flags \in LogFlags : Reconfigure(logConf, ResolveLogFilter(logConf, flags))
  /\ counts' = CountsOf(logRows) /\ stale' = FALSE
  /\ UNCHANGED <<layers, logged, backlog, batch, logRows, uncounted, readVars>>

\* An event that passes the floor is sent to the writer, whatever logging.web.level.
Emit(l, own) ==
  /\ writer \in {"starting", "running", "stopping"} /\ logged < MaxLogged
  /\ l <= IF own THEN layers.ownFloor ELSE layers.floor
  /\ logged' = logged + 1
  /\ backlog' = Append(backlog, [level |-> l, born |-> logged + 1])
  /\ UNCHANGED <<layerVars, batch, logRows, counts, uncounted, stale, writer, readVars>>

Deleted(rows) == logRows' = logRows \ rows /\ idsReused' = (idsReused \/ (logRows \subseteq rows /\ reader # Away))

\* By age or by count, the oldest go first.
Oldest(rows) == \A r \in rows, s \in logRows : s.born < r.born => s \in rows

\* At the start, and once a day: as far as retention_days, max_entries or a failure
\* let it.  Counting may fail: the counts stay as they are.
PruneLogs ==
  /\ writer \in {"starting", "running"} /\ uncounted = <<>>
  /\ \E rows \in SUBSET logRows :
       /\ Oldest(rows) /\ Deleted(rows)
       /\ \/ counts' = CountsOf(logRows \ rows) /\ stale' = FALSE
          \/ UNCHANGED counts /\ stale' = TRUE
  /\ writer' = "running"
  /\ UNCHANGED <<layerVars, logged, backlog, batch, uncounted, reader>>

ReceiveLog ==
  /\ writer = "running" /\ uncounted = <<>> /\ backlog # <<>> /\ Len(batch) < LogBatch
  /\ batch' = Append(batch, Head(backlog)) /\ backlog' = Tail(backlog)
  /\ UNCHANGED <<layerVars, logged, logRows, counts, uncounted, stale, writer, readVars>>

InsertLogBatch(s) ==
  logRows' = logRows \cup {[id |-> LastId(logRows) + i, level |-> s[i].level, born |-> s[i].born] : i \in DOMAIN s}

FlushBatchCounted ==  \* Mutant: counted whether it is inserted or not.
  /\ writer = "running" /\ uncounted = <<>> /\ batch # <<>>
  /\ InsertLogBatch(batch) \/ UNCHANGED logRows
  /\ uncounted' = batch /\ batch' = <<>>
  /\ UNCHANGED <<layerVars, logged, backlog, counts, stale, writer, readVars>>

\* The batch is taken; if it cannot be inserted, it is lost and not counted.
FlushBatch ==
  /\ writer = "running" /\ uncounted = <<>> /\ batch # <<>>
  /\ \/ InsertLogBatch(batch) /\ uncounted' = batch
     \/ UNCHANGED <<logRows, uncounted>>
  /\ batch' = <<>>
  /\ UNCHANGED <<layerVars, logged, backlog, counts, stale, writer, readVars>>

\* Still under the lock of the database.
AddCounts ==
  /\ uncounted # <<>> /\ uncounted' = <<>>
  /\ counts' = Plus(counts, Tally(uncounted))
  /\ UNCHANGED <<layerVars, logged, backlog, batch, logRows, stale, writer, readVars>>

\* serve sends the message and goes on: it does not wait for the writer.
ShutdownWriter ==
  /\ writer = "running" /\ writer' = "stopping"
  /\ UNCHANGED <<layerVars, logged, backlog, batch, logRows, counts, uncounted, stale, readVars>>

DrainLogs ==
  /\ writer = "stopping" /\ uncounted = <<>> /\ batch \o backlog # <<>>
  /\ \/ InsertLogBatch(batch \o backlog) /\ uncounted' = batch \o backlog
     \/ UNCHANGED <<logRows, uncounted>>
  /\ batch' = <<>> /\ backlog' = <<>>
  /\ UNCHANGED <<layerVars, logged, counts, stale, writer, readVars>>

\* The process ends, or is killed; what was not written is lost.
EndServe ==
  /\ writer # "down" /\ writer' = "down"
  /\ backlog' = <<>> /\ batch' = <<>> /\ uncounted' = <<>> /\ counts' = NoCounts /\ stale' = FALSE
  /\ reload' = {} /\ layers' = FirstLayers /\ logFilter' = [all |-> Info, own |-> Debug]
  /\ UNCHANGED <<logConf, logged, logRows, readVars>>

------------------------------------------------------------------------------
(* A reader                                                                *)

OlderThan(cursor) == {r \in logRows : r.id < cursor}
\* ORDER BY id DESC LIMIT; one row more tells whether there are others.
QueryLogs(rows) == {r \in rows : Cardinality({s \in rows : s.id > r.id}) < PageRows}
Least(rows) == CHOOSE i \in {r.id : r \in rows} : \A r \in rows : i <= r.id

LoadInitialLogs ==
  /\ writer = "running" /\ uncounted = <<>> /\ logRows # {}
  /\ LET page == QueryLogs(logRows) IN
       reader' = [top |-> LastId(logRows), cursor |-> Least(page), seen |-> page, more |-> page # logRows]
  /\ idsReused' = FALSE
  /\ UNCHANGED <<layerVars, logged, writerVars>>

LoadOlderLogs ==
  /\ writer = "running" /\ uncounted = <<>> /\ reader # Away /\ reader.more
  /\ LET rows == OlderThan(reader.cursor) page == QueryLogs(rows) IN
       reader' = [reader EXCEPT !.cursor = IF page = {} THEN @ ELSE Least(page),
                                !.seen = @ \cup page, !.more = page # rows]
  /\ UNCHANGED <<layerVars, logged, writerVars, idsReused>>

LogsNext ==
  \/ ServeLogs \/ ReloadFloor \/ ReloadConsole \/ ReloadFile
  \/ \E c \in LogConfs : SaveLoggingSettings(c)
  \/ \E l \in EntryLevels, own \in BOOLEAN : Emit(l, own)
  \/ PruneLogs \/ ReceiveLog \/ FlushBatch \/ AddCounts \/ ShutdownWriter \/ DrainLogs \/ EndServe
  \/ LoadInitialLogs \/ LoadOlderLogs

LogsSpec == LogsInit /\ [][LogsNext]_logVars

------------------------------------------------------------------------------
\* Whatever is flushed, lost, pruned or drained meanwhile, the counts on the page
\* are those of the table whenever the database is free, unless counting failed.
CountsAreRows == writer # "down" /\ uncounted = <<>> /\ ~stale => counts = CountsOf(logRows)

\* Page after page, a reader is shown every row that is still there from the first
\* page down to the cursor, and is told of more as long as there is some.
PagesAreWhole ==
  reader # Away /\ ~idsReused =>
    /\ \A r \in logRows : r.id \in reader.cursor..reader.top => r \in reader.seen
    /\ ~reader.more => OlderThan(reader.cursor) = {}

\* Between two reloads, a layer gets every event of the level it is set to.
LayersAreServed ==
  writer # "down" /\ reload = {} =>
    /\ layers.file <= layers.floor /\ logConf.web <= layers.floor
    /\ logFilter.all # Unnamed => layers.console <= layers.floor

LogsAreComplete == CountsAreRows /\ PagesAreWhole /\ LayersAreServed
=============================================================================
