-------------------------- MODULE IntegrityChecks --------------------------
(***************************************************************************)
(* The integrity report of the dashboard: IntegrityCache                   *)
(* (src/src/web/integrity_cache.rs), the pages that ask for it and the mod *)
(* operations that invalidate it (src/src/web/handlers/mods.rs).  A check  *)
(* claims `running`, reads the generation, lists the tracked files under   *)
(* the database lock and then scans the disk without it; operations change *)
(* the disk and the rows under the lock and raise the generation some time *)
(* after they released it.  Disk and rows are numbers that count changes.  *)
(***************************************************************************)
EXTENDS Naturals

CONSTANTS
  Changers,    \* tasks that change mods
  MaxChanges,  \* bound on the changes
  NoReport     \* no check, no report

ASSUME IntegrityAssumption == MaxChanges \in Nat

VARIABLES
  rowsAt,      \* the tracked files, as a number
  diskAt,      \* the files on disk, as a number
  changing,    \* changer -> idle, locked (disk changed), changed (rows too)
  generation,
  report,      \* the cached report, or NoReport
  running,     \* IntegrityCache::running
  check,       \* the check under way, or NoReport
  unheard      \* the last change to the files was not followed by an invalidation

integrityVars == <<rowsAt, diskAt, changing, generation, report, running, check, unheard>>

Changes == 0..MaxChanges
Report == [rows : Changes, disk : Changes, generation : Nat, expired : BOOLEAN]

IntegrityInit ==
  /\ rowsAt = 0 /\ diskAt = 0
  /\ changing = [c \in Changers |-> "idle"]
  /\ generation = 0 /\ report = NoReport
  /\ running = FALSE /\ check = NoReport /\ unheard = FALSE

\* is_stale: no report, a later generation, or the time to live is over.
IsStale ==
  \/ report = NoReport
  \/ report # NoReport /\ (report.generation # generation \/ report.expired)

Locked == \E c \in Changers : changing[c] = "locked"

------------------------------------------------------------------------------
(* Operations on mods                                                      *)

ChangeDisk(c) ==
  /\ changing[c] = "idle" /\ ~Locked /\ diskAt < MaxChanges
  /\ changing' = [changing EXCEPT ![c] = "locked"]
  /\ diskAt' = diskAt + 1
  /\ UNCHANGED <<rowsAt, generation, report, running, check, unheard>>

ChangeRows(c) ==
  /\ changing[c] = "locked"
  /\ changing' = [changing EXCEPT ![c] = "changed"]
  /\ rowsAt' = diskAt
  /\ UNCHANGED <<diskAt, generation, report, running, check, unheard>>

\* The install of a request, of a URL, and every command of another process, ends
\* without a word to the integrity cache.
EndUnheard(c) ==
  /\ changing[c] = "changed"
  /\ changing' = [changing EXCEPT ![c] = "idle"]
  /\ unheard' = TRUE
  /\ UNCHANGED <<rowsAt, diskAt, generation, report, running, check>>

\* invalidate: every later look finds the report stale, also one under way.
Raised == generation + 1
Invalidate(c) ==
  /\ changing[c] = "changed"
  /\ changing' = [changing EXCEPT ![c] = "idle"]
  /\ generation' = Raised
  /\ unheard' = FALSE
  /\ UNCHANGED <<rowsAt, diskAt, report, running, check>>

------------------------------------------------------------------------------
(* The check                                                               *)

\* A page finds the report stale, or a user asks for a new check (which raises the
\* generation first), and start_check wins the compare_exchange.
StartCheck(again) ==
  /\ ~running /\ (again \/ IsStale)
  /\ again => generation < MaxChanges
  /\ generation' = IF again THEN Raised ELSE generation
  /\ unheard' = (unheard /\ ~again)
  /\ running' = TRUE
  /\ UNCHANGED <<rowsAt, diskAt, changing, report, check>>

\* generation_at_start
ReadGeneration ==
  /\ running /\ check = NoReport
  /\ check' = [at |-> "list", generation |-> generation, rows |-> 0, disk |-> 0]
  /\ UNCHANGED <<rowsAt, diskAt, changing, generation, report, running, unheard>>

ListFiles ==
  /\ check # NoReport /\ check.at = "list" /\ ~Locked
  /\ check' = [check EXCEPT !.at = "scan", !.rows = rowsAt]
  /\ UNCHANGED <<rowsAt, diskAt, changing, generation, report, running, unheard>>

ScanDisk ==
  /\ check # NoReport /\ check.at = "scan"
  /\ check' = [check EXCEPT !.at = "complete", !.disk = diskAt]
  /\ UNCHANGED <<rowsAt, diskAt, changing, generation, report, running, unheard>>

\* complete_check stores the report under the generation at the start.
StampNow == generation  \* mutant: under the generation at the end
Stamp == check.generation
CompleteCheck ==
  /\ check # NoReport /\ check.at = "complete"
  /\ report' = [rows |-> check.rows, disk |-> check.disk,
                generation |-> Stamp, expired |-> FALSE]
  /\ check' = NoReport /\ running' = FALSE
  /\ UNCHANGED <<rowsAt, diskAt, changing, generation, unheard>>

\* The list or the scan fails.
CheckFails ==
  /\ check # NoReport /\ check.at \in {"list", "scan"}
  /\ check' = NoReport /\ running' = FALSE
  /\ UNCHANGED <<rowsAt, diskAt, changing, generation, report, unheard>>

ReportExpires ==
  /\ report # NoReport
  /\ report' = [report EXCEPT !.expired = TRUE]
  /\ UNCHANGED <<rowsAt, diskAt, changing, generation, running, check, unheard>>

IntegrityNext ==
  \/ \E c \in Changers :
       ChangeDisk(c) \/ ChangeRows(c) \/ EndUnheard(c) \/ Invalidate(c)
  \/ \E again \in BOOLEAN : StartCheck(again)
  \/ ReadGeneration \/ ListFiles \/ ScanDisk \/ CompleteCheck \/ CheckFails
  \/ ReportExpires

IntegritySpec == IntegrityInit /\ [][IntegrityNext]_integrityVars

------------------------------------------------------------------------------
IntegrityTypeOK ==
  /\ rowsAt \in Changes /\ diskAt \in Changes
  /\ changing \in [Changers -> {"idle", "locked", "changed"}]
  /\ generation \in Nat
  /\ report = NoReport \/ report \in Report
  /\ {running, unheard} \subseteq BOOLEAN
  /\ check # NoReport => running

\* A report that the pages take for fresh compares the rows and the files as they
\* are, however the check met the operations, unless an operation is still to say
\* that it is done or one ended without saying so.
FreshIsTrue ==
  (~IsStale /\ ~unheard /\ \A c \in Changers : changing[c] = "idle") =>
    report.rows = rowsAt /\ report.disk = diskAt
=============================================================================
