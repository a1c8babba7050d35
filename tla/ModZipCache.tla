---------------------------- MODULE ModZipCache ----------------------------
(***************************************************************************)
(* The cache of the all-mods archive (src/src/web/mod_zip_cache.rs).       *)
(* Whoever changes the installed files or the configuration calls          *)
(* invalidate afterwards.  The first caller starts a rebuild on the        *)
(* blocking pool; one that finds a rebuild running sets the dirty flag and *)
(* leaves the rest to it.  The two flags are separate atomics, so what     *)
(* lies between two accesses to them is a step of its own.                 *)
(*                                                                         *)
(* The enabled files and the setup_zip settings together are a number that *)
(* grows with every change; the archive is the number it was listed from.  *)
(***************************************************************************)
EXTENDS Naturals

CONSTANTS
  Callers,     \* request handlers and background tasks
  Workers,     \* bound on the rebuild tasks alive at a time
  MaxContent,  \* bound on the changes
  Empty,       \* the contents with no file in them: no archive is kept
  MaxRestarts, \* bound on the restarts of the process
  Faults,      \* how a rebuild may go wrong: "error", "panic"
  NoZip

ASSUME CacheAssumption ==
  /\ MaxContent \in Nat /\ MaxRestarts \in Nat
  /\ 0 \in Empty /\ Empty \subseteq 0..MaxContent
  /\ Faults \subseteq {"error", "panic"}
  /\ NoZip \notin 0..MaxContent

VARIABLES
  content,     \* what is installed and enabled now
  zip,         \* all-mods.zip
  rebuilding,  \* Inner.rebuilding
  dirty,       \* Inner.dirty
  caller,      \* where each caller is
  worker,      \* where each rebuild task is
  listed,      \* the content its file list was read from
  failed,      \* the last rebuild that ended did not publish
  restarts     \* how often the process has restarted

vars == <<content, zip, rebuilding, dirty, caller, worker, listed, failed, restarts>>

Content == 0..MaxContent
Image(v) == IF v \in Empty THEN NoZip ELSE v
Fresh == zip = Image(content)

\* "invalidate": about to call it; "mark": its compare_exchange failed and the
\* store to dirty is still to come.  Rebuild tasks go through it as well.
CallerPhases == {"idle", "invalidate", "mark"}
WorkerPhases == {"free", "clear", "list", "write", "again", "invalidate", "mark"}

Init ==
  /\ content = 0
  /\ zip = NoZip
  /\ rebuilding = FALSE
  /\ dirty = FALSE
  /\ caller = [c \in Callers |-> "idle"]
  /\ worker = [w \in Workers |-> "free"]
  /\ listed = [w \in Workers |-> 0]
  /\ failed = FALSE
  /\ restarts = 0

------------------------------------------------------------------------------
\* A caller commits a change; the call of invalidate follows.
Change(c) ==
  /\ caller[c] = "idle"
  /\ content < MaxContent
  /\ content' = content + 1
  /\ caller' = [caller EXCEPT ![c] = "invalidate"]
  /\ UNCHANGED <<restarts, zip, rebuilding, dirty, worker, listed, failed>>

\* compare_exchange(false, true) and, if it succeeds, the spawn of a task.
TestOnly == ~rebuilding /\ UNCHANGED rebuilding  \* mutant: load and branch, no exchange
Acquire == ~rebuilding /\ rebuilding' = TRUE

CallerStarts(c) ==
  /\ caller[c] = "invalidate"
  /\ Acquire
  /\ caller' = [caller EXCEPT ![c] = "idle"]
  /\ \E w \in Workers :
       worker[w] = "free" /\ worker' = [worker EXCEPT ![w] = "clear"]
  /\ UNCHANGED <<restarts, content, zip, dirty, listed, failed>>

CallerFindsRebuild(c) ==
  /\ caller[c] = "invalidate"
  /\ rebuilding
  /\ caller' = [caller EXCEPT ![c] = "mark"]
  /\ UNCHANGED <<restarts, content, zip, rebuilding, dirty, worker, listed, failed>>

\* dirty.store(true)
Unmarked == dirty' = dirty  \* mutant: the flag is not set
Marked == dirty' = TRUE

CallerMarks(c) ==
  /\ caller[c] = "mark"
  /\ Marked
  /\ caller' = [caller EXCEPT ![c] = "idle"]
  /\ UNCHANGED <<restarts, content, zip, rebuilding, worker, listed, failed>>

------------------------------------------------------------------------------
(* do_rebuild and build_cache                                               *)
Goto(w, phase) == worker' = [worker EXCEPT ![w] = phase]

ClearDirty(w) ==
  /\ worker[w] = "clear"
  /\ dirty' = FALSE
  /\ Goto(w, "list")
  /\ UNCHANGED <<restarts, content, zip, rebuilding, caller, listed, failed>>

\* get_all_enabled_mod_files under the database mutex, and the settings.
ListFiles(w) ==
  /\ worker[w] = "list"
  /\ listed' = [listed EXCEPT ![w] = content]
  /\ Goto(w, "write")
  /\ UNCHANGED <<restarts, content, zip, rebuilding, dirty, caller, failed>>

\* The temporary file is written and renamed over the archive (or the archive
\* removed), and the guard is dropped.
Publish(w) ==
  /\ worker[w] = "write"
  /\ zip' = Image(listed[w])
  /\ failed' = FALSE
  /\ rebuilding' = FALSE
  /\ Goto(w, "again")
  /\ UNCHANGED <<restarts, content, dirty, caller, listed>>

\* An error is logged; the guard is dropped and the task goes on.
BuildFails(w) ==
  /\ "error" \in Faults
  /\ worker[w] \in {"list", "write"}
  /\ failed' = TRUE
  /\ rebuilding' = FALSE
  /\ Goto(w, "again")
  /\ UNCHANGED <<restarts, content, zip, dirty, caller, listed>>

\* A panic drops the guard as well, but ends the task.
BuildPanics(w) ==
  /\ "panic" \in Faults
  /\ worker[w] \in {"list", "write"}
  /\ failed' = TRUE
  /\ rebuilding' = FALSE
  /\ Goto(w, "free")
  /\ UNCHANGED <<restarts, content, zip, dirty, caller, listed>>

\* if dirty.swap(false): invalidate
Keep(w) == Goto(w, "free")  \* mutant: the flag is taken and nothing is done
Always(w) == Goto(w, "invalidate")  \* mutant: without the test
Follow(w) == IF dirty THEN Goto(w, "invalidate") ELSE Goto(w, "free")

SwapDirty(w) ==
  /\ worker[w] = "again"
  /\ Follow(w)
  /\ dirty' = FALSE
  /\ UNCHANGED <<restarts, content, zip, rebuilding, caller, listed, failed>>

\* The new task takes the place of this one, which ends.
WorkerStarts(w) ==
  /\ worker[w] = "invalidate"
  /\ Acquire
  /\ Goto(w, "clear")
  /\ UNCHANGED <<restarts, content, zip, dirty, caller, listed, failed>>

WorkerFindsRebuild(w) ==
  /\ worker[w] = "invalidate"
  /\ rebuilding
  /\ Goto(w, "mark")
  /\ UNCHANGED <<restarts, content, zip, rebuilding, dirty, caller, listed, failed>>

WorkerMarks(w) ==
  /\ worker[w] = "mark"
  /\ Marked
  /\ Goto(w, "free")
  /\ UNCHANGED <<restarts, content, zip, rebuilding, caller, listed, failed>>

\* The process ends and starts again: the flags are gone, the archive stays and
\* what is installed may have changed; serve warms the cache.
Restart ==
  /\ restarts < MaxRestarts
  /\ restarts' = restarts + 1
  /\ content' \in {content, content + 1} \cap Content
  /\ caller' = [c \in Callers |-> "idle"]
  /\ dirty' = FALSE
  /\ rebuilding' = TRUE
  /\ \E w \in Workers :
       worker' = [x \in Workers |-> IF x = w THEN "clear" ELSE "free"]
  /\ UNCHANGED <<zip, listed, failed>>

------------------------------------------------------------------------------
CallerStep(c) ==
  \/ CallerStarts(c) \/ CallerFindsRebuild(c) \/ CallerMarks(c)

WorkerStep(w) ==
  \/ ClearDirty(w) \/ ListFiles(w)
  \/ Publish(w) \/ BuildFails(w) \/ BuildPanics(w)
  \/ SwapDirty(w) \/ WorkerStarts(w) \/ WorkerFindsRebuild(w) \/ WorkerMarks(w)

Next ==
  \/ \E c \in Callers : Change(c) \/ CallerStep(c)
  \/ \E w \in Workers : WorkerStep(w)
  \/ Restart

Spec == Init /\ [][Next]_vars

\* Threads are scheduled: what has begun goes on.
FairSpec ==
  /\ Spec
  /\ \A c \in Callers : WF_vars(CallerStep(c))
  /\ \A w \in Workers : WF_vars(WorkerStep(w))

------------------------------------------------------------------------------
TypeOK ==
  /\ content \in Content
  /\ zip \in Content \cup {NoZip}
  /\ rebuilding \in BOOLEAN /\ dirty \in BOOLEAN /\ failed \in BOOLEAN
  /\ caller \in [Callers -> CallerPhases]
  /\ worker \in [Workers -> WorkerPhases]
  /\ listed \in [Workers -> Content]
  /\ restarts \in 0..MaxRestarts

Building(w) == worker[w] \in {"clear", "list", "write"}

\* The temporary file has one writer: the flag is up exactly while one task is
\* between its compare_exchange and the drop of its guard.
OneBuilder ==
  /\ \A w, x \in Workers : Building(w) /\ Building(x) => w = x
  /\ rebuilding <=> \E w \in Workers : Building(w)

Quiet ==
  /\ \A c \in Callers : caller[c] = "idle"
  /\ \A w \in Workers : worker[w] = "free"

\* When nobody is at work, a stale archive has left a trace: the last rebuild
\* failed, or the dirty flag is up (see QuietIsFresh for how that can be).
StaleLeavesTrace == Quiet /\ ~dirty /\ ~failed => Fresh

\* What the comment of invalidate promises: with a rebuild in progress, a follow-up
\* runs when it finishes, so that at rest the archive is fresh if no rebuild failed.
QuietIsFresh == Quiet /\ ~failed => Fresh

\* An archive is never replaced by one listed from an older content.
NeverOlder ==
  [][zip # NoZip /\ zip' # NoZip => zip' >= zip]_vars

\* No task is between the drop of its guard and its end.
NoTail == \A w \in Workers : worker[w] = "free" \/ Building(w)

\* A dirty flag that is up during a rebuild is honoured, provided no other task is
\* on its way out: a file list as new as the content of that moment is read, or
\* has been, or else a rebuild failed.  (A task on its way out may take the flag,
\* find the rebuild still running, and put the flag back too late.)
DirtyIsHonoured ==
  \A v \in Content :
    (rebuilding /\ dirty /\ NoTail /\ content = v) ~>
      (failed \/ \E w \in Workers : listed[w] >= v)

\* Every rebuild ends and every caller gets on: once the changes stop there is no
\* endless chain of tasks that set the dirty flag for each other.
EventuallyQuiet == <>[]Quiet
=============================================================================
