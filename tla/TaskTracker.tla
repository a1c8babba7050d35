---------------------------- MODULE TaskTracker ----------------------------
(***************************************************************************)
(* The task tracker of the dashboard (src/src/web/tasks.rs) and the        *)
(* background workers its callers spawn.  A handler asks the tracker for a *)
(* task; if it gets one it spawns a worker at once, and the worker ends    *)
(* with complete or fail.  The tracker is one mutex, so each call is one   *)
(* action.  Tasks are named by the Forge id of the mod or addon they work  *)
(* on; the bulk operations and the installs from a URL all use the id 0.   *)
(***************************************************************************)
EXTENDS Naturals, FiniteSets

CONSTANTS
  Ids,           \* Forge ids, Zero included
  Zero,          \* the id of bulk operations and URL installs
  Cap,           \* how many finished tasks are kept (20)
  MaxTasks,      \* bound on the tasks ever started
  DismissAny     \* FALSE: a task is dismissed by its button, which the page
                 \* shows for a finished one only; the endpoint takes any id

ASSUME TrackerAssumption ==
  /\ Zero \in Ids
  /\ Cap \in Nat /\ MaxTasks \in Nat
  /\ DismissAny \in BOOLEAN

VARIABLES
  tasks,     \* the tracked tasks, as records
  nextId,    \* the id of the next one
  workers    \* the spawned futures that have not ended: [task, id, bulk]

vars == <<tasks, nextId, workers>>

Statuses == {"running", "completed", "failed"}
TaskInfo == [task : 1..MaxTasks, id : Ids, status : Statuses]
Worker == [task : 1..MaxTasks, id : Ids, bulk : BOOLEAN]

Running(ts) == {t \in ts : t.status = "running"}
Finished(ts) == {t \in ts : t.status # "running"}

Init == tasks = {} /\ nextId = 1 /\ workers = {}

\* Insert a running task and, in the caller, spawn its worker: there is no await
\* between the two.
Start(id, bulk) ==
  /\ nextId <= MaxTasks
  /\ nextId' = nextId + 1
  /\ tasks' = tasks \cup {[task |-> nextId, id |-> id, status |-> "running"]}
  /\ workers' = workers \cup {[task |-> nextId, id |-> id, bulk |-> bulk]}

\* The check of start_if_not_running ...
NotFinished(id) == \A t \in Running(tasks) : t.task # id  \* mutant: task for Forge id
NotRunning(id) == \A t \in Running(tasks) : t.id # id

\* ... and the two calls: one for a single mod, addon or URL, one for the bulk
\* operations (update all, apply queue).
StartIfNotRunning(id) == NotRunning(id) /\ Start(id, FALSE)
StartIfNoActive == Running(tasks) = {} /\ Start(Zero, TRUE)

\* prune_old keeps the Cap newest finished tasks, and every running one.
PrunedAny(ts) ==  \* mutant: forgets to leave the running ones alone
  {t \in ts : Cardinality({u \in ts : u.task > t.task}) < Cap}
Pruned(ts) ==
  {t \in ts : t \in Finished(ts) =>
     Cardinality({u \in Finished(ts) : u.task > t.task}) < Cap}

\* complete and fail: the status changes if the task is still tracked.
Finish(w, status) ==
  /\ workers' = workers \ {w}
  /\ tasks' = Pruned({IF t.task = w.task THEN [t EXCEPT !.status = status] ELSE t : t \in tasks})
  /\ UNCHANGED nextId

Complete(w) == Finish(w, "completed")
Fail(w) == Finish(w, "failed")

Dismiss(t) ==
  /\ DismissAny \/ t.status # "running"
  /\ tasks' = tasks \ {t}
  /\ UNCHANGED <<nextId, workers>>

Next ==
  \/ \E id \in Ids : StartIfNotRunning(id)
  \/ StartIfNoActive
  \/ \E w \in workers : Complete(w) \/ Fail(w)
  \/ \E t \in tasks : Dismiss(t)

Spec == Init /\ [][Next]_vars

------------------------------------------------------------------------------
TypeOK ==
  /\ tasks \subseteq TaskInfo
  /\ nextId \in 1..(MaxTasks + 1)
  /\ workers \subseteq Worker

\* The reason for the atomic check: no two workers work on the same mod, addon or
\* URL install at the same time, and no two bulk operations run together.
OneWorkerPerId ==
  \A w, x \in workers : w # x => w.id # x.id

\* The dashboard never forgets a task that is still being worked on, and never
\* shows one as running that is not: pruning and dismissing take finished ones.
ShownIsWorked ==
  {t.task : t \in Running(tasks)} = {w.task : w \in workers}

\* Both: whatever runs is on the page, once, and whatever is on the page runs.
ShownOnce == OneWorkerPerId /\ ShownIsWorked
=============================================================================
