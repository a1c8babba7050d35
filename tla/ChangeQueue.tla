---------------------------- MODULE ChangeQueue ----------------------------
(***************************************************************************)
(* What happens between the moment somebody wants a mod and the moment the *)
(* row says so: mod requests with their status, the change queue     *)
(* (pending_operations) that collects the changes wanted while the game    *)
(* server runs, the handlers that decide whether to queue a change or to   *)
(* make it, the task that applies the queue, the drain of a server         *)
(* restart, and the cancelling of a queued operation.                      *)
(*                                                                         *)
(* The database mutex is held for one query or one operation of ops.rs at  *)
(* a time; every .await of a handler is a point where all the others may   *)
(* run, and so the end of an action here.  An installed mod is its row id  *)
(* (ModStore has its files and versions), a running task its id            *)
(* (TaskTracker has the rest of it).                                       *)
(***************************************************************************)
EXTENDS Naturals, FiniteSets

CONSTANTS
  Mods,        \* Forge mod ids
  Requests,    \* ids of mod requests
  Procs,       \* handlers and spawned tasks that may be in flight
  Bulk,        \* the task id of apply_queue (0 in the code)
  MaxOps,      \* bound on the operations ever queued
  Rows,        \* ids of rows of installed_mods
  None

ASSUME QueueAssumption ==
  /\ Bulk \notin Mods
  /\ None \notin Requests
  /\ None \notin Rows
  /\ MaxOps \in Nat

VARIABLES
  row,        \* row[m]: id of the installed mod, None if it is not installed
  queue,      \* the rows of pending_operations
  nextOp,     \* AUTOINCREMENT of pending_operations
  about,      \* about[r]: the mod request r is about; None: no such request
  status,     \* status[r], "none" for no such request
  serverUp,   \* whether the game server runs
  working,    \* the ids of the running tasks
  jobs,       \* the handlers and tasks in flight, by process
  alive       \* whether Quartermaster runs

vars == <<row, queue, nextOp, about, status, serverUp, working, jobs, alive>>
pending == <<queue, nextOp>>
wishes == <<about, status>>

Acts == {"install", "update", "remove"}
RequestStatus == {"pending", "approved", "queued", "installed", "rejected"}
Op == [id : 1..MaxOps, act : Acts, mod : Mods, req : Requests \cup {None}]

Change == [at : {"ask", "enqueue", "work", "settle"}, act : Acts, mod : Mods,
           row : Rows \cup {None}, req : Requests \cup {None}]
Drain == [at : {"list", "claim", "apply", "unqueue", "mark"}, task : BOOLEAN,
          ops : SUBSET Op]
Cancel == [at : {"delete", "restore"}, op : Op, to : {"approved", "rejected"}]

ASSUME NoJobAssumption == None \notin Change \cup Drain \cup Cancel

At(p, stage) == jobs[p] # None /\ jobs[p].at = stage
GoTo(p, stage) == jobs' = [jobs EXCEPT ![p].at = stage]
Begins(p, job) == alive /\ jobs[p] = None /\ jobs' = [jobs EXCEPT ![p] = job]
Ends(p) == jobs' = [jobs EXCEPT ![p] = None]

TypeOK ==
  /\ row \in [Mods -> Rows \cup {None}]
  /\ queue \subseteq Op /\ nextOp \in 1..(MaxOps + 1)
  /\ about \in [Requests -> Mods \cup {None}]
  /\ status \in [Requests -> RequestStatus \cup {"none"}]
  /\ serverUp \in BOOLEAN
  /\ working \subseteq Mods \cup {Bulk}
  /\ jobs \in [Procs -> Change \cup Drain \cup Cancel \cup {None}]
  /\ alive \in BOOLEAN

Init ==
  /\ row = [m \in Mods |-> None]
  /\ queue = {} /\ nextOp = 1
  /\ about = [r \in Requests |-> None]
  /\ status = [r \in Requests |-> "none"]
  /\ serverUp \in BOOLEAN
  /\ working = {}
  /\ jobs = [p \in Procs |-> None]
  /\ alive = TRUE

-----------------------------------------------------------------------------
(* The requests                                                            *)

\* transition_request_status: a request moves only from the states the caller
\* expects, in one transaction; otherwise nothing happens.
AnyStatus(r, from) == status[r] # "none"
Expected(r, from) == status[r] \in from

Moved(S, from, to) ==
  [r \in Requests |-> IF r \in S /\ Expected(r, from) THEN to ELSE status[r]]

For(m) == {r \in Requests : about[r] = m}
Active(m) ==
  {r \in For(m) : status[r] \in {"pending", "approved", "queued", "installed"}}

CreateRequest(r, m) ==
  /\ alive
  /\ status[r] = "none"
  /\ row[m] = None
  /\ Active(m) = {}
  /\ about' = [about EXCEPT ![r] = m]
  /\ status' = [status EXCEPT ![r] = "pending"]
  /\ UNCHANGED <<row, pending, serverUp, working, jobs, alive>>

Wish(r) == [at |-> "ask", act |-> "install", mod |-> about[r], row |-> None, req |-> r]

\* Approving a request may go on to install it; the request is read again on
\* the way, but its status is not looked at.
ApproveRequest(p, r, install) ==
  /\ alive
  /\ status[r] = "pending"
  /\ status' = Moved({r}, {"pending"}, "approved")
  /\ IF install THEN Begins(p, Wish(r)) ELSE UNCHANGED jobs
  /\ UNCHANGED <<about, row, pending, serverUp, working, alive>>

RejectRequest(r) ==
  /\ alive
  /\ status[r] \in {"pending", "approved"}
  /\ status' = Moved({r}, {"pending", "approved"}, "rejected")
  /\ UNCHANGED <<about, row, pending, serverUp, working, jobs, alive>>

ReopenRequest(r) ==
  /\ alive
  /\ status[r] = "rejected"
  /\ status' = Moved({r}, {"rejected"}, "pending")
  /\ UNCHANGED <<about, row, pending, serverUp, working, jobs, alive>>

\* install_all_approved lists the approved requests and then installs one after
\* the other; what becomes of a request after the listing is not looked at.
InstallApproved(p, r) ==
  /\ status[r] = "approved"
  /\ Begins(p, Wish(r))
  /\ UNCHANGED <<wishes, row, pending, serverUp, working, alive>>

-----------------------------------------------------------------------------
(* A change: queued if the server runs, otherwise made                     *)

\* What the handler is told about the server: a failed probe counts as stopped,
\* and with queue_changes off nobody asks.
Probe == {serverUp, FALSE}

\* install_mod refuses what is installed; update_mod and remove_mod look the
\* mod up by its row.
AskChange(p, act, m) ==
  /\ (act = "install") <=> (row[m] = None)
  /\ Begins(p, [at |-> "ask", act |-> act, mod |-> m, row |-> row[m], req |-> None])
  /\ UNCHANGED <<wishes, row, pending, serverUp, working, alive>>

\* If the server is stopped, a removal is made by the handler itself; the others
\* are handed to a task, unless one for that mod is running (start_if_not_running).
NotRunning(m) == m \notin working

Decide(p) ==
  /\ At(p, "ask")
  /\ \E up \in Probe :
       IF up \/ jobs[p].act = "remove"
       THEN GoTo(p, IF up THEN "enqueue" ELSE "work") /\ UNCHANGED working
       ELSE IF NotRunning(jobs[p].mod)
       THEN GoTo(p, "work") /\ working' = working \cup {jobs[p].mod}
       ELSE Ends(p) /\ UNCHANGED working
  /\ UNCHANGED <<wishes, row, pending, serverUp, alive>>

\* has_pending_op
QueuedAtAll(act, m) == \E o \in queue : o.mod = m /\ o.req # None
Queued(act, m) == \E o \in queue : o.act = act /\ o.mod = m

\* The look-up, the insertion and the transition of the request are made under
\* one lock; the transition may find that the request is no longer approved.
Enqueue(p) ==
  /\ At(p, "enqueue")
  /\ Ends(p)
  /\ LET c == jobs[p] IN
       IF Queued(c.act, c.mod) THEN UNCHANGED <<pending, status>>
       ELSE
         /\ nextOp <= MaxOps
         /\ queue' = queue \cup {[id |-> nextOp, act |-> c.act, mod |-> c.mod, req |-> c.req]}
         /\ nextOp' = nextOp + 1
         /\ status' = Moved({c.req}, {"approved"}, "queued")
  /\ UNCHANGED <<about, row, serverUp, working, alive>>

\* The tails of install_mod_from_archive and remove_mod_by_id: the row first,
\* then the requests for the mod.
Installed == {m \in Mods : row[m] # None}

\* AUTOINCREMENT: the id of a new row is held by no row and by no job.
Held == {row[m] : m \in Mods}
        \cup {jobs[p].row : p \in {q \in Procs : jobs[q] \in Change}}

InsertRow(m) ==
  \E i \in Rows \ Held : row' = [row EXCEPT ![m] = i]

QueuedOfInstalled(m) == Moved(For(m), {"queued"}, "installed")
RequestsOfInstalled(m) == Moved(For(m), {"approved", "queued"}, "installed")

DeleteModRows(S) ==
  row' = [m \in Mods |-> IF m \in S THEN None ELSE row[m]]

RequestsMarkedRemoved(S) == Moved(UNION {For(m) : m \in S}, {"installed"}, "removed")
RequestsOfRemoved(S) == Moved(UNION {For(m) : m \in S}, {"installed"}, "approved")

Install(p) ==
  /\ At(p, "work") /\ jobs[p].act = "install"
  /\ row[jobs[p].mod] = None
  /\ InsertRow(jobs[p].mod)
  /\ status' = RequestsOfInstalled(jobs[p].mod)
  /\ GoTo(p, "settle")
  /\ UNCHANGED <<about, pending, serverUp, working, alive>>

Update(p) ==
  /\ At(p, "work") /\ jobs[p].act = "update"
  /\ row[jobs[p].mod] = jobs[p].row
  /\ GoTo(p, "settle")
  /\ UNCHANGED <<wishes, row, pending, serverUp, working, alive>>

Remove(p) ==
  /\ At(p, "work") /\ jobs[p].act = "remove"
  /\ row[jobs[p].mod] = jobs[p].row
  /\ DeleteModRows({jobs[p].mod})
  /\ status' = RequestsOfRemoved({jobs[p].mod})
  /\ Ends(p)
  /\ UNCHANGED <<about, pending, serverUp, working, alive>>

\* The tail of resolve_and_install_deps: the install of a mod outside Mods, or the
\* command line, brings m along.
InstallDependency(m) ==
  /\ row[m] = None
  /\ InsertRow(m)
  /\ status' = RequestsOfInstalled(m)
  /\ UNCHANGED <<about, pending, serverUp, working, jobs, alive>>

\* The last lines of the task: the request it was started for, if any, is moved
\* once more, and the task completes.
Settle(p) ==
  /\ At(p, "settle")
  /\ status' = Moved({jobs[p].req}, {"approved"}, "installed")
  /\ working' = working \ {jobs[p].mod}
  /\ Ends(p)
  /\ UNCHANGED <<about, row, pending, serverUp, alive>>

-----------------------------------------------------------------------------
(* Applying the queue: as a task, or in the restart of the server          *)

\* A server that is seen running is a reason to refuse; a failed probe is not.
AskApply(p) ==
  /\ FALSE \in Probe
  /\ Begins(p, [at |-> "list", task |-> TRUE, ops |-> {}])
  /\ UNCHANGED <<wishes, row, pending, serverUp, working, alive>>

\* The server is stopped first; the queue is applied if auto_drain_on_lifecycle.
AskRestart(p, drain) ==
  /\ Begins(p, [at |-> IF drain THEN "list" ELSE "apply", task |-> FALSE, ops |-> {}])
  /\ serverUp' = FALSE
  /\ UNCHANGED <<wishes, row, pending, working, alive>>

ListOps(p) ==
  /\ At(p, "list")
  /\ jobs' = [jobs EXCEPT ![p].ops = queue,
                          ![p].at = IF jobs[p].task THEN "claim" ELSE "apply"]
  /\ UNCHANGED <<wishes, row, pending, serverUp, working, alive>>

\* start_if_no_active
NoModActive == working \subseteq {Bulk}
NoneActive == working = {}

ClaimApply(p) ==
  /\ At(p, "claim")
  /\ IF NoneActive THEN GoTo(p, "apply") /\ working' = {Bulk}
     ELSE Ends(p) /\ UNCHANGED working
  /\ UNCHANGED <<wishes, row, pending, serverUp, alive>>

\* ORDER BY queued_at: as they were inserted.
First(S) == CHOOSE o \in S : \A x \in S : o.id <= x.id

Applying(p, act) ==
  /\ At(p, "apply") /\ jobs[p].ops # {}
  /\ First(jobs[p].ops).act = act

Current(p) == First(jobs[p].ops).mod

\* An installed mod is left as it is, and the operation counts as applied.
ApplyInstall(p) ==
  /\ Applying(p, "install")
  /\ IF row[Current(p)] # None THEN UNCHANGED <<row, status>>
     ELSE InsertRow(Current(p)) /\ status' = RequestsOfInstalled(Current(p))
  /\ GoTo(p, "unqueue")
  /\ UNCHANGED <<about, pending, serverUp, working, alive>>

ApplyUpdate(p) ==
  /\ Applying(p, "update")
  /\ row[Current(p)] # None
  /\ GoTo(p, "unqueue")
  /\ UNCHANGED <<wishes, row, pending, serverUp, working, alive>>

\* A failed operation stays in the queue, and the next one is tried; a handler
\* that fails is gone, and its task, if it has one, is marked failed.
Done(p) == [jobs[p] EXCEPT !.at = "apply", !.ops = @ \ {First(@)}]

Failing(p) ==
  \/ /\ At(p, "work")
     /\ Ends(p)
     /\ working' = IF jobs[p].act = "remove" THEN working ELSE working \ {jobs[p].mod}
  \/ /\ At(p, "apply") /\ jobs[p].ops # {}
     /\ jobs' = [jobs EXCEPT ![p] = Done(p)]
     /\ UNCHANGED working

\* The download fails, the row is taken or gone, an I/O error.
Fails(p) ==
  /\ Failing(p)
  /\ UNCHANGED <<wishes, row, pending, serverUp, alive>>

\* Before the mod go the mods that depend on it, whichever they are; an error on
\* the way leaves some of them removed.
ApplyRemove(p) ==
  /\ Applying(p, "remove")
  /\ row[Current(p)] # None
  /\ \E dependents \in SUBSET (Installed \ {Current(p)}) :
       \/ /\ DeleteModRows(dependents \cup {Current(p)})
          /\ status' = RequestsOfRemoved(dependents \cup {Current(p)})
          /\ GoTo(p, "unqueue") /\ UNCHANGED working
       \/ /\ DeleteModRows(dependents)
          /\ status' = RequestsOfRemoved(dependents)
          /\ Failing(p)
  /\ UNCHANGED <<about, pending, serverUp, alive>>

WithoutMod(i) == {o \in queue : \A x \in queue : x.id = i => o.mod # x.mod}
Without(i) == {o \in queue : o.id # i}

\* The restart goes on with the next operation, the task with the request.
Unqueue(p) ==
  /\ At(p, "unqueue")
  /\ queue' = Without(First(jobs[p].ops).id)
  /\ IF jobs[p].task THEN GoTo(p, "mark")
     ELSE jobs' = [jobs EXCEPT ![p] = Done(p)]
  /\ UNCHANGED <<wishes, row, nextOp, serverUp, working, alive>>

MarkApplied(p) ==
  /\ At(p, "mark")
  /\ LET o == First(jobs[p].ops) IN
       status' = CASE o.act = "install" -> Moved({o.req}, {"queued"}, "installed")
                   [] o.act = "remove" -> Moved(For(o.mod), {"installed"}, "approved")
                   [] OTHER -> status
  /\ jobs' = [jobs EXCEPT ![p] = Done(p)]
  /\ UNCHANGED <<about, row, pending, serverUp, working, alive>>

\* The task ends; the restart starts the server, which may fail.
EndApply(p) ==
  /\ At(p, "apply") /\ jobs[p].ops = {}
  /\ IF jobs[p].task THEN working' = working \ {Bulk} /\ UNCHANGED serverUp
     ELSE serverUp' \in {serverUp, TRUE} /\ UNCHANGED working
  /\ Ends(p)
  /\ UNCHANGED <<wishes, row, pending, alive>>

-----------------------------------------------------------------------------
(* Cancelling a queued operation                                           *)

\* cancel_op puts its request back to approved, cancel_and_reject_op rejects it.
AskCancel(p, o, to) ==
  /\ Begins(p, [at |-> "delete", op |-> o, to |-> to])
  /\ UNCHANGED <<wishes, row, pending, serverUp, working, alive>>

CancelDelete(p) ==
  /\ At(p, "delete")
  /\ queue' = Without(jobs[p].op.id)
  /\ GoTo(p, "restore")
  /\ UNCHANGED <<wishes, row, nextOp, serverUp, working, alive>>

CancelRestore(p) ==
  /\ At(p, "restore")
  /\ status' = Moved({jobs[p].op.req}, {"queued"}, jobs[p].to)
  /\ Ends(p)
  /\ UNCHANGED <<about, row, pending, serverUp, working, alive>>

-----------------------------------------------------------------------------
(* The game server and the Quartermaster process                           *)

\* start_server and stop_server ask nobody; the server may also be started and
\* stopped from outside, or die.
StartServer ==
  /\ ~serverUp /\ serverUp' = TRUE
  /\ UNCHANGED <<wishes, row, pending, working, jobs, alive>>

StopServer ==
  /\ serverUp /\ serverUp' = FALSE
  /\ UNCHANGED <<wishes, row, pending, working, jobs, alive>>

\* Quartermaster is killed: handlers and tasks are gone.
Killed ==
  /\ jobs' = [p \in Procs |-> None]
  /\ working' = {}
  /\ alive' = FALSE

Crash ==
  /\ alive
  /\ Killed
  /\ UNCHANGED <<wishes, row, pending, serverUp>>

Restart ==
  /\ ~alive /\ alive' = TRUE
  /\ UNCHANGED <<wishes, row, pending, serverUp, working, jobs>>

\* The commit of a row and the transition of its requests are two transactions.
\* Between them an install moves its files, which may fail, and both may be killed.
Installing(p, m) ==
  /\ row[m] = None
  /\ \/ At(p, "work") /\ jobs[p].act = "install" /\ jobs[p].mod = m
     \/ Applying(p, "install") /\ Current(p) = m

InstallHalts(p) ==
  /\ \E m \in Mods : Installing(p, m) /\ InsertRow(m)
  /\ Killed \/ (Failing(p) /\ UNCHANGED alive)
  /\ UNCHANGED <<wishes, pending, serverUp>>

\* The dependents that are gone already have had their requests moved.
Removing(p, m, gone) ==
  \/ /\ At(p, "work") /\ jobs[p].act = "remove"
     /\ jobs[p].mod = m /\ jobs[p].row = row[m] /\ gone = {}
  \/ /\ Applying(p, "remove") /\ row[Current(p)] # None
     /\ Current(p) \notin gone /\ m \notin gone

RemoveHalts(p) ==
  /\ \E m \in Installed, gone \in SUBSET Installed :
       /\ Removing(p, m, gone)
       /\ DeleteModRows(gone \cup {m})
       /\ status' = RequestsOfRemoved(gone)
  /\ Killed
  /\ UNCHANGED <<about, pending, serverUp>>

-----------------------------------------------------------------------------
RequestStep ==
  \/ \E r \in Requests, m \in Mods : CreateRequest(r, m)
  \/ \E p \in Procs, r \in Requests, install \in BOOLEAN : ApproveRequest(p, r, install)
  \/ \E r \in Requests : RejectRequest(r) \/ ReopenRequest(r)
  \/ \E p \in Procs, r \in Requests : InstallApproved(p, r)

ChangeStep(p) ==
  \/ \E act \in Acts, m \in Mods : AskChange(p, act, m)
  \/ Decide(p) \/ Enqueue(p)
  \/ Install(p) \/ Update(p) \/ Remove(p) \/ Fails(p) \/ Settle(p)

ApplyStep(p) ==
  \/ AskApply(p) \/ (\E drain \in BOOLEAN : AskRestart(p, drain)) \/ ListOps(p) \/ ClaimApply(p)
  \/ ApplyInstall(p) \/ ApplyUpdate(p) \/ ApplyRemove(p)
  \/ Unqueue(p) \/ MarkApplied(p) \/ EndApply(p)

CancelStep(p) ==
  \/ \E o \in queue, to \in {"approved", "rejected"} : AskCancel(p, o, to)
  \/ CancelDelete(p) \/ CancelRestore(p)

Next ==
  \/ RequestStep
  \/ \E p \in Procs : ChangeStep(p) \/ ApplyStep(p) \/ CancelStep(p)
  \/ \E m \in Mods : InstallDependency(m)
  \/ StartServer \/ StopServer \/ Crash \/ Restart
  \/ \E p \in Procs : InstallHalts(p) \/ RemoveHalts(p)

Spec == Init /\ [][Next]_vars

-----------------------------------------------------------------------------
(* Properties                                                              *)

\* No change is queued twice by the dashboard: several handlers may decide, at
\* the same time, to queue the same change of the same mod (a request and an
\* install form, two updates), and has_pending_op decides under the lock of the
\* insertion.
OneOpPerChange ==
  \A o, x \in queue : o.act = x.act /\ o.mod = x.mod => o = x

\* A queued request is stranded when its operation is gone and nobody is about to
\* move it: it can be neither cancelled (there is no operation) nor rejected
\* (resolve_request takes pending and approved ones only).  Cancelling, applying
\* and installing, in whatever order, strand nobody; only the drain of a restart,
\* which never looks at requests, and a kill at the wrong moment do.
Backed(r) ==
  \/ status[r] # "queued"
  \/ \E o \in queue : o.req = r
  \/ \E p \in Procs : At(p, "restore") /\ jobs[p].op.req = r
  \/ \E p \in Procs : At(p, "mark") /\ First(jobs[p].ops).req = r

QueuedStaysBacked ==
  [][\/ \A r \in Requests : Backed(r) => Backed(r)'
     \/ \E p \in Procs : Unqueue(p) /\ ~jobs[p].task
     \/ ~alive']_vars

\* At most one task applies the queue, and while its apply runs the tracker shows
\* the bulk task, so that a second one is refused.
AppliesAlone ==
  \A p, q \in Procs :
    (\A s \in {p, q} : jobs[s] # None /\ jobs[s].at \in {"apply", "unqueue", "mark"}
                       /\ jobs[s].task)
      => p = q /\ Bulk \in working

\* No late step of an install, a drain or a cancel brings a rejected request back:
\* it leaves that state only by being reopened.
RejectedOnlyReopens ==
  [][\A r \in Requests :
       status[r] = "rejected" => status'[r] \in {"rejected", "pending"}]_status

\* Unless an install or a removal halts between its two transactions, the
\* row and the requests move together: the step that makes a mod appear
\* leaves no request for it waiting, and the step that makes it disappear leaves
\* none that says installed, whoever makes the step.
Halting == \E p \in Procs : InstallHalts(p) \/ RemoveHalts(p)

RowsMoveRequests ==
  [][\/ \A m \in Mods :
          /\ row[m] = None /\ row'[m] # None
               => \A r \in For(m) : status'[r] \notin {"approved", "queued"}
          /\ row[m] # None /\ row'[m] = None
               => \A r \in For(m) : status'[r] # "installed"
     \/ Halting]_vars
=============================================================================
