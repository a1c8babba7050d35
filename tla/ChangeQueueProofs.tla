------------------------- MODULE ChangeQueueProofs -------------------------
(***************************************************************************)
(* The safety of the change queue, for every set of mods, requests and     *)
(* processes.  OneOpPerChange and AppliesAlone are inductive once the      *)
(* state is well typed; RejectedOnlyReopens and RowsMoveRequests follow    *)
(* from the only place that writes a status, Moved.                        *)
(***************************************************************************)
EXTENDS ChangeQueue, Numbers, TLAPS

Job == Change \cup Drain \cup Cancel \cup {None}

\* The stage of a job tells what kind of job it is.
LEMMA Stages ==
  ASSUME TypeOK, NEW p \in Procs, jobs[p] # None
  PROVE  /\ jobs[p].at \in {"ask", "enqueue", "work", "settle"} => jobs[p] \in Change
         /\ jobs[p].at \in {"list", "claim", "apply", "unqueue", "mark"} => jobs[p] \in Drain
         /\ jobs[p].at \in {"delete", "restore"} => jobs[p] \in Cancel
<1>1. jobs[p] \in Change \cup Drain \cup Cancel  BY DEF TypeOK
<1>2. CASE jobs[p] \in Change
  <2>1. jobs[p].at \in {"ask", "enqueue", "work", "settle"}  BY <1>2 DEF Change
  <2> QED  BY <1>2, <2>1
<1>3. CASE jobs[p] \in Drain
  <2>1. jobs[p].at \in {"list", "claim", "apply", "unqueue", "mark"}  BY <1>3 DEF Drain
  <2> QED  BY <1>3, <2>1
<1>4. CASE jobs[p] \in Cancel
  <2>1. jobs[p].at \in {"delete", "restore"}  BY <1>4 DEF Cancel
  <2> QED  BY <1>4, <2>1
<1> QED  BY <1>1, <1>2, <1>3, <1>4

\* A job keeps its kind when it goes to another stage of that kind.
LEMMA Goes ==
  /\ \A j \in Change : \A s \in {"ask", "enqueue", "work", "settle"} :
       [j EXCEPT !.at = s] \in Change
  /\ \A j \in Drain : \A s \in {"list", "claim", "apply", "unqueue", "mark"} :
       [j EXCEPT !.at = s] \in Drain
  /\ \A j \in Cancel : \A s \in {"delete", "restore"} : [j EXCEPT !.at = s] \in Cancel
BY DEF Change, Drain, Cancel

LEMMA JobsTyped ==
  ASSUME TypeOK, NEW p \in Procs, NEW j \in Job, jobs' = [jobs EXCEPT ![p] = j]
  PROVE  jobs' \in [Procs -> Job]
BY DEF TypeOK, Job

\* A request that exists is about a mod.
Asked == \A r \in Requests : status[r] # "none" => about[r] \in Mods

Typed == TypeOK /\ Asked

\* Every transition leaves a status, and creates no request.
LEMMA MovedTyped ==
  ASSUME Typed, NEW S, NEW from \in SUBSET RequestStatus, NEW to \in RequestStatus
  PROVE  /\ Moved(S, from, to) \in [Requests -> RequestStatus \cup {"none"}]
         /\ \A r \in Requests : Moved(S, from, to)[r] # "none" => status[r] # "none"
BY DEF Typed, TypeOK, Moved, Expected, RequestStatus

LEMMA WishesMoved ==
  ASSUME Typed, NEW S, NEW from \in SUBSET RequestStatus, NEW to \in RequestStatus,
         status' = Moved(S, from, to), about' = about
  PROVE  /\ about' \in [Requests -> Mods \cup {None}]
         /\ status' \in [Requests -> RequestStatus \cup {"none"}]
         /\ Asked'
BY MovedTyped DEF Typed, TypeOK, Asked

LEMMA WishesKept ==
  ASSUME Typed, UNCHANGED wishes
  PROVE  /\ about' \in [Requests -> Mods \cup {None}]
         /\ status' \in [Requests -> RequestStatus \cup {"none"}]
         /\ Asked'
BY DEF Typed, TypeOK, Asked, wishes

\* A deleted or an inserted row leaves the catalogue well typed.
LEMMA RowsTyped ==
  ASSUME TypeOK
  PROVE  /\ \A m : InsertRow(m) => row' \in [Mods -> Rows \cup {None}]
         /\ \A S : DeleteModRows(S) => row' \in [Mods -> Rows \cup {None}]
BY DEF TypeOK, InsertRow, DeleteModRows

LEMMA FailingTyped ==
  ASSUME TypeOK, NEW p \in Procs, Failing(p)
  PROVE  jobs' \in [Procs -> Job] /\ working' \in SUBSET (Mods \cup {Bulk})
<1>1. CASE At(p, "work") /\ Ends(p)
           /\ working' = IF jobs[p].act = "remove" THEN working ELSE working \ {jobs[p].mod}
  BY <1>1, JobsTyped DEF TypeOK, Ends, Job
<1>2. CASE At(p, "apply") /\ jobs' = [jobs EXCEPT ![p] = Done(p)] /\ UNCHANGED working
  <2>1. jobs[p] \in Drain  BY <1>2, Stages DEF At
  <2>2. Done(p) \in Drain  BY <2>1 DEF Done, Drain
  <2> QED  BY <1>2, <2>2, JobsTyped DEF TypeOK, Job
<1> QED  BY <1>1, <1>2 DEF Failing

LEMMA KilledTyped ==
  ASSUME Killed
  PROVE  /\ jobs' \in [Procs -> Job] /\ working' \in SUBSET (Mods \cup {Bulk})
         /\ alive' \in BOOLEAN
BY DEF Killed, Job

LEMMA RequestTyped ==
  ASSUME Typed, RequestStep
  PROVE  Typed'
<1>1. ASSUME NEW r \in Requests, status[r] # "none"
      PROVE  Wish(r) \in Job
  BY <1>1 DEF Typed, Asked, Wish, Change, Acts, Job
<1>2. ASSUME NEW r \in Requests, NEW m \in Mods, CreateRequest(r, m)
      PROVE  Typed'
  <2>1. TypeOK'  BY <1>2 DEF Typed, TypeOK, CreateRequest, RequestStatus, pending
  <2>2. Asked'  BY <1>2 DEF Typed, TypeOK, Asked, CreateRequest
  <2> QED  BY <2>1, <2>2 DEF Typed
<1>3. ASSUME NEW p \in Procs, NEW r \in Requests, NEW install \in BOOLEAN,
             ApproveRequest(p, r, install)
      PROVE  Typed'
  <2>1. jobs' \in [Procs -> Job]
    BY <1>1, <1>3, JobsTyped DEF ApproveRequest, Begins, Typed, TypeOK, Job
  <2>2. {"pending"} \in SUBSET RequestStatus /\ "approved" \in RequestStatus
    BY DEF RequestStatus
  <2> QED  BY <1>3, <2>1, <2>2, WishesMoved DEF ApproveRequest, Typed, TypeOK, Job, pending
<1>4. ASSUME NEW r \in Requests, RejectRequest(r) \/ ReopenRequest(r)
      PROVE  Typed'
  <2>1. /\ {"pending", "approved"} \in SUBSET RequestStatus
        /\ {"rejected"} \in SUBSET RequestStatus
        /\ "pending" \in RequestStatus /\ "rejected" \in RequestStatus
    BY DEF RequestStatus
  <2>2. Asked' /\ about' \in [Requests -> Mods \cup {None}]
        /\ status' \in [Requests -> RequestStatus \cup {"none"}]
    BY <1>4, <2>1, WishesMoved DEF RejectRequest, ReopenRequest
  <2> QED  BY <1>4, <2>2 DEF RejectRequest, ReopenRequest, Typed, TypeOK, pending
<1>5. ASSUME NEW p \in Procs, NEW r \in Requests, InstallApproved(p, r)
      PROVE  Typed'
  <2>1. jobs' \in [Procs -> Job]
    BY <1>1, <1>5, JobsTyped DEF InstallApproved, Begins, Typed
  <2> QED  BY <1>5, <2>1, WishesKept DEF InstallApproved, Typed, TypeOK, Job, pending
<1> QED  BY <1>2, <1>3, <1>4, <1>5 DEF RequestStep

LEMMA EnqueueTyped ==
  ASSUME Typed, NEW p \in Procs, Enqueue(p)
  PROVE  Typed'
<1>. DEFINE c == jobs[p]
<1>1. c \in Change  BY Stages DEF Enqueue, At, Typed
<1>2. jobs' \in [Procs -> Job]  BY JobsTyped DEF Enqueue, Ends, Job, Typed
<1>3. CASE Queued(c.act, c.mod)
  BY <1>2, <1>3, WishesKept DEF Enqueue, Typed, TypeOK, Job, pending, wishes
<1>4. CASE ~Queued(c.act, c.mod)
  <2>. DEFINE o == [id |-> nextOp, act |-> c.act, mod |-> c.mod, req |-> c.req]
  <2>1. /\ nextOp <= MaxOps /\ nextOp' = nextOp + 1
        /\ queue' = queue \cup {o}
        /\ status' = Moved({c.req}, {"approved"}, "queued")
    BY <1>4 DEF Enqueue
  <2>2. nextOp \in 1..MaxOps /\ nextOp' \in 1..(MaxOps + 1)
    BY <2>1, QueueAssumption DEF Typed, TypeOK
  <2>3. o \in Op  BY <1>1, <2>2 DEF Op, Change
  <2>4. {"approved"} \in SUBSET RequestStatus /\ "queued" \in RequestStatus
    BY DEF RequestStatus
  <2>5. /\ Asked' /\ about' \in [Requests -> Mods \cup {None}]
        /\ status' \in [Requests -> RequestStatus \cup {"none"}]
    BY <2>1, <2>4, WishesMoved DEF Enqueue
  <2> QED  BY <1>2, <2>1, <2>2, <2>3, <2>5 DEF Enqueue, Typed, TypeOK, Job
<1> QED  BY <1>3, <1>4

LEMMA ChangeTyped ==
  ASSUME Typed, NEW p \in Procs, ChangeStep(p)
  PROVE  Typed'
<1>0. TypeOK /\ Asked  BY DEF Typed
<1>1. ASSUME NEW act \in Acts, NEW m \in Mods, AskChange(p, act, m)
      PROVE  Typed'
  <2>1. [at |-> "ask", act |-> act, mod |-> m, row |-> row[m], req |-> None] \in Job
    BY <1>0 DEF TypeOK, Change, Job
  <2>2. jobs' \in [Procs -> Job]
    BY <1>0, <1>1, <2>1, JobsTyped DEF AskChange, Begins
  <2> QED  BY <1>1, <2>2, WishesKept DEF AskChange, Typed, TypeOK, Job, pending
<1>2. CASE Decide(p)
  <2>1. jobs[p] \in Change  BY <1>0, <1>2, Stages DEF Decide, At
  <2>2. /\ jobs[p].mod \in Mods
        /\ [jobs[p] EXCEPT !.at = "enqueue"] \in Job /\ [jobs[p] EXCEPT !.at = "work"] \in Job
    BY <2>1 DEF Change, Job
  <2>3. /\ \/ jobs' = [jobs EXCEPT ![p] = [jobs[p] EXCEPT !.at = "enqueue"]]
           \/ jobs' = [jobs EXCEPT ![p] = [jobs[p] EXCEPT !.at = "work"]]
           \/ jobs' = [jobs EXCEPT ![p] = None]
        /\ working' = working \/ working' = working \cup {jobs[p].mod}
    BY <1>2 DEF Decide, GoTo, Ends
  <2>4. jobs' \in [Procs -> Job]  BY <1>0, <2>2, <2>3, JobsTyped DEF Job
  <2>5. working' \subseteq Mods \cup {Bulk}  BY <1>0, <2>2, <2>3 DEF TypeOK
  <2> QED  BY <1>2, <2>4, <2>5, WishesKept DEF Decide, Typed, TypeOK, Job, pending
<1>3. CASE Enqueue(p)  BY <1>3, EnqueueTyped
<1>4. ASSUME At(p, "work")
      PROVE  GoTo(p, "settle") => jobs' \in [Procs -> Job]
  <2>1. [jobs[p] EXCEPT !.at = "settle"] \in Job
    BY <1>0, <1>4, Stages, Goes DEF At, Job
  <2> QED  BY <1>0, <2>1, JobsTyped DEF GoTo
<1>5. ASSUME Ends(p)
      PROVE  jobs' \in [Procs -> Job]
  BY <1>0, <1>5, JobsTyped DEF Ends, Job
<1>6. /\ {"approved"} \in SUBSET RequestStatus
      /\ {"approved", "queued"} \in SUBSET RequestStatus
      /\ {"installed"} \in SUBSET RequestStatus
      /\ "installed" \in RequestStatus /\ "approved" \in RequestStatus
  BY DEF RequestStatus
<1>7. CASE Install(p)
  <2>1. row' \in [Mods -> Rows \cup {None}]  BY <1>0, <1>7, RowsTyped DEF Install
  <2>2. /\ Asked' /\ about' \in [Requests -> Mods \cup {None}]
        /\ status' \in [Requests -> RequestStatus \cup {"none"}]
    BY <1>6, <1>7, WishesMoved DEF Install, RequestsOfInstalled
  <2> QED  BY <1>4, <1>7, <2>1, <2>2 DEF Install, Typed, TypeOK, Job, pending
<1>8. CASE Update(p)
  BY <1>4, <1>8, WishesKept DEF Update, Typed, TypeOK, Job, pending
<1>9. CASE Remove(p)
  <2>1. row' \in [Mods -> Rows \cup {None}]  BY <1>0, <1>9, RowsTyped DEF Remove
  <2>2. /\ Asked' /\ about' \in [Requests -> Mods \cup {None}]
        /\ status' \in [Requests -> RequestStatus \cup {"none"}]
    BY <1>6, <1>9, WishesMoved DEF Remove, RequestsOfRemoved
  <2> QED  BY <1>5, <1>9, <2>1, <2>2 DEF Remove, Typed, TypeOK, Job, pending
<1>10. CASE Fails(p)
  BY <1>0, <1>10, FailingTyped, WishesKept DEF Fails, Typed, TypeOK, Job, pending
<1>11. CASE Settle(p)
  <2>1. /\ Asked' /\ about' \in [Requests -> Mods \cup {None}]
        /\ status' \in [Requests -> RequestStatus \cup {"none"}]
    BY <1>6, <1>11, WishesMoved DEF Settle
  <2> QED  BY <1>5, <1>11, <2>1 DEF Settle, Typed, TypeOK, Job, pending
<1> QED  BY <1>1, <1>2, <1>3, <1>7, <1>8, <1>9, <1>10, <1>11 DEF ChangeStep

LEMMA ApplyTyped ==
  ASSUME Typed, NEW p \in Procs, ApplyStep(p)
  PROVE  Typed'
<1>0. TypeOK /\ Asked  BY DEF Typed
<1>1. ASSUME NEW j \in Drain, jobs' = [jobs EXCEPT ![p] = j]
      PROVE  jobs' \in [Procs -> Job]
  BY <1>0, <1>1, JobsTyped DEF Job
<1>2. ASSUME jobs[p] # None, jobs[p].at \in {"list", "claim", "apply", "unqueue", "mark"},
             NEW s \in {"list", "claim", "apply", "unqueue", "mark"}, GoTo(p, s)
      PROVE  jobs' \in [Procs -> Job]
  BY <1>0, <1>1, <1>2, Stages, Goes DEF GoTo
<1>3. ASSUME Ends(p)
      PROVE  jobs' \in [Procs -> Job]
  BY <1>0, <1>3, JobsTyped DEF Ends, Job
<1>4. ASSUME jobs[p] # None, jobs[p].at \in {"apply", "unqueue", "mark"},
             jobs' = [jobs EXCEPT ![p] = Done(p)]
      PROVE  jobs' \in [Procs -> Job]
  <2>1. jobs[p] \in Drain  BY <1>0, <1>4, Stages
  <2>2. Done(p) \in Drain  BY <2>1 DEF Done, Drain
  <2> QED  BY <1>1, <1>4, <2>2
<1>5. /\ {"approved", "queued"} \in SUBSET RequestStatus /\ {"queued"} \in SUBSET RequestStatus
      /\ {"installed"} \in SUBSET RequestStatus
      /\ "installed" \in RequestStatus /\ "approved" \in RequestStatus
  BY DEF RequestStatus
<1>6. CASE AskApply(p)
  <2>1. [at |-> "list", task |-> TRUE, ops |-> {}] \in Drain  BY DEF Drain
  <2>2. jobs' \in [Procs -> Job]  BY <1>1, <1>6, <2>1 DEF AskApply, Begins
  <2> QED  BY <1>6, <2>2, WishesKept DEF AskApply, Typed, TypeOK, Job, pending
<1>7. ASSUME NEW drain \in BOOLEAN, AskRestart(p, drain)
      PROVE  Typed'
  <2>1. [at |-> IF drain THEN "list" ELSE "apply", task |-> FALSE, ops |-> {}] \in Drain
    BY DEF Drain
  <2>2. jobs' \in [Procs -> Job]  BY <1>1, <1>7, <2>1 DEF AskRestart, Begins
  <2> QED  BY <1>7, <2>2, WishesKept DEF AskRestart, Typed, TypeOK, Job, pending
<1>8. CASE ListOps(p)
  <2>1. jobs[p] \in Drain  BY <1>0, <1>8, Stages DEF ListOps, At
  <2>. DEFINE j == [jobs[p] EXCEPT !.ops = queue,
                                   !.at = IF jobs[p].task THEN "claim" ELSE "apply"]
  <2>2. j \in Drain  BY <1>0, <2>1 DEF Drain, TypeOK
  <2>3. jobs' = [jobs EXCEPT ![p] = j]  BY <1>8 DEF ListOps
  <2>4. jobs' \in [Procs -> Job]  BY <1>1, <2>2, <2>3
  <2> QED  BY <1>8, <2>4, WishesKept DEF ListOps, Typed, TypeOK, Job, pending
<1>9. CASE ClaimApply(p)
  <2>1. jobs' \in [Procs -> Job]  BY <1>2, <1>3, <1>9 DEF ClaimApply, At
  <2> QED  BY <1>9, <2>1, WishesKept DEF ClaimApply, Typed, TypeOK, Job, pending
<1>10. CASE ApplyInstall(p)
  <2>1. row' \in [Mods -> Rows \cup {None}]
    BY <1>0, <1>10, RowsTyped DEF ApplyInstall, TypeOK
  <2>2. /\ Asked' /\ about' \in [Requests -> Mods \cup {None}]
        /\ status' \in [Requests -> RequestStatus \cup {"none"}]
    BY <1>5, <1>10, WishesMoved, WishesKept DEF ApplyInstall, RequestsOfInstalled, wishes
  <2>3. jobs' \in [Procs -> Job]  BY <1>2, <1>10 DEF ApplyInstall, Applying, At
  <2> QED  BY <1>10, <2>1, <2>2, <2>3 DEF ApplyInstall, Typed, TypeOK, Job, pending
<1>11. CASE ApplyUpdate(p)
  <2>1. jobs' \in [Procs -> Job]  BY <1>2, <1>11 DEF ApplyUpdate, Applying, At
  <2> QED  BY <1>11, <2>1, WishesKept DEF ApplyUpdate, Typed, TypeOK, Job, pending
<1>12. CASE Fails(p)
  BY <1>0, <1>12, FailingTyped, WishesKept DEF Fails, Typed, TypeOK, Job, pending
<1>13. CASE ApplyRemove(p)
  <2>1. \E S : DeleteModRows(S) /\ status' = RequestsOfRemoved(S)
    BY <1>13 DEF ApplyRemove
  <2>2. row' \in [Mods -> Rows \cup {None}]  BY <1>0, <2>1, RowsTyped
  <2>3. /\ Asked' /\ about' \in [Requests -> Mods \cup {None}]
        /\ status' \in [Requests -> RequestStatus \cup {"none"}]
    BY <1>5, <1>13, <2>1, WishesMoved DEF ApplyRemove, RequestsOfRemoved
  <2>4. jobs' \in [Procs -> Job] /\ working' \in SUBSET (Mods \cup {Bulk})
    <3>1. (GoTo(p, "unqueue") /\ UNCHANGED working) \/ Failing(p)
      BY <1>13 DEF ApplyRemove
    <3>2. CASE GoTo(p, "unqueue") /\ UNCHANGED working
      BY <1>0, <1>2, <1>13, <3>2 DEF ApplyRemove, Applying, At, TypeOK
    <3> QED  BY <1>0, <3>1, <3>2, FailingTyped
  <2> QED  BY <1>13, <2>2, <2>3, <2>4 DEF ApplyRemove, Typed, TypeOK, Job, pending
<1>14. CASE Unqueue(p)
  <2>1. jobs' \in [Procs -> Job]  BY <1>2, <1>4, <1>14 DEF Unqueue, At
  <2>2. queue' \subseteq Op /\ nextOp' \in 1..(MaxOps + 1)
    BY <1>0, <1>14 DEF Unqueue, Without, TypeOK
  <2> QED  BY <1>14, <2>1, <2>2, WishesKept DEF Unqueue, Typed, TypeOK, Job
<1>15. CASE MarkApplied(p)
  <2>. DEFINE o == First(jobs[p].ops)
  <2>1. \/ status' = Moved({o.req}, {"queued"}, "installed")
        \/ status' = Moved(For(o.mod), {"installed"}, "approved")
        \/ status' = status
    BY <1>15 DEF MarkApplied
  <2>2. about' = about  BY <1>15 DEF MarkApplied
  <2>. HIDE DEF o
  <2>3. /\ Asked' /\ about' \in [Requests -> Mods \cup {None}]
        /\ status' \in [Requests -> RequestStatus \cup {"none"}]
    BY <1>5, <2>1, <2>2, WishesMoved, WishesKept DEF wishes
  <2>4. jobs' \in [Procs -> Job]  BY <1>4, <1>15 DEF MarkApplied, At
  <2> QED  BY <1>15, <2>3, <2>4 DEF MarkApplied, Typed, TypeOK, Job, pending
<1>16. CASE EndApply(p)
  <2>1. jobs' \in [Procs -> Job]  BY <1>3, <1>16 DEF EndApply
  <2>2. serverUp' \in BOOLEAN  BY <1>0, <1>16 DEF EndApply, TypeOK
  <2> QED  BY <1>16, <2>1, <2>2, WishesKept DEF EndApply, Typed, TypeOK, Job, pending
<1> QED
  BY <1>6, <1>7, <1>8, <1>9, <1>10, <1>11, <1>13, <1>14, <1>15, <1>16 DEF ApplyStep

LEMMA CancelTyped ==
  ASSUME Typed, NEW p \in Procs, CancelStep(p)
  PROVE  Typed'
<1>0. TypeOK /\ Asked  BY DEF Typed
<1>1. ASSUME NEW o \in queue, NEW to \in {"approved", "rejected"}, AskCancel(p, o, to)
      PROVE  Typed'
  <2>1. [at |-> "delete", op |-> o, to |-> to] \in Job
    BY <1>0 DEF Job, Cancel, TypeOK
  <2>2. jobs' \in [Procs -> Job]  BY <1>0, <1>1, <2>1, JobsTyped DEF AskCancel, Begins
  <2> QED  BY <1>1, <2>2, WishesKept DEF AskCancel, Typed, TypeOK, Job, pending
<1>2. CASE CancelDelete(p)
  <2>1. [jobs[p] EXCEPT !.at = "restore"] \in Job
    BY <1>0, <1>2, Stages, Goes DEF CancelDelete, At, Job
  <2>2. jobs' \in [Procs -> Job]  BY <1>0, <1>2, <2>1, JobsTyped DEF CancelDelete, GoTo
  <2>3. queue' \subseteq Op /\ nextOp' \in 1..(MaxOps + 1)
    BY <1>0, <1>2 DEF CancelDelete, Without, TypeOK
  <2> QED  BY <1>2, <2>2, <2>3, WishesKept DEF CancelDelete, Typed, TypeOK, Job
<1>3. CASE CancelRestore(p)
  <2>1. jobs[p] \in Cancel  BY <1>0, <1>3, Stages DEF CancelRestore, At
  <2>2. jobs[p].to \in RequestStatus /\ {"queued"} \in SUBSET RequestStatus
    BY <2>1 DEF Cancel, RequestStatus
  <2>3. /\ Asked' /\ about' \in [Requests -> Mods \cup {None}]
        /\ status' \in [Requests -> RequestStatus \cup {"none"}]
    BY <1>3, <2>2, WishesMoved DEF CancelRestore
  <2>4. jobs' \in [Procs -> Job]  BY <1>0, <1>3, JobsTyped DEF CancelRestore, Ends, Job
  <2> QED  BY <1>3, <2>3, <2>4 DEF CancelRestore, Typed, TypeOK, Job, pending
<1> QED  BY <1>1, <1>2, <1>3 DEF CancelStep

LEMMA HaltTyped ==
  ASSUME Typed, NEW p \in Procs, InstallHalts(p) \/ RemoveHalts(p)
  PROVE  Typed'
<1>0. TypeOK /\ Asked  BY DEF Typed
<1>1. CASE InstallHalts(p)
  <2>1. row' \in [Mods -> Rows \cup {None}]  BY <1>0, <1>1, RowsTyped DEF InstallHalts
  <2>2. /\ jobs' \in [Procs -> Job] /\ working' \in SUBSET (Mods \cup {Bulk})
        /\ alive' \in BOOLEAN
    BY <1>0, <1>1, KilledTyped, FailingTyped DEF InstallHalts, TypeOK
  <2> QED  BY <1>1, <2>1, <2>2, WishesKept DEF InstallHalts, Typed, TypeOK, Job, pending
<1>2. CASE RemoveHalts(p)
  <2>1. row' \in [Mods -> Rows \cup {None}]  BY <1>0, <1>2, RowsTyped DEF RemoveHalts
  <2>2. {"installed"} \in SUBSET RequestStatus /\ "approved" \in RequestStatus
    BY DEF RequestStatus
  <2>3. /\ Asked' /\ about' \in [Requests -> Mods \cup {None}]
        /\ status' \in [Requests -> RequestStatus \cup {"none"}]
    BY <1>2, <2>2, WishesMoved DEF RemoveHalts, RequestsOfRemoved
  <2> QED  BY <1>2, <2>1, <2>3, KilledTyped DEF RemoveHalts, Typed, TypeOK, Job, pending
<1> QED  BY <1>1, <1>2

LEMMA NextTyped ==
  ASSUME Typed, [Next]_vars
  PROVE  Typed'
<1>0. TypeOK /\ Asked  BY DEF Typed
<1>1. CASE RequestStep  BY <1>1, RequestTyped
<1>2. ASSUME NEW p \in Procs, ChangeStep(p) \/ ApplyStep(p) \/ CancelStep(p)
      PROVE  Typed'
  BY <1>2, ChangeTyped, ApplyTyped, CancelTyped
<1>3. ASSUME NEW m \in Mods, InstallDependency(m)
      PROVE  Typed'
  <2>1. row' \in [Mods -> Rows \cup {None}]  BY <1>0, <1>3, RowsTyped DEF InstallDependency
  <2>2. {"approved", "queued"} \in SUBSET RequestStatus /\ "installed" \in RequestStatus
    BY DEF RequestStatus
  <2>3. /\ Asked' /\ about' \in [Requests -> Mods \cup {None}]
        /\ status' \in [Requests -> RequestStatus \cup {"none"}]
    BY <1>3, <2>2, WishesMoved DEF InstallDependency, RequestsOfInstalled
  <2> QED  BY <1>3, <2>1, <2>3 DEF InstallDependency, Typed, TypeOK, pending
<1>4. CASE StartServer \/ StopServer \/ Restart
  BY <1>4, WishesKept DEF StartServer, StopServer, Restart, Typed, TypeOK, pending
<1>5. CASE Crash
  BY <1>5, WishesKept, KilledTyped DEF Crash, Typed, TypeOK, Job, pending
<1>6. ASSUME NEW p \in Procs, InstallHalts(p) \/ RemoveHalts(p)
      PROVE  Typed'
  BY <1>6, HaltTyped
<1>7. CASE UNCHANGED vars  BY <1>7 DEF vars, Typed, TypeOK, Asked
<1> QED  BY <1>1, <1>2, <1>3, <1>4, <1>5, <1>6, <1>7 DEF Next

LEMMA InitTyped ==
  ASSUME Init
  PROVE  Typed
BY QueueAssumption DEF Init, Typed, TypeOK, Asked

LEMMA AlwaysTyped == Spec => []Typed
BY InitTyped, NextTyped, PTL DEF Spec

\* Every reachable state of the queue, the requests and the jobs is well typed.
THEOREM Typing == Spec => []TypeOK
<1>1. Typed => TypeOK  BY DEF Typed
<1> QED  BY <1>1, AlwaysTyped, PTL

-----------------------------------------------------------------------------
(* One operation per change                                                *)

\* Only Enqueue adds to the queue.
LEMMA QueueSteps ==
  ASSUME [Next]_vars
  PROVE  queue' \subseteq queue \/ \E p \in Procs : Enqueue(p)
<1>1. CASE RequestStep
  BY <1>1 DEF RequestStep, CreateRequest, ApproveRequest, RejectRequest, ReopenRequest,
              InstallApproved, pending
<1>2. ASSUME NEW p \in Procs, ChangeStep(p), ~Enqueue(p)
      PROVE  queue' = queue
  BY <1>2 DEF ChangeStep, AskChange, Decide, Install, Update, Remove, Fails, Settle, pending
<1>3. ASSUME NEW p \in Procs, ApplyStep(p)
      PROVE  queue' \subseteq queue
  <2>1. CASE Unqueue(p)  BY <2>1 DEF Unqueue, Without
  <2>2. CASE ~Unqueue(p)
    BY <1>3, <2>2 DEF ApplyStep, AskApply, AskRestart, ListOps, ClaimApply, ApplyInstall,
                      ApplyUpdate, ApplyRemove, MarkApplied, EndApply, pending
  <2> QED  BY <2>1, <2>2
<1>4. ASSUME NEW p \in Procs, CancelStep(p)
      PROVE  queue' \subseteq queue
  BY <1>4 DEF CancelStep, AskCancel, CancelDelete, CancelRestore, Without, pending
<1>5. ASSUME NEW m \in Mods, InstallDependency(m)
      PROVE  queue' = queue
  BY <1>5 DEF InstallDependency, pending
<1>6. CASE StartServer \/ StopServer \/ Crash \/ Restart
  BY <1>6 DEF StartServer, StopServer, Crash, Restart, pending
<1>7. ASSUME NEW p \in Procs, InstallHalts(p) \/ RemoveHalts(p)
      PROVE  queue' = queue
  BY <1>7 DEF InstallHalts, RemoveHalts, pending
<1>8. CASE UNCHANGED vars  BY <1>8 DEF vars
<1> QED  BY <1>1, <1>2, <1>3, <1>4, <1>5, <1>6, <1>7, <1>8 DEF Next

LEMMA EnqueueKeepsOne ==
  ASSUME OneOpPerChange, NEW p \in Procs, Enqueue(p)
  PROVE  OneOpPerChange'
<1>1. CASE Queued(jobs[p].act, jobs[p].mod)
  BY <1>1 DEF Enqueue, OneOpPerChange, pending
<1>2. CASE ~Queued(jobs[p].act, jobs[p].mod)
  <2>. DEFINE o == [id |-> nextOp, act |-> jobs[p].act, mod |-> jobs[p].mod,
                    req |-> jobs[p].req]
  <2>1. queue' = queue \cup {o}  BY <1>2 DEF Enqueue
  <2>2. \A x \in queue : ~(x.act = o.act /\ x.mod = o.mod)  BY <1>2 DEF Queued
  <2>. HIDE DEF o
  <2> QED  BY <2>1, <2>2 DEF OneOpPerChange
<1> QED  BY <1>1, <1>2

\* No change is ever queued twice, however many handlers decide at once.
THEOREM QueuedOnce == Spec => []OneOpPerChange
<1>1. Init => OneOpPerChange  BY DEF Init, OneOpPerChange
<1>2. OneOpPerChange /\ [Next]_vars => OneOpPerChange'
  <2> SUFFICES ASSUME OneOpPerChange, [Next]_vars PROVE OneOpPerChange'  OBVIOUS
  <2>1. CASE queue' \subseteq queue  BY <2>1 DEF OneOpPerChange
  <2> QED  BY <2>1, QueueSteps, EnqueueKeepsOne
<1> QED  BY <1>1, <1>2, PTL DEF Spec

-----------------------------------------------------------------------------
(* The requests                                                            *)

Transition ==
  \E S, from, to :
    /\ "rejected" \notin from /\ to # "queued"
    /\ status' = Moved(S, from, to)

\* A status is written by the creation of a request, by a reopening, by a
\* transition that does not expect a rejected request, and by Enqueue, which alone
\* makes one queued.
LEMMA StatusSteps ==
  ASSUME Typed, [Next]_vars
  PROVE  \/ status' = status
         \/ \E r \in Requests, m \in Mods : CreateRequest(r, m)
         \/ \E r \in Requests : ReopenRequest(r)
         \/ Transition
         \/ \E p \in Procs : Enqueue(p)
<1>1. CASE RequestStep
  <2>1. ASSUME NEW p \in Procs, NEW r \in Requests, NEW install \in BOOLEAN,
               ApproveRequest(p, r, install)
        PROVE  Transition
    BY <2>1 DEF ApproveRequest, Transition
  <2>2. ASSUME NEW r \in Requests, RejectRequest(r)
        PROVE  Transition
    BY <2>2 DEF RejectRequest, Transition
  <2>3. ASSUME NEW p \in Procs, NEW r \in Requests, InstallApproved(p, r)
        PROVE  status' = status
    BY <2>3 DEF InstallApproved, wishes
  <2> QED  BY <1>1, <2>1, <2>2, <2>3 DEF RequestStep
<1>2. ASSUME NEW p \in Procs, ChangeStep(p), ~Enqueue(p)
      PROVE  status' = status \/ Transition
  <2>1. CASE Install(p)  BY <2>1 DEF Install, RequestsOfInstalled, Transition
  <2>2. CASE Remove(p)  BY <2>2 DEF Remove, RequestsOfRemoved, Transition
  <2>3. CASE Settle(p)  BY <2>3 DEF Settle, Transition
  <2>4. CASE ~(Install(p) \/ Remove(p) \/ Settle(p))
    BY <1>2, <2>4 DEF ChangeStep, AskChange, Decide, Update, Fails, wishes
  <2> QED  BY <2>1, <2>2, <2>3, <2>4
<1>3. ASSUME NEW p \in Procs, ApplyStep(p)
      PROVE  status' = status \/ Transition
  <2>1. CASE ApplyInstall(p)  BY <2>1 DEF ApplyInstall, RequestsOfInstalled, Transition
  <2>2. CASE ApplyRemove(p)  BY <2>2 DEF ApplyRemove, RequestsOfRemoved, Transition
  <2>3. CASE MarkApplied(p)
    <3>. DEFINE o == First(jobs[p].ops)
    <3>1. \/ status' = Moved({o.req}, {"queued"}, "installed")
          \/ status' = Moved(For(o.mod), {"installed"}, "approved")
          \/ status' = status
      BY <2>3 DEF MarkApplied
    <3>. HIDE DEF o
    <3> QED  BY <3>1 DEF Transition
  <2>4. CASE ~(ApplyInstall(p) \/ ApplyRemove(p) \/ MarkApplied(p))
    BY <1>3, <2>4 DEF ApplyStep, AskApply, AskRestart, ListOps, ClaimApply, ApplyUpdate,
                      Unqueue, EndApply, wishes
  <2> QED  BY <2>1, <2>2, <2>3, <2>4
<1>4. ASSUME NEW p \in Procs, CancelStep(p)
      PROVE  status' = status \/ Transition
  <2>1. CASE CancelRestore(p)
    <3>1. jobs[p] \in Cancel  BY <2>1, Stages DEF CancelRestore, At, Typed
    <3>2. jobs[p].to # "queued"  BY <3>1 DEF Cancel
    <3> QED  BY <2>1, <3>2 DEF CancelRestore, Transition
  <2>2. CASE ~CancelRestore(p)
    BY <1>4, <2>2 DEF CancelStep, AskCancel, CancelDelete, wishes
  <2> QED  BY <2>1, <2>2
<1>5. ASSUME NEW m \in Mods, InstallDependency(m)
      PROVE  Transition
  BY <1>5 DEF InstallDependency, RequestsOfInstalled, Transition
<1>6. CASE StartServer \/ StopServer \/ Crash \/ Restart
  BY <1>6 DEF StartServer, StopServer, Crash, Restart, wishes
<1>7. ASSUME NEW p \in Procs, InstallHalts(p) \/ RemoveHalts(p)
      PROVE  status' = status \/ Transition
  BY <1>7 DEF InstallHalts, RemoveHalts, RequestsOfRemoved, wishes, Transition
<1>8. CASE UNCHANGED vars  BY <1>8 DEF vars
<1> QED  BY <1>1, <1>2, <1>3, <1>4, <1>5, <1>6, <1>7, <1>8 DEF Next

\* A rejected request stays rejected until it is reopened, whatever install,
\* drain or cancel is still on its way.
THEOREM Rejected == Spec => RejectedOnlyReopens
<1>1. Typed /\ [Next]_vars
        => [\A r \in Requests :
              status[r] = "rejected" => status'[r] \in {"rejected", "pending"}]_status
  <2> SUFFICES ASSUME Typed, [Next]_vars, NEW r \in Requests, status[r] = "rejected",
                      status' # status
               PROVE  status'[r] \in {"rejected", "pending"}
    OBVIOUS
  <2>1. ASSUME NEW q \in Requests, NEW m \in Mods, CreateRequest(q, m)
        PROVE  status'[r] = "rejected"
    BY <2>1 DEF CreateRequest, Typed, TypeOK
  <2>2. ASSUME NEW q \in Requests, ReopenRequest(q)
        PROVE  status'[r] \in {"rejected", "pending"}
    BY <2>2 DEF ReopenRequest, Moved, Expected
  <2>3. CASE Transition
    BY <2>3 DEF Transition, Moved, Expected
  <2>4. ASSUME NEW p \in Procs, Enqueue(p)
        PROVE  status'[r] = "rejected"
    BY <2>4 DEF Enqueue, Moved, Expected
  <2> QED  BY <2>1, <2>2, <2>3, <2>4, StatusSteps
<1> QED  BY <1>1, AlwaysTyped, PTL DEF Spec, RejectedOnlyReopens

-----------------------------------------------------------------------------
(* The catalogue and the requests                                          *)

\* Unless an operation halts halfway, a row comes and goes with the transition of
\* its requests.
LEMMA RowSteps ==
  ASSUME [Next]_vars, ~Halting
  PROVE  \/ row' = row
         \/ \E m : row[m] = None /\ InsertRow(m) /\ status' = RequestsOfInstalled(m)
         \/ \E S : DeleteModRows(S) /\ status' = RequestsOfRemoved(S)
<1>1. CASE RequestStep
  BY <1>1 DEF RequestStep, CreateRequest, ApproveRequest, RejectRequest, ReopenRequest,
              InstallApproved
<1>2. ASSUME NEW p \in Procs, ChangeStep(p), ~Install(p), ~Remove(p)
      PROVE  row' = row
  BY <1>2 DEF ChangeStep, AskChange, Decide, Enqueue, Update, Fails, Settle
<1>3. ASSUME NEW p \in Procs, ApplyStep(p), ~ApplyInstall(p), ~ApplyRemove(p)
      PROVE  row' = row
  BY <1>3 DEF ApplyStep, AskApply, AskRestart, ListOps, ClaimApply, ApplyUpdate, Unqueue,
              MarkApplied, EndApply
<1>4. ASSUME NEW p \in Procs, CancelStep(p)
      PROVE  row' = row
  BY <1>4 DEF CancelStep, AskCancel, CancelDelete, CancelRestore
<1>5. ASSUME NEW p \in Procs, Install(p)
      PROVE  \E m : row[m] = None /\ InsertRow(m) /\ status' = RequestsOfInstalled(m)
  BY <1>5 DEF Install
<1>6. ASSUME NEW p \in Procs, Remove(p)
      PROVE  \E S : DeleteModRows(S) /\ status' = RequestsOfRemoved(S)
  BY <1>6 DEF Remove
<1>7. ASSUME NEW p \in Procs, ApplyInstall(p), row' # row
      PROVE  \E m : row[m] = None /\ InsertRow(m) /\ status' = RequestsOfInstalled(m)
  BY <1>7 DEF ApplyInstall
<1>8. ASSUME NEW p \in Procs, ApplyRemove(p)
      PROVE  \E S : DeleteModRows(S) /\ status' = RequestsOfRemoved(S)
  BY <1>8 DEF ApplyRemove
<1>9. ASSUME NEW m \in Mods, InstallDependency(m)
      PROVE  row[m] = None /\ InsertRow(m) /\ status' = RequestsOfInstalled(m)
  BY <1>9 DEF InstallDependency
<1>10. CASE StartServer \/ StopServer \/ Crash \/ Restart
  BY <1>10 DEF StartServer, StopServer, Crash, Restart
<1>11. CASE UNCHANGED vars  BY <1>11 DEF vars
<1> QED
  BY <1>1, <1>2, <1>3, <1>4, <1>5, <1>6, <1>7, <1>8, <1>9, <1>10, <1>11 DEF Next, Halting

LEMMA InsertMoves ==
  ASSUME Typed, NEW n, InsertRow(n), status' = RequestsOfInstalled(n), NEW m \in Mods
  PROVE  /\ row[m] = None /\ row'[m] # None
              => \A r \in For(m) : status'[r] \notin {"approved", "queued"}
         /\ ~(row[m] # None /\ row'[m] = None)
<1>1. row \in [Mods -> Rows \cup {None}]  BY DEF Typed, TypeOK
<1>2. PICK i \in Rows \ Held : row' = [row EXCEPT ![n] = i]  BY DEF InsertRow
<1>3. i # None  BY QueueAssumption
<1>4. CASE m = n
  <2>1. row'[m] = i  BY <1>1, <1>2, <1>4
  <2>2. \A r \in For(m) : status'[r] \notin {"approved", "queued"}
    BY <1>4 DEF RequestsOfInstalled, Moved, Expected, For
  <2> QED  BY <1>3, <2>1, <2>2
<1>5. CASE m # n
  BY <1>1, <1>2, <1>5
<1> QED  BY <1>4, <1>5

LEMMA DeleteMoves ==
  ASSUME NEW S, DeleteModRows(S), status' = RequestsOfRemoved(S), NEW m \in Mods
  PROVE  /\ row[m] # None /\ row'[m] = None => \A r \in For(m) : status'[r] # "installed"
         /\ ~(row[m] = None /\ row'[m] # None)
<1>1. row'[m] = IF m \in S THEN None ELSE row[m]  BY DEF DeleteModRows
<1>2. CASE m \in S
  <2>1. \A r \in For(m) : r \in Requests /\ r \in UNION {For(n) : n \in S}
    BY <1>2 DEF For
  <2>2. \A r \in For(m) : status'[r] # "installed"
    BY <2>1 DEF RequestsOfRemoved, Moved, Expected
  <2> QED  BY <1>1, <1>2, <2>2
<1>3. CASE m \notin S  BY <1>1, <1>3
<1> QED  BY <1>2, <1>3

\* The step that makes a mod appear or disappear moves its requests, whoever makes
\* it, unless it halts between its two transactions.
THEOREM Together == Spec => RowsMoveRequests
<1>. DEFINE Moves ==
       \A m \in Mods :
          /\ row[m] = None /\ row'[m] # None
               => \A r \in For(m) : status'[r] \notin {"approved", "queued"}
          /\ row[m] # None /\ row'[m] = None
               => \A r \in For(m) : status'[r] # "installed"
<1>1. Typed /\ [Next]_vars => [Moves \/ Halting]_vars
  <2> SUFFICES ASSUME Typed, [Next]_vars, ~Halting PROVE Moves  OBVIOUS
  <2>1. CASE row' = row  BY <2>1
  <2>2. ASSUME NEW n, InsertRow(n), status' = RequestsOfInstalled(n)
        PROVE  Moves
    BY <2>2, InsertMoves
  <2>3. ASSUME NEW S, DeleteModRows(S), status' = RequestsOfRemoved(S)
        PROVE  Moves
    BY <2>3, DeleteMoves
  <2> QED  BY <2>1, <2>2, <2>3, RowSteps
<1> QED  BY <1>1, AlwaysTyped, PTL DEF Spec, RowsMoveRequests

-----------------------------------------------------------------------------
(* One apply at a time                                                     *)

Applies(p) ==
  /\ jobs[p] # None /\ jobs[p].at \in {"apply", "unqueue", "mark"}
  /\ jobs[p].task = TRUE

Alone == \A p, q \in Procs : Applies(p) /\ Applies(q) => p = q /\ Bulk \in working

\* A step after which only those apply that did before, and which keeps the bulk
\* task as long as one does, keeps Alone.
LEMMA AloneKept ==
  ASSUME Alone, \A x \in Procs : Applies(x)' => Applies(x),
         (\E x \in Procs : Applies(x)') => (Bulk \in working => Bulk \in working')
  PROVE  Alone'
BY DEF Alone

\* The job of the process that moves decides; the others keep theirs.
LEMMA OthersKept ==
  ASSUME Typed, NEW p \in Procs, NEW j, jobs' = [jobs EXCEPT ![p] = j],
         ~(j # None /\ j.at \in {"apply", "unqueue", "mark"} /\ j.task = TRUE) \/ Applies(p)
  PROVE  \A x \in Procs : Applies(x)' => Applies(x)
<1>1. jobs \in [Procs -> Job]  BY DEF Typed, TypeOK, Job
<1>2. ASSUME NEW x \in Procs, x # p PROVE jobs'[x] = jobs[x]  BY <1>1, <1>2
<1>3. jobs'[p] = j  BY <1>1
<1> QED  BY <1>2, <1>3 DEF Applies

LEMMA ModsAreNotBulk ==
  ASSUME Typed, NEW p \in Procs, jobs[p] # None,
         jobs[p].at \in {"ask", "enqueue", "work", "settle"}
  PROVE  jobs[p].mod \in Mods /\ jobs[p].mod # Bulk
<1>1. jobs[p] \in Change  BY Stages DEF Typed
<1> QED  BY <1>1, QueueAssumption DEF Change

\* Jobs that do not apply the queue, or do not start to, and working but for mods.
LEMMA QuietStep ==
  ASSUME Typed, Alone, NEW p \in Procs, NEW j, jobs' = [jobs EXCEPT ![p] = j],
         ~(j # None /\ j.at \in {"apply", "unqueue", "mark"} /\ j.task = TRUE) \/ Applies(p),
         Bulk \in working => Bulk \in working'
  PROVE  Alone'
BY OthersKept, AloneKept

LEMMA IdleStep ==
  ASSUME Alone, UNCHANGED jobs, Bulk \in working => Bulk \in working'
  PROVE  Alone'
BY DEF Alone, Applies

LEMMA KilledStep ==
  ASSUME Killed
  PROVE  Alone'
BY DEF Killed, Alone, Applies

LEMMA EndsStep ==
  ASSUME Typed, Alone, NEW p \in Procs, Ends(p), Bulk \in working => Bulk \in working'
  PROVE  Alone'
BY QuietStep DEF Ends

\* Going on with the next operation.
LEMMA DoneStep ==
  ASSUME Typed, Alone, NEW p \in Procs, jobs[p] # None,
         jobs[p].at \in {"apply", "unqueue", "mark"},
         jobs' = [jobs EXCEPT ![p] = Done(p)], UNCHANGED working
  PROVE  Alone'
<1>1. jobs[p] \in Drain  BY Stages DEF Typed
<1>2. Done(p).task = jobs[p].task  BY <1>1 DEF Done, Drain
<1>3. ~(Done(p).task = TRUE) \/ Applies(p)  BY <1>2 DEF Applies
<1> QED  BY <1>3, QuietStep

LEMMA FailingStep ==
  ASSUME Typed, Alone, NEW p \in Procs, Failing(p)
  PROVE  Alone'
<1>1. CASE At(p, "work") /\ Ends(p)
           /\ working' = IF jobs[p].act = "remove" THEN working ELSE working \ {jobs[p].mod}
  BY <1>1, ModsAreNotBulk, EndsStep DEF At
<1>2. CASE At(p, "apply") /\ jobs' = [jobs EXCEPT ![p] = Done(p)] /\ UNCHANGED working
  BY <1>2, DoneStep DEF At
<1> QED  BY <1>1, <1>2 DEF Failing

\* A stage further for a process that applies, or to a stage at which none does.
LEMMA GoToStep ==
  ASSUME Typed, Alone, NEW p \in Procs, jobs[p] # None,
         NEW s \in {"enqueue", "work", "settle", "unqueue", "mark", "restore"}, GoTo(p, s),
         jobs[p].at \in {"apply", "unqueue", "mark"} \/ s \notin {"apply", "unqueue", "mark"},
         jobs[p].at # s, Bulk \in working => Bulk \in working'
  PROVE  Alone'
<1>. DEFINE j == [jobs[p] EXCEPT !.at = s]
<1>1. jobs' = [jobs EXCEPT ![p] = j]  BY DEF GoTo
<1>2. jobs[p] \in Change \cup Drain \cup Cancel  BY DEF Typed, TypeOK
<1>3. j.at = s  BY <1>2 DEF Change, Drain, Cancel
<1>4. ASSUME jobs[p].at \in {"apply", "unqueue", "mark"}
      PROVE  j.task = jobs[p].task
  <2>1. jobs[p] \in Drain  BY <1>4, Stages DEF Typed
  <2> QED  BY <2>1 DEF Drain
<1>5. ~(j.at \in {"apply", "unqueue", "mark"} /\ j.task = TRUE) \/ Applies(p)
  BY <1>3, <1>4 DEF Applies
<1>. HIDE DEF j
<1> QED  BY <1>1, <1>5, QuietStep

LEMMA ChangeAlone ==
  ASSUME Typed, Alone, NEW p \in Procs, ChangeStep(p)
  PROVE  Alone'
<1>1. ASSUME NEW act \in Acts, NEW m \in Mods, AskChange(p, act, m)
      PROVE  Alone'
  <2>. DEFINE j == [at |-> "ask", act |-> act, mod |-> m, row |-> row[m], req |-> None]
  <2>1. jobs' = [jobs EXCEPT ![p] = j] /\ working' = working
    BY <1>1 DEF AskChange, Begins
  <2>2. j.at = "ask"  OBVIOUS
  <2>. HIDE DEF j
  <2> QED  BY <2>1, <2>2, QuietStep
<1>2. CASE Decide(p)
  <2>1. /\ GoTo(p, "enqueue") \/ GoTo(p, "work") \/ Ends(p)
        /\ Bulk \in working => Bulk \in working'
        /\ jobs[p] # None /\ jobs[p].at = "ask"
    BY <1>2 DEF Decide, At
  <2> QED  BY <2>1, GoToStep, EndsStep
<1>3. CASE Enqueue(p)  BY <1>3, EndsStep DEF Enqueue
<1>4. CASE Install(p)  BY <1>4, GoToStep DEF Install, At
<1>5. CASE Update(p)  BY <1>5, GoToStep DEF Update, At
<1>6. CASE Remove(p)  BY <1>6, EndsStep DEF Remove
<1>7. CASE Fails(p)  BY <1>7, FailingStep DEF Fails
<1>8. CASE Settle(p)
  <2>1. jobs[p].mod # Bulk  BY <1>8, ModsAreNotBulk DEF Settle, At
  <2> QED  BY <1>8, <2>1, EndsStep DEF Settle
<1> QED  BY <1>1, <1>2, <1>3, <1>4, <1>5, <1>6, <1>7, <1>8 DEF ChangeStep

LEMMA ApplyAlone ==
  ASSUME Typed, Alone, NEW p \in Procs, ApplyStep(p)
  PROVE  Alone'
<1>1. CASE AskApply(p)
  <2>1. /\ jobs' = [jobs EXCEPT ![p] = [at |-> "list", task |-> TRUE, ops |-> {}]]
        /\ working' = working
    BY <1>1 DEF AskApply, Begins
  <2> QED  BY <2>1, QuietStep
<1>2. ASSUME NEW drain \in BOOLEAN, AskRestart(p, drain)
      PROVE  Alone'
  <2>. DEFINE j == [at |-> IF drain THEN "list" ELSE "apply", task |-> FALSE, ops |-> {}]
  <2>1. jobs' = [jobs EXCEPT ![p] = j] /\ working' = working
    BY <1>2 DEF AskRestart, Begins
  <2>2. j.task = FALSE  OBVIOUS
  <2>. HIDE DEF j
  <2> QED  BY <2>1, <2>2, QuietStep
<1>3. CASE ListOps(p)
  <2>. DEFINE j == [jobs[p] EXCEPT !.ops = queue,
                                   !.at = IF jobs[p].task THEN "claim" ELSE "apply"]
  <2>1. jobs' = [jobs EXCEPT ![p] = j] /\ working' = working  BY <1>3 DEF ListOps
  <2>2. jobs[p] \in Drain  BY <1>3, Stages DEF ListOps, At, Typed
  <2>3. j.task = jobs[p].task /\ j.at = IF jobs[p].task THEN "claim" ELSE "apply"
    BY <2>2 DEF Drain
  <2>. HIDE DEF j
  <2>4. ~(j.at \in {"apply", "unqueue", "mark"} /\ j.task = TRUE)
    BY <2>3
  <2> QED  BY <2>1, <2>4, QuietStep
<1>4. CASE ClaimApply(p)
  <2>1. CASE Ends(p) /\ UNCHANGED working  BY <2>1, EndsStep
  <2>2. CASE NoneActive /\ GoTo(p, "apply") /\ working' = {Bulk}
    <3>1. \A x \in Procs : ~Applies(x)  BY <2>2 DEF Alone, NoneActive
    <3>2. jobs \in [Procs -> Job]  BY DEF Typed, TypeOK, Job
    <3>3. \A x \in Procs : x # p => jobs'[x] = jobs[x]  BY <2>2, <3>2 DEF GoTo
    <3>4. \A x \in Procs : x # p => ~Applies(x)'  BY <3>1, <3>3 DEF Applies
    <3> QED  BY <2>2, <3>4 DEF Alone
  <2> QED  BY <1>4, <2>1, <2>2 DEF ClaimApply
<1>5. CASE ApplyInstall(p)
  BY <1>5, GoToStep DEF ApplyInstall, Applying, At
<1>6. CASE ApplyUpdate(p)
  BY <1>6, GoToStep DEF ApplyUpdate, Applying, At
<1>7. CASE ApplyRemove(p)
  <2>1. \/ At(p, "apply") /\ GoTo(p, "unqueue") /\ UNCHANGED working
        \/ Failing(p)
    BY <1>7 DEF ApplyRemove, Applying
  <2> QED  BY <2>1, GoToStep, FailingStep DEF At
<1>8. CASE Unqueue(p)
  <2>1. /\ jobs[p] # None /\ jobs[p].at = "unqueue" /\ working' = working
        /\ GoTo(p, "mark") \/ jobs' = [jobs EXCEPT ![p] = Done(p)]
    BY <1>8 DEF Unqueue, At
  <2> QED  BY <2>1, GoToStep, DoneStep
<1>9. CASE MarkApplied(p)
  BY <1>9, DoneStep DEF MarkApplied, At
<1>10. CASE EndApply(p)
  <2>1. CASE jobs[p].task = TRUE
    <3>1. Applies(p)  BY <1>10, <2>1 DEF EndApply, Applies, At
    <3>2. jobs \in [Procs -> Job]  BY DEF Typed, TypeOK, Job
    <3>3. jobs' = [jobs EXCEPT ![p] = None]  BY <1>10 DEF EndApply, Ends
    <3>4. \A x \in Procs : ~Applies(x)'
      <4>1. ~Applies(p)'  BY <3>2, <3>3 DEF Applies
      <4>2. ASSUME NEW x \in Procs, x # p PROVE ~Applies(x)'
        <5>1. jobs'[x] = jobs[x]  BY <3>2, <3>3, <4>2
        <5>2. ~Applies(x)  BY <3>1, <4>2 DEF Alone
        <5> QED  BY <5>1, <5>2 DEF Applies
      <4> QED  BY <4>1, <4>2
    <3> QED  BY <3>4 DEF Alone
  <2>2. CASE jobs[p].task = FALSE
    BY <1>10, <2>2, EndsStep DEF EndApply
  <2>3. jobs[p].task \in BOOLEAN
    <3>1. jobs[p] \in Drain  BY <1>10, Stages DEF EndApply, At, Typed
    <3> QED  BY <3>1 DEF Drain
  <2> QED  BY <2>1, <2>2, <2>3
<1> QED
  BY <1>1, <1>2, <1>3, <1>4, <1>5, <1>6, <1>7, <1>8, <1>9, <1>10 DEF ApplyStep

LEMMA NextAlone ==
  ASSUME Typed, Alone, [Next]_vars
  PROVE  Alone'
<1>1. CASE RequestStep
  <2>1. ASSUME NEW p \in Procs, NEW r \in Requests, Begins(p, Wish(r)), UNCHANGED working
        PROVE  Alone'
    <3>1. jobs' = [jobs EXCEPT ![p] = Wish(r)]  BY <2>1 DEF Begins
    <3>2. Wish(r).at = "ask"  BY DEF Wish
    <3> QED  BY <2>1, <3>1, <3>2, QuietStep
  <2>2. ASSUME NEW p \in Procs, NEW r \in Requests, NEW install \in BOOLEAN,
               ApproveRequest(p, r, install)
        PROVE  Alone'
    BY <2>1, <2>2, IdleStep DEF ApproveRequest
  <2>3. ASSUME NEW p \in Procs, NEW r \in Requests, InstallApproved(p, r)
        PROVE  Alone'
    BY <2>1, <2>3 DEF InstallApproved
  <2>4. ASSUME NEW r \in Requests, NEW m \in Mods, CreateRequest(r, m)
        PROVE  Alone'
    BY <2>4, IdleStep DEF CreateRequest
  <2>5. ASSUME NEW r \in Requests, RejectRequest(r) \/ ReopenRequest(r)
        PROVE  Alone'
    BY <2>5, IdleStep DEF RejectRequest, ReopenRequest
  <2> QED  BY <1>1, <2>2, <2>3, <2>4, <2>5 DEF RequestStep
<1>2. ASSUME NEW p \in Procs, CancelStep(p)
      PROVE  Alone'
  <2>1. ASSUME NEW o \in queue, NEW to \in {"approved", "rejected"}, AskCancel(p, o, to)
        PROVE  Alone'
    <3>. DEFINE j == [at |-> "delete", op |-> o, to |-> to]
    <3>1. jobs' = [jobs EXCEPT ![p] = j] /\ working' = working
      BY <2>1 DEF AskCancel, Begins
    <3>2. j.at = "delete"  OBVIOUS
    <3>. HIDE DEF j
    <3> QED  BY <3>1, <3>2, QuietStep
  <2>2. CASE CancelDelete(p)  BY <2>2, GoToStep DEF CancelDelete, At
  <2>3. CASE CancelRestore(p)  BY <2>3, EndsStep DEF CancelRestore
  <2> QED  BY <1>2, <2>1, <2>2, <2>3 DEF CancelStep
<1>3. ASSUME NEW p \in Procs, ChangeStep(p) \/ ApplyStep(p)
      PROVE  Alone'
  BY <1>3, ChangeAlone, ApplyAlone
<1>4. ASSUME NEW m \in Mods, InstallDependency(m)
      PROVE  Alone'
  BY <1>4, IdleStep DEF InstallDependency
<1>5. CASE StartServer \/ StopServer \/ Restart
  BY <1>5, IdleStep DEF StartServer, StopServer, Restart
<1>6. CASE Crash  BY <1>6, KilledStep DEF Crash
<1>7. ASSUME NEW p \in Procs, InstallHalts(p) \/ RemoveHalts(p)
      PROVE  Alone'
  BY <1>7, KilledStep, FailingStep DEF InstallHalts, RemoveHalts
<1>8. CASE UNCHANGED vars  BY <1>8, IdleStep DEF vars
<1> QED  BY <1>1, <1>2, <1>3, <1>4, <1>5, <1>6, <1>7, <1>8 DEF Next

\* The tracker lets one task apply the queue at a time, for any number of
\* handlers that ask for it.
THEOREM AppliedAlone == Spec => []AppliesAlone
<1>1. Init => Alone  BY DEF Init, Alone, Applies
<1>2. Typed /\ Alone /\ [Next]_vars => Alone'  BY NextAlone
<1>3. Alone => AppliesAlone
  BY DEF Alone, Applies, AppliesAlone
<1> QED  BY <1>1, <1>2, <1>3, AlwaysTyped, PTL DEF Spec

-----------------------------------------------------------------------------
(* Queued requests                                                         *)

\* The operations somebody can still name: those of the queue, those on the list
\* of an apply, the one a cancel is about.
Holds(j, o) ==
  /\ j # None
  /\ \/ j.at \in {"list", "claim", "apply", "unqueue", "mark"} /\ o \in j.ops
     \/ j.at \in {"delete", "restore"} /\ o = j.op

InSight(o) == o \in queue \/ \E p \in Procs : Holds(jobs[p], o)

\* An id names one operation, of those given out; only installations have a request.
Known ==
  /\ \A o \in Op : InSight(o) => o.id < nextOp /\ (o.req # None => o.act = "install")
  /\ \A o, x \in Op : InSight(o) /\ InSight(x) /\ o.id = x.id => o = x

\* A change on behalf of a request installs, and an apply has an operation to take
\* out of the queue.
Sound(j) ==
  j # None =>
    /\ j.at \in {"ask", "enqueue", "work", "settle"} /\ j.req # None => j.act = "install"
    /\ j.at \in {"unqueue", "mark"} => j.ops # {}

Minded == \A p \in Procs : Sound(jobs[p])

Named == Typed /\ Known /\ Minded

\* The first of the operations of a list is one of them.
LEMMA FirstIn ==
  ASSUME NEW ops \in SUBSET Op, ops # {}
  PROVE  First(ops) \in ops
<1>. DEFINE ids == {o.id : o \in ops}
<1>1. ids \subseteq Nat /\ ids # {}  BY QueueAssumption DEF Op
<1>2. PICK n \in ids : \A i \in ids : n <= i
  <2>. HIDE DEF ids
  <2> QED  BY <1>1, LeastNat
<1>3. PICK o \in ops : o.id = n  OBVIOUS
<1>4. \A x \in ops : o.id <= x.id  BY <1>2, <1>3
<1> QED  BY <1>3, <1>4 DEF First

LEMMA SightTyped ==
  ASSUME Typed, NEW o, InSight(o)
  PROVE  o \in Op
<1>1. CASE o \in queue  BY <1>1 DEF Typed, TypeOK
<1>2. ASSUME NEW p \in Procs, Holds(jobs[p], o)
      PROVE  o \in Op
  <2>1. jobs[p] # None  BY <1>2 DEF Holds
  <2>2. CASE jobs[p].at \in {"list", "claim", "apply", "unqueue", "mark"}
    <3>1. jobs[p] \in Drain  BY <2>1, <2>2, Stages DEF Typed
    <3> QED  BY <1>2, <2>2, <3>1 DEF Holds, Drain
  <2>3. CASE jobs[p].at \in {"delete", "restore"}
    <3>1. jobs[p] \in Cancel  BY <2>1, <2>3, Stages DEF Typed
    <3> QED  BY <1>2, <2>3, <3>1 DEF Holds, Cancel
  <2> QED  BY <1>2, <2>2, <2>3 DEF Holds
<1> QED  BY <1>1, <1>2 DEF InSight

\* A step that brings no operation into sight keeps what is known of them.
LEMMA JobKept ==
  ASSUME Named, NEW p \in Procs, NEW j, jobs' = [jobs EXCEPT ![p] = j],
         queue' \subseteq queue, UNCHANGED nextOp, Sound(j),
         \A o \in Op : Holds(j, o) => InSight(o)
  PROVE  Known' /\ Minded'
<1>1. jobs \in [Procs -> Job]  BY DEF Named, Typed, TypeOK, Job
<1>2. jobs'[p] = j /\ \A q \in Procs : q # p => jobs'[q] = jobs[q]  BY <1>1
<1>3. \A o \in Op : InSight(o)' => InSight(o)
  <2> SUFFICES ASSUME NEW o \in Op, InSight(o)' PROVE InSight(o)  OBVIOUS
  <2>1. CASE o \in queue'  BY <2>1 DEF InSight
  <2>2. ASSUME NEW q \in Procs, Holds(jobs'[q], o)
        PROVE  InSight(o)
    <3>1. CASE q = p  BY <1>2, <2>2, <3>1
    <3>2. CASE q # p  BY <1>2, <2>2, <3>2 DEF InSight
    <3> QED  BY <3>1, <3>2
  <2> QED  BY <2>1, <2>2 DEF InSight
<1>4. Known'  BY <1>3 DEF Named, Known
<1>5. ASSUME NEW q \in Procs PROVE Sound(jobs'[q])
  BY <1>2 DEF Named, Minded
<1> QED  BY <1>4, <1>5 DEF Minded

LEMMA IdleKept ==
  ASSUME Named, UNCHANGED <<jobs, queue, nextOp>>
  PROVE  Known' /\ Minded'
BY DEF Named, Known, Minded, InSight

LEMMA KilledKept ==
  ASSUME Named, Killed, UNCHANGED <<queue, nextOp>>
  PROVE  Known' /\ Minded'
<1>1. \A p \in Procs : jobs'[p] = None  BY DEF Killed
<1>2. \A o \in Op : InSight(o)' => InSight(o)  BY <1>1 DEF InSight, Holds
<1>3. Known'  BY <1>2 DEF Named, Known
<1> QED  BY <1>1, <1>3 DEF Minded, Sound

LEMMA EndsKept ==
  ASSUME Named, NEW p \in Procs, Ends(p), UNCHANGED <<queue, nextOp>>
  PROVE  Known' /\ Minded'
<1>1. Sound(None) /\ \A o : ~Holds(None, o)  BY DEF Sound, Holds
<1> QED  BY <1>1, JobKept DEF Ends

\* From stage to stage a change stays on behalf of its request, an apply keeps its
\* list, and a cancel its operation.
LEMMA GoToKept ==
  ASSUME Named, NEW p \in Procs, jobs[p] # None, NEW s, GoTo(p, s),
         queue' \subseteq queue, UNCHANGED nextOp,
         \/ /\ jobs[p].at \in {"ask", "work"}
            /\ s \in {"enqueue", "work", "settle"}
         \/ /\ jobs[p].at \in {"claim", "apply", "unqueue"}
            /\ s \in {"apply", "unqueue", "mark"}
            /\ s \in {"unqueue", "mark"} => jobs[p].ops # {}
         \/ jobs[p].at = "delete" /\ s = "restore"
  PROVE  Known' /\ Minded'
<1>. DEFINE j == [jobs[p] EXCEPT !.at = s]
<1>0. Typed /\ TypeOK /\ Sound(jobs[p])  BY DEF Named, Typed, Minded
<1>1. jobs' = [jobs EXCEPT ![p] = j]  BY DEF GoTo
<1>2. CASE jobs[p].at \in {"ask", "work"} /\ s \in {"enqueue", "work", "settle"}
  <2>1. jobs[p] \in Change  BY <1>0, <1>2, Stages
  <2>2. j.at = s /\ j.req = jobs[p].req /\ j.act = jobs[p].act  BY <2>1 DEF Change
  <2>. HIDE DEF j
  <2>3. Sound(j) /\ \A o : ~Holds(j, o)  BY <1>0, <1>2, <2>2 DEF Sound, Holds
  <2> QED  BY <1>1, <2>3, JobKept
<1>3. CASE /\ jobs[p].at \in {"claim", "apply", "unqueue"}
           /\ s \in {"apply", "unqueue", "mark"}
           /\ s \in {"unqueue", "mark"} => jobs[p].ops # {}
  <2>1. jobs[p] \in Drain  BY <1>0, <1>3, Stages
  <2>2. j.at = s /\ j.ops = jobs[p].ops  BY <2>1 DEF Drain
  <2>. HIDE DEF j
  <2>3. Sound(j)  BY <1>3, <2>2 DEF Sound
  <2>4. \A o \in Op : Holds(j, o) => InSight(o)
    BY <1>3, <2>2 DEF Holds, InSight
  <2> QED  BY <1>1, <2>3, <2>4, JobKept
<1>4. CASE jobs[p].at = "delete" /\ s = "restore"
  <2>1. jobs[p] \in Cancel  BY <1>0, <1>4, Stages
  <2>2. j.at = s /\ j.op = jobs[p].op  BY <2>1 DEF Cancel
  <2>. HIDE DEF j
  <2>3. Sound(j)  BY <1>4, <2>2 DEF Sound
  <2>4. \A o \in Op : Holds(j, o) => InSight(o)
    BY <1>4, <2>2 DEF Holds, InSight
  <2> QED  BY <1>1, <2>3, <2>4, JobKept
<1> QED  BY <1>2, <1>3, <1>4

LEMMA DoneKept ==
  ASSUME Named, NEW p \in Procs, jobs[p] # None,
         jobs[p].at \in {"apply", "unqueue", "mark"},
         jobs' = [jobs EXCEPT ![p] = Done(p)], queue' \subseteq queue, UNCHANGED nextOp
  PROVE  Known' /\ Minded'
<1>1. jobs[p] \in Drain  BY Stages DEF Named, Typed
<1>2. Done(p).at = "apply" /\ Done(p).ops \subseteq jobs[p].ops  BY <1>1 DEF Done, Drain
<1>3. Sound(Done(p))  BY <1>2 DEF Sound
<1>4. \A o \in Op : Holds(Done(p), o) => InSight(o)
  BY <1>2 DEF Holds, InSight
<1> QED  BY <1>3, <1>4, JobKept

LEMMA FailingKept ==
  ASSUME Named, NEW p \in Procs, Failing(p), UNCHANGED <<queue, nextOp>>
  PROVE  Known' /\ Minded'
<1>1. CASE At(p, "work") /\ Ends(p)  BY <1>1, EndsKept
<1>2. CASE At(p, "apply") /\ jobs' = [jobs EXCEPT ![p] = Done(p)]
  BY <1>2, DoneKept DEF At
<1> QED  BY <1>1, <1>2 DEF Failing

\* A new operation gets an id above all that are in sight.
LEMMA EnqueueKept ==
  ASSUME Named, NEW p \in Procs, Enqueue(p)
  PROVE  Known' /\ Minded'
<1>0. Typed /\ TypeOK /\ Known /\ Sound(jobs[p])  BY DEF Named, Typed, Minded
<1>1. CASE Queued(jobs[p].act, jobs[p].mod)
  BY <1>1, EndsKept DEF Enqueue, pending
<1>2. CASE ~Queued(jobs[p].act, jobs[p].mod)
  <2>. DEFINE n == [id |-> nextOp, act |-> jobs[p].act, mod |-> jobs[p].mod,
                    req |-> jobs[p].req]
  <2>1. queue' = queue \cup {n} /\ nextOp' = nextOp + 1 /\ jobs' = [jobs EXCEPT ![p] = None]
    BY <1>2 DEF Enqueue, Ends
  <2>2. n.req # None => n.act = "install"  BY <1>0 DEF Enqueue, At, Sound
  <2>3. n.id = nextOp /\ nextOp \in Nat  BY <1>0 DEF TypeOK
  <2>. HIDE DEF n
  <2>4. jobs \in [Procs -> Job]  BY <1>0 DEF TypeOK, Job
  <2>5. jobs'[p] = None /\ \A q \in Procs : q # p => jobs'[q] = jobs[q]  BY <2>1, <2>4
  <2>6. \A o \in Op : InSight(o)' => InSight(o) \/ o = n
    <3> SUFFICES ASSUME NEW o \in Op, InSight(o)', o # n PROVE InSight(o)  OBVIOUS
    <3>1. CASE o \in queue'  BY <2>1, <3>1 DEF InSight
    <3>2. ASSUME NEW q \in Procs, Holds(jobs'[q], o)
          PROVE  InSight(o)
      <4>1. q # p  BY <2>5, <3>2 DEF Holds
      <4> QED  BY <2>5, <3>2, <4>1 DEF InSight
    <3> QED  BY <3>1, <3>2 DEF InSight
  <2>7. \A o \in Op : o.id \in Nat  BY QueueAssumption DEF Op
  <2>8. \A o \in Op : InSight(o)' => o.id < nextOp' /\ (o.req # None => o.act = "install")
    BY <1>0, <2>1, <2>2, <2>3, <2>6, <2>7 DEF Known
  <2>9. \A o, x \in Op : InSight(o)' /\ InSight(x)' /\ o.id = x.id => o = x
    BY <1>0, <2>3, <2>6, <2>7 DEF Known
  <2>10. Known'  BY <2>8, <2>9 DEF Known
  <2>11. ASSUME NEW q \in Procs PROVE Sound(jobs'[q])
    BY <2>5 DEF Sound, Named, Minded
  <2> QED  BY <2>10, <2>11 DEF Minded
<1> QED  BY <1>1, <1>2

LEMMA ChangeNamed ==
  ASSUME Named, NEW p \in Procs, ChangeStep(p)
  PROVE  Known' /\ Minded'
<1>1. ASSUME NEW act \in Acts, NEW m \in Mods, AskChange(p, act, m)
      PROVE  Known' /\ Minded'
  <2>. DEFINE j == [at |-> "ask", act |-> act, mod |-> m, row |-> row[m], req |-> None]
  <2>1. jobs' = [jobs EXCEPT ![p] = j] /\ UNCHANGED <<queue, nextOp>>
    BY <1>1 DEF AskChange, Begins, pending
  <2>2. j.at = "ask" /\ j.req = None  OBVIOUS
  <2>. HIDE DEF j
  <2>3. Sound(j) /\ \A o : ~Holds(j, o)  BY <2>2 DEF Sound, Holds
  <2> QED  BY <2>1, <2>3, JobKept
<1>2. CASE Decide(p)
  <2>1. /\ GoTo(p, "enqueue") \/ GoTo(p, "work") \/ Ends(p)
        /\ jobs[p] # None /\ jobs[p].at = "ask" /\ UNCHANGED <<queue, nextOp>>
    BY <1>2 DEF Decide, At, pending
  <2> QED  BY <2>1, GoToKept, EndsKept
<1>3. CASE Enqueue(p)  BY <1>3, EnqueueKept
<1>4. CASE Install(p)  BY <1>4, GoToKept DEF Install, At, pending
<1>5. CASE Update(p)  BY <1>5, GoToKept DEF Update, At, pending
<1>6. CASE Remove(p)  BY <1>6, EndsKept DEF Remove, pending
<1>7. CASE Fails(p)  BY <1>7, FailingKept DEF Fails, pending
<1>8. CASE Settle(p)  BY <1>8, EndsKept DEF Settle, pending
<1> QED  BY <1>1, <1>2, <1>3, <1>4, <1>5, <1>6, <1>7, <1>8 DEF ChangeStep

LEMMA ApplyNamed ==
  ASSUME Named, NEW p \in Procs, ApplyStep(p)
  PROVE  Known' /\ Minded'
<1>0. Typed /\ TypeOK /\ Sound(jobs[p])  BY DEF Named, Typed, Minded
<1>1. ASSUME NEW j, jobs' = [jobs EXCEPT ![p] = j], UNCHANGED <<queue, nextOp>>,
             j.at \in {"list", "claim", "apply"}, j.ops \subseteq queue
      PROVE  Known' /\ Minded'
  <2>1. Sound(j)  BY <1>1 DEF Sound
  <2>2. \A o \in Op : Holds(j, o) => InSight(o)  BY <1>1 DEF Holds, InSight
  <2> QED  BY <1>1, <2>1, <2>2, JobKept
<1>2. CASE AskApply(p)
  <2>. DEFINE j == [at |-> "list", task |-> TRUE, ops |-> {}]
  <2>1. jobs' = [jobs EXCEPT ![p] = j] /\ UNCHANGED <<queue, nextOp>>
    BY <1>2 DEF AskApply, Begins, pending
  <2>2. j.at \in {"list", "claim", "apply"} /\ j.ops = {}  OBVIOUS
  <2>. HIDE DEF j
  <2> QED  BY <1>1, <2>1, <2>2
<1>3. ASSUME NEW drain \in BOOLEAN, AskRestart(p, drain)
      PROVE  Known' /\ Minded'
  <2>. DEFINE j == [at |-> IF drain THEN "list" ELSE "apply", task |-> FALSE, ops |-> {}]
  <2>1. jobs' = [jobs EXCEPT ![p] = j] /\ UNCHANGED <<queue, nextOp>>
    BY <1>3 DEF AskRestart, Begins, pending
  <2>2. j.at \in {"list", "claim", "apply"} /\ j.ops = {}  OBVIOUS
  <2>. HIDE DEF j
  <2> QED  BY <1>1, <2>1, <2>2
<1>4. CASE ListOps(p)
  <2>. DEFINE j == [jobs[p] EXCEPT !.ops = queue,
                                   !.at = IF jobs[p].task THEN "claim" ELSE "apply"]
  <2>1. jobs' = [jobs EXCEPT ![p] = j] /\ UNCHANGED <<queue, nextOp>>
    BY <1>4 DEF ListOps, pending
  <2>2. jobs[p] \in Drain  BY <1>0, <1>4, Stages DEF ListOps, At
  <2>3. j.at \in {"list", "claim", "apply"} /\ j.ops = queue  BY <2>2 DEF Drain
  <2>. HIDE DEF j
  <2> QED  BY <1>1, <2>1, <2>3
<1>5. CASE ClaimApply(p)
  BY <1>5, GoToKept, EndsKept DEF ClaimApply, At, pending
<1>6. CASE ApplyInstall(p)
  BY <1>6, GoToKept DEF ApplyInstall, Applying, At, pending
<1>7. CASE ApplyUpdate(p)
  BY <1>7, GoToKept DEF ApplyUpdate, Applying, At, pending
<1>8. CASE ApplyRemove(p)
  <2>1. /\ jobs[p] # None /\ jobs[p].at = "apply" /\ jobs[p].ops # {}
        /\ GoTo(p, "unqueue") \/ Failing(p)
        /\ UNCHANGED <<queue, nextOp>>
    BY <1>8 DEF ApplyRemove, Applying, At, pending
  <2> QED  BY <2>1, GoToKept, FailingKept
<1>9. CASE Unqueue(p)
  <2>1. /\ jobs[p] # None /\ jobs[p].at = "unqueue"
        /\ queue' \subseteq queue /\ nextOp' = nextOp
        /\ GoTo(p, "mark") \/ jobs' = [jobs EXCEPT ![p] = Done(p)]
    BY <1>9 DEF Unqueue, At, Without
  <2>2. jobs[p].ops # {}  BY <1>0, <2>1 DEF Sound
  <2> QED  BY <2>1, <2>2, GoToKept, DoneKept
<1>10. CASE MarkApplied(p)
  BY <1>10, DoneKept DEF MarkApplied, At, pending
<1>11. CASE EndApply(p)  BY <1>11, EndsKept DEF EndApply, pending
<1> QED
  BY <1>2, <1>3, <1>4, <1>5, <1>6, <1>7, <1>8, <1>9, <1>10, <1>11 DEF ApplyStep

LEMMA NextNamed ==
  ASSUME Named, [Next]_vars
  PROVE  Known' /\ Minded'
<1>1. CASE RequestStep
  <2>1. ASSUME NEW p \in Procs, NEW r \in Requests, Begins(p, Wish(r)),
               UNCHANGED <<queue, nextOp>>
        PROVE  Known' /\ Minded'
    <3>1. Sound(Wish(r)) /\ \A o : ~Holds(Wish(r), o)  BY DEF Wish, Sound, Holds
    <3> QED  BY <2>1, <3>1, JobKept DEF Begins
  <2>2. ASSUME NEW p \in Procs, NEW r \in Requests, NEW install \in BOOLEAN,
               ApproveRequest(p, r, install)
        PROVE  Known' /\ Minded'
    BY <2>1, <2>2, IdleKept DEF ApproveRequest, pending
  <2>3. ASSUME NEW p \in Procs, NEW r \in Requests, InstallApproved(p, r)
        PROVE  Known' /\ Minded'
    BY <2>1, <2>3 DEF InstallApproved, pending
  <2>4. ASSUME NEW r \in Requests, NEW m \in Mods, CreateRequest(r, m)
        PROVE  Known' /\ Minded'
    BY <2>4, IdleKept DEF CreateRequest, pending
  <2>5. ASSUME NEW r \in Requests, RejectRequest(r) \/ ReopenRequest(r)
        PROVE  Known' /\ Minded'
    BY <2>5, IdleKept DEF RejectRequest, ReopenRequest, pending
  <2> QED  BY <1>1, <2>2, <2>3, <2>4, <2>5 DEF RequestStep
<1>2. ASSUME NEW p \in Procs, CancelStep(p)
      PROVE  Known' /\ Minded'
  <2>1. ASSUME NEW o \in queue, NEW to \in {"approved", "rejected"}, AskCancel(p, o, to)
        PROVE  Known' /\ Minded'
    <3>. DEFINE j == [at |-> "delete", op |-> o, to |-> to]
    <3>1. jobs' = [jobs EXCEPT ![p] = j] /\ UNCHANGED <<queue, nextOp>>
      BY <2>1 DEF AskCancel, Begins, pending
    <3>2. j.at = "delete" /\ j.op = o  OBVIOUS
    <3>. HIDE DEF j
    <3>3. Sound(j) /\ \A x : Holds(j, x) => InSight(x)  BY <3>2 DEF Sound, Holds, InSight
    <3> QED  BY <3>1, <3>3, JobKept
  <2>2. CASE CancelDelete(p)
    <3>1. queue' \subseteq queue  BY <2>2 DEF CancelDelete, Without
    <3> QED  BY <2>2, <3>1, GoToKept DEF CancelDelete, At
  <2>3. CASE CancelRestore(p)  BY <2>3, EndsKept DEF CancelRestore, pending
  <2> QED  BY <1>2, <2>1, <2>2, <2>3 DEF CancelStep
<1>3. ASSUME NEW p \in Procs, ChangeStep(p) \/ ApplyStep(p)
      PROVE  Known' /\ Minded'
  BY <1>3, ChangeNamed, ApplyNamed
<1>4. ASSUME NEW m \in Mods, InstallDependency(m)
      PROVE  Known' /\ Minded'
  BY <1>4, IdleKept DEF InstallDependency, pending
<1>5. CASE StartServer \/ StopServer \/ Restart
  BY <1>5, IdleKept DEF StartServer, StopServer, Restart, pending
<1>6. CASE Crash  BY <1>6, KilledKept DEF Crash, pending
<1>7. ASSUME NEW p \in Procs, InstallHalts(p) \/ RemoveHalts(p)
      PROVE  Known' /\ Minded'
  BY <1>7, KilledKept, FailingKept DEF InstallHalts, RemoveHalts, pending
<1>8. CASE UNCHANGED vars  BY <1>8, IdleKept DEF vars
<1> QED  BY <1>1, <1>2, <1>3, <1>4, <1>5, <1>6, <1>7, <1>8 DEF Next

LEMMA AlwaysNamed == Spec => []Named
<1>1. Init => Named
  <2>1. Init => Known /\ Minded  BY DEF Init, Known, Minded, InSight, Holds, Sound
  <2> QED  BY <2>1, InitTyped DEF Named
<1>2. Named /\ [Next]_vars => Named'  BY NextTyped, NextNamed DEF Named
<1> QED  BY <1>1, <1>2, PTL DEF Spec

\* What speaks for a queued request: its operation, a cancel that has taken it
\* out of the queue, or an apply that is about to mark it.
Witnessed(r) ==
  \/ \E o \in queue : o.req = r
  \/ \E p \in Procs : At(p, "restore") /\ jobs[p].op.req = r
  \/ \E p \in Procs : At(p, "mark") /\ First(jobs[p].ops).req = r

\* The steps that take a witness away.
Takes(p) == Unqueue(p) \/ MarkApplied(p) \/ CancelDelete(p) \/ CancelRestore(p)

\* The others leave the queue as it is, or longer, and the jobs at mark and restore.
LEMMA OtherSteps ==
  ASSUME [Next]_vars, alive', \A p \in Procs : ~Takes(p)
  PROVE  /\ queue \subseteq queue'
         /\ \/ jobs' = jobs
            \/ \E p \in Procs :
                 /\ ~At(p, "mark") /\ ~At(p, "restore")
                 /\ \E j : jobs' = [jobs EXCEPT ![p] = j]
<1>. DEFINE Left == queue \subseteq queue'
            Moves(p) == /\ ~At(p, "mark") /\ ~At(p, "restore")
                        /\ \E j : jobs' = [jobs EXCEPT ![p] = j]
<1>1. CASE RequestStep
  <2>1. Left
    BY <1>1 DEF RequestStep, CreateRequest, ApproveRequest, RejectRequest, ReopenRequest,
                InstallApproved, pending
  <2>2. jobs' = jobs \/ \E p \in Procs : Moves(p)
    BY <1>1 DEF RequestStep, CreateRequest, ApproveRequest, RejectRequest, ReopenRequest,
                InstallApproved, Begins, At
  <2> QED  BY <2>1, <2>2
<1>2. ASSUME NEW p \in Procs, Failing(p) PROVE Moves(p)
  BY <1>2 DEF Failing, Ends, At
<1>3. ASSUME NEW p \in Procs, ChangeStep(p)
      PROVE  Left /\ Moves(p)
  <2>1. Left
    BY <1>3 DEF ChangeStep, AskChange, Decide, Enqueue, Install, Update, Remove, Fails,
                Settle, pending
  <2>2. CASE Fails(p)  BY <1>2, <2>1, <2>2 DEF Fails
  <2>3. CASE Enqueue(p)  BY <2>1, <2>3 DEF Enqueue, Ends, At
  <2>4. CASE ~Fails(p) /\ ~Enqueue(p)
    BY <1>3, <2>1, <2>4 DEF ChangeStep, AskChange, Decide, Install, Update, Remove, Settle,
                            Begins, GoTo, Ends, At
  <2> QED  BY <2>2, <2>3, <2>4
<1>4. ASSUME NEW p \in Procs, ApplyStep(p)
      PROVE  Left /\ Moves(p)
  <2>1. CASE ApplyRemove(p)
    <3>1. (At(p, "apply") /\ GoTo(p, "unqueue")) \/ Failing(p)
      BY <2>1 DEF ApplyRemove, Applying
    <3> QED  BY <1>2, <2>1, <3>1 DEF ApplyRemove, GoTo, At, pending
  <2>2. CASE ListOps(p)
    <3>1. \E j : jobs' = [jobs EXCEPT ![p] = j]
      <4>. DEFINE j == [jobs[p] EXCEPT !.ops = queue,
                                       !.at = IF jobs[p].task THEN "claim" ELSE "apply"]
      <4>1. jobs' = [jobs EXCEPT ![p] = j]  BY <2>2 DEF ListOps
      <4> QED  BY <4>1
    <3> QED  BY <2>2, <3>1 DEF ListOps, At, pending
  <2>3. CASE ~ApplyRemove(p) /\ ~ListOps(p)
    BY <1>4, <2>3 DEF ApplyStep, Takes, AskApply, AskRestart, ClaimApply, ApplyInstall,
                      ApplyUpdate, EndApply, Applying, Begins, GoTo, Ends, At, pending
  <2> QED  BY <2>1, <2>2, <2>3
<1>5. ASSUME NEW p \in Procs, CancelStep(p)
      PROVE  Left /\ Moves(p)
  BY <1>5 DEF CancelStep, Takes, AskCancel, Begins, At, pending
<1>6. ASSUME NEW m \in Mods, InstallDependency(m)
      PROVE  Left /\ jobs' = jobs
  BY <1>6 DEF InstallDependency, pending
<1>7. CASE StartServer \/ StopServer \/ Crash \/ Restart
  BY <1>7 DEF StartServer, StopServer, Crash, Killed, Restart, pending
<1>8. ASSUME NEW p \in Procs, InstallHalts(p) \/ RemoveHalts(p)
      PROVE  Left /\ Moves(p)
  BY <1>2, <1>8 DEF InstallHalts, RemoveHalts, Killed, pending
<1>9. CASE UNCHANGED vars  BY <1>9 DEF vars
<1> QED  BY <1>1, <1>3, <1>4, <1>5, <1>6, <1>7, <1>8, <1>9 DEF Next

LEMMA OthersWitness ==
  ASSUME Typed, NEW p \in Procs, NEW j, jobs' = [jobs EXCEPT ![p] = j],
         NEW r, \E q \in Procs : q # p /\ \/ At(q, "restore") /\ jobs[q].op.req = r
                                          \/ At(q, "mark") /\ First(jobs[q].ops).req = r
  PROVE  Witnessed(r)'
<1>1. jobs \in [Procs -> Job]  BY DEF Typed, TypeOK, Job
<1>2. PICK q \in Procs : q # p /\ \/ At(q, "restore") /\ jobs[q].op.req = r
                                  \/ At(q, "mark") /\ First(jobs[q].ops).req = r
  OBVIOUS
<1>3. jobs'[q] = jobs[q]  BY <1>1, <1>2
<1> QED  BY <1>2, <1>3 DEF Witnessed, At

LEMMA StillWitnessed ==
  ASSUME Typed, NEW r, Witnessed(r), queue \subseteq queue',
         \/ jobs' = jobs
         \/ \E p \in Procs :
              /\ ~At(p, "mark") /\ ~At(p, "restore")
              /\ \E j : jobs' = [jobs EXCEPT ![p] = j]
  PROVE  Witnessed(r)'
<1>1. CASE \E o \in queue : o.req = r  BY <1>1 DEF Witnessed
<1>2. CASE jobs' = jobs  BY <1>2 DEF Witnessed, At
<1>3. ASSUME ~(\E o \in queue : o.req = r),
             NEW p \in Procs, ~At(p, "mark"), ~At(p, "restore"),
             NEW j, jobs' = [jobs EXCEPT ![p] = j]
      PROVE  Witnessed(r)'
  <2>1. \E q \in Procs : q # p /\ \/ At(q, "restore") /\ jobs[q].op.req = r
                                  \/ At(q, "mark") /\ First(jobs[q].ops).req = r
    BY <1>3 DEF Witnessed
  <2> QED  BY <1>3, <2>1, OthersWitness
<1> QED  BY <1>1, <1>2, <1>3

\* Whoever takes an operation out of the queue takes it for itself, because its id
\* names no other.
LEMMA TakenIsKnown ==
  ASSUME Named, NEW o, InSight(o), NEW r, r # None, \E x \in queue : x.req = r,
         queue' = Without(o.id)
  PROVE  (\E x \in queue' : x.req = r) \/ o.req = r
<1>1. PICK x \in queue : x.req = r  OBVIOUS
<1>2. o \in Op /\ x \in Op /\ InSight(x)  BY SightTyped DEF Named, InSight, Typed, TypeOK
<1>3. x.id = o.id => x = o  BY <1>2 DEF Named, Known
<1> QED  BY <1>1, <1>3 DEF Without

LEMMA TakesBack ==
  ASSUME Named, NEW p \in Procs, Takes(p), ~(Unqueue(p) /\ ~jobs[p].task),
         NEW r \in Requests, Backed(r)
  PROVE  Backed(r)'
<1>0. Typed /\ TypeOK /\ Known /\ Sound(jobs[p]) /\ r # None
  BY QueueAssumption DEF Named, Typed, Minded
<1>1. ASSUME NEW o, InSight(o), queue' = Without(o.id), status' = status, NEW s,
             s = "restore" \/ s = "mark", GoTo(p, s), jobs[p] # None, jobs[p].at # s,
             jobs[p].at \in {"unqueue", "delete"},
             o.req = r => Witnessed(r)'
      PROVE  Backed(r)'
  <2>1. CASE status[r] # "queued"  BY <1>1, <2>1 DEF Backed
  <2>2. CASE \E x \in queue : x.req = r
    <3>1. (\E x \in queue' : x.req = r) \/ o.req = r  BY <1>0, <1>1, <2>2, TakenIsKnown
    <3>2. Witnessed(r)'  BY <1>1, <3>1 DEF Witnessed
    <3> QED  BY <3>2 DEF Backed, Witnessed
  <2>3. CASE \E q \in Procs : \/ At(q, "restore") /\ jobs[q].op.req = r
                              \/ At(q, "mark") /\ First(jobs[q].ops).req = r
    <3>1. \E q \in Procs : q # p /\ \/ At(q, "restore") /\ jobs[q].op.req = r
                                    \/ At(q, "mark") /\ First(jobs[q].ops).req = r
      BY <1>1, <2>3 DEF At
    <3>2. Witnessed(r)'  BY <1>0, <1>1, <3>1, OthersWitness DEF GoTo
    <3> QED  BY <3>2 DEF Backed, Witnessed
  <2> QED  BY <2>1, <2>2, <2>3 DEF Backed
<1>2. jobs \in [Procs -> Job]  BY <1>0 DEF TypeOK, Job
<1>3. CASE Unqueue(p)
  <2>. DEFINE o == First(jobs[p].ops)
  <2>1. jobs[p] # None /\ jobs[p].at = "unqueue" /\ jobs[p].task
        /\ queue' = Without(o.id) /\ GoTo(p, "mark") /\ status' = status
    BY <1>3 DEF Unqueue, At, wishes
  <2>2. jobs[p] \in Drain  BY <1>0, <2>1, Stages
  <2>3. o \in jobs[p].ops  BY <1>0, <2>1, <2>2, FirstIn DEF Sound, Drain
  <2>4. InSight(o)  BY <2>1, <2>3 DEF InSight, Holds
  <2>5. jobs'[p] = [jobs[p] EXCEPT !.at = "mark"]  BY <1>2, <2>1 DEF GoTo
  <2>6. jobs'[p] \in Drain /\ jobs'[p] # None
    BY <2>2, <2>5, Goes, NoJobAssumption
  <2>. HIDE DEF o
  <2>7. jobs'[p].at = "mark" /\ jobs'[p].ops = jobs[p].ops
    BY <2>2, <2>5 DEF Drain
  <2>8. o.req = r => Witnessed(r)'
    <3> SUFFICES ASSUME o.req = r PROVE Witnessed(r)'  OBVIOUS
    <3>1. First(jobs'[p].ops).req = r /\ At(p, "mark")'  BY <2>6, <2>7 DEF At, o
    <3> QED  BY <3>1 DEF Witnessed
  <2> QED  BY <1>1, <2>1, <2>4, <2>8
<1>4. CASE CancelDelete(p)
  <2>. DEFINE o == jobs[p].op
  <2>1. jobs[p] # None /\ jobs[p].at = "delete"
        /\ queue' = Without(o.id) /\ GoTo(p, "restore") /\ status' = status
    BY <1>4 DEF CancelDelete, At, wishes
  <2>2. jobs[p] \in Cancel  BY <1>0, <2>1, Stages
  <2>3. InSight(o)  BY <2>1 DEF InSight, Holds
  <2>4. jobs'[p] = [jobs[p] EXCEPT !.at = "restore"]  BY <1>2, <2>1 DEF GoTo
  <2>5. jobs'[p] \in Cancel /\ jobs'[p] # None
    BY <2>2, <2>4, Goes, NoJobAssumption
  <2>6. jobs'[p].at = "restore" /\ jobs'[p].op = o
    BY <2>2, <2>4 DEF Cancel
  <2>7. o.req = r => Witnessed(r)'  BY <2>5, <2>6 DEF Witnessed, At
  <2>. HIDE DEF o
  <2> QED  BY <1>1, <2>1, <2>3, <2>7
<1>5. ASSUME UNCHANGED queue, NEW j, jobs' = [jobs EXCEPT ![p] = j],
             status'[r] = "queued" =>
               /\ status[r] = "queued"
               /\ ~(At(p, "restore") /\ jobs[p].op.req = r)
               /\ ~(At(p, "mark") /\ First(jobs[p].ops).req = r)
      PROVE  Backed(r)'
  <2> SUFFICES ASSUME status'[r] = "queued" PROVE Witnessed(r)'  BY DEF Backed, Witnessed
  <2>1. CASE \E x \in queue : x.req = r  BY <1>5, <2>1 DEF Witnessed
  <2>2. CASE ~(\E x \in queue : x.req = r)
    <3>1. \E q \in Procs : q # p /\ \/ At(q, "restore") /\ jobs[q].op.req = r
                                    \/ At(q, "mark") /\ First(jobs[q].ops).req = r
      BY <1>5, <2>2 DEF Backed
    <3> QED  BY <1>0, <1>5, <3>1, OthersWitness
  <2> QED  BY <2>1, <2>2
<1>6. CASE MarkApplied(p)
  <2>. DEFINE o == First(jobs[p].ops)
  <2>1. jobs[p] # None /\ jobs[p].at = "mark"
        /\ queue' = queue /\ jobs' = [jobs EXCEPT ![p] = Done(p)]
    BY <1>6 DEF MarkApplied, At, pending
  <2>2. status' = CASE o.act = "install" -> Moved({o.req}, {"queued"}, "installed")
                    [] o.act = "remove" -> Moved(For(o.mod), {"installed"}, "approved")
                    [] OTHER -> status
    BY <1>6 DEF MarkApplied
  <2>3. jobs[p] \in Drain  BY <1>0, <2>1, Stages
  <2>4. o \in jobs[p].ops  BY <1>0, <2>1, <2>3, FirstIn DEF Sound, Drain
  <2>5. InSight(o)  BY <2>1, <2>4 DEF InSight, Holds
  <2>. HIDE DEF o
  <2>6. o.req = r => o.act = "install"  BY <1>0, <2>5, SightTyped DEF Known
  <2>7. status'[r] = "queued" => status[r] = "queued" /\ o.req # r
    <3>1. CASE o.act = "install"
      <4>1. status' = Moved({o.req}, {"queued"}, "installed")  BY <2>2, <3>1
      <4> QED  BY <4>1 DEF Moved, Expected
    <3>2. CASE o.act = "remove"
      <4>1. status' = Moved(For(o.mod), {"installed"}, "approved")  BY <2>2, <3>2
      <4> QED  BY <2>6, <3>2, <4>1 DEF Moved, Expected
    <3>3. CASE o.act # "install" /\ o.act # "remove"
      <4>1. status' = status  BY <2>2, <3>3
      <4> QED  BY <2>6, <3>3, <4>1
    <3> QED  BY <3>1, <3>2, <3>3
  <2>8. status'[r] = "queued" =>
          /\ status[r] = "queued"
          /\ ~(At(p, "restore") /\ jobs[p].op.req = r)
          /\ ~(At(p, "mark") /\ First(jobs[p].ops).req = r)
    BY <2>1, <2>7 DEF At, o
  <2> QED  BY <1>5, <2>1, <2>8
<1>7. CASE CancelRestore(p)
  <2>1. jobs[p] # None /\ jobs[p].at = "restore" /\ queue' = queue
        /\ jobs' = [jobs EXCEPT ![p] = None]
        /\ status' = Moved({jobs[p].op.req}, {"queued"}, jobs[p].to)
    BY <1>7 DEF CancelRestore, Ends, At, pending
  <2>2. jobs[p] \in Cancel  BY <1>0, <2>1, Stages
  <2>3. jobs[p].to # "queued"  BY <2>2 DEF Cancel
  <2>4. status'[r] = "queued" =>
          /\ status[r] = "queued"
          /\ ~(At(p, "restore") /\ jobs[p].op.req = r)
          /\ ~(At(p, "mark") /\ First(jobs[p].ops).req = r)
    BY <2>1, <2>3 DEF Moved, Expected, At
  <2> QED  BY <1>5, <2>1, <2>4
<1> QED  BY <1>3, <1>4, <1>6, <1>7 DEF Takes

\* A request becomes queued with the operation that witnesses it.
LEMMA QueuedSteps ==
  ASSUME Typed, [Next]_vars, NEW r \in Requests, status'[r] = "queued"
  PROVE  status[r] = "queued" \/ Witnessed(r)'
<1>1. ASSUME NEW q \in Requests, NEW m \in Mods, CreateRequest(q, m)
      PROVE  status[r] = "queued"
  BY <1>1 DEF CreateRequest, Typed, TypeOK
<1>2. ASSUME NEW q \in Requests, ReopenRequest(q)
      PROVE  status[r] = "queued"
  BY <1>2 DEF ReopenRequest, Moved, Expected
<1>3. CASE Transition
  BY <1>3 DEF Transition, Moved, Expected
<1>4. ASSUME NEW p \in Procs, Enqueue(p)
      PROVE  status[r] = "queued" \/ Witnessed(r)'
  <2>1. CASE Queued(jobs[p].act, jobs[p].mod)  BY <1>4, <2>1 DEF Enqueue
  <2>2. CASE ~Queued(jobs[p].act, jobs[p].mod)
    <3>. DEFINE n == [id |-> nextOp, act |-> jobs[p].act, mod |-> jobs[p].mod,
                      req |-> jobs[p].req]
    <3>1. n \in queue' /\ status' = Moved({jobs[p].req}, {"approved"}, "queued")
      BY <1>4, <2>2 DEF Enqueue
    <3>2. n.req = jobs[p].req  OBVIOUS
    <3>. HIDE DEF n
    <3>3. status[r] = "queued" \/ r = jobs[p].req  BY <3>1 DEF Moved, Expected
    <3> QED  BY <3>1, <3>2, <3>3 DEF Witnessed
  <2> QED  BY <2>1, <2>2
<1> QED  BY <1>1, <1>2, <1>3, <1>4, StatusSteps

\* Cancelling, applying and installing, in whatever order and however many at a
\* time, never strand a queued request: only the drain of a restart and a kill do.
THEOREM NoneStranded == Spec => QueuedStaysBacked
<1>. DEFINE Stays == \/ \A r \in Requests : Backed(r) => Backed(r)'
                     \/ \E p \in Procs : Unqueue(p) /\ ~jobs[p].task
                     \/ ~alive'
<1>1. Named /\ [Next]_vars => [Stays]_vars
  <2> SUFFICES ASSUME Named, [Next]_vars, alive',
                      ~ \E p \in Procs : Unqueue(p) /\ ~jobs[p].task,
                      NEW r \in Requests, Backed(r)
               PROVE  Backed(r)'
    OBVIOUS
  <2>1. ASSUME NEW p \in Procs, Takes(p)
        PROVE  Backed(r)'
    BY <2>1, TakesBack
  <2>2. CASE \A p \in Procs : ~Takes(p)
    <3> SUFFICES ASSUME status'[r] = "queued", ~Witnessed(r)' PROVE FALSE
      BY DEF Backed, Witnessed
    <3>1. Typed  BY DEF Named
    <3>2. status[r] = "queued"  BY <3>1, QueuedSteps
    <3>3. Witnessed(r)  BY <3>2 DEF Backed, Witnessed
    <3> QED  BY <2>2, <3>1, <3>3, OtherSteps, StillWitnessed
  <2> QED  BY <2>1, <2>2
<1> QED  BY <1>1, AlwaysNamed, PTL DEF Spec, QueuedStaysBacked

=============================================================================
