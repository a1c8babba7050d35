---------------------------- MODULE AddonChanges ----------------------------
(***************************************************************************)
(* Installing, updating and removing addons: at once while the server is   *)
(* down, through the queue of pending operations while it is up, from the  *)
(* dashboard (src/src/web/handlers/mods.rs) and from the commands          *)
(* (src/src/cli).  Downloads run without the lock on the database, so the  *)
(* mod an addon belongs to may go and come back meanwhile.  The queue is   *)
(* applied by a task of the dashboard, which skips what fails, and by the  *)
(* commands, which stop there.                                             *)
(***************************************************************************)
EXTENDS Naturals

CONSTANTS
  HostMods,    \* the mods that have addons
  ForgeAddons, \* ids of addons on the Forge
  HostOf,      \* addon -> the mod it belongs to
  Workers,     \* handlers and tasks of the dashboard
  Commands,    \* runs of the command line tool
  MaxRelease,  \* bound on the releases of the addons
  MaxHosts,    \* bound on the installations of mods
  MaxWishes,   \* bound on the requests ever made
  Missing         \* no row, nothing to do

AddonRow == [id : Nat, host : Nat, rel : 1..MaxRelease]
Operations == [id : Nat, act : {"install", "update", "remove"}, addon : ForgeAddons, rel : 1..MaxRelease]
Downloads == [at : {"fetch"}, act : {"install", "update", "remove"}, addon : ForgeAddons,
              rel : 1..MaxRelease, row : Nat, list : SUBSET Operations, restart : BOOLEAN]
Drains == [at : {"drain"}, list : (SUBSET Operations) \ {{}}, restart : BOOLEAN]

ASSUME AddonAssumption ==
  /\ HostOf \in [ForgeAddons -> HostMods] /\ Workers \cap Commands = {}
  /\ MaxRelease \in Nat \ {0} /\ MaxHosts \in Nat /\ MaxWishes \in Nat
  /\ Missing \notin Nat /\ Missing \notin AddonRow \cup Downloads \cup Drains

VARIABLES
  hostRow,    \* mod -> id of its row, or Missing
  addonRow,   \* addon -> its row [id, host, rel], or Missing
  newest,     \* the newest release of the addons
  nextHost,   \* AUTOINCREMENT of installed_mods
  nextAddon,  \* AUTOINCREMENT of installed_addons
  addonOps,   \* pending_operations; queued_at orders them as id does: [id, act, addon, rel]
  nextOp,     \* AUTOINCREMENT of pending_operations
  serverUp,
  chore,      \* process -> what it is doing, or Missing
  wishes      \* how many requests were made

addonVars == <<hostRow, addonRow, newest, nextHost, nextAddon, addonOps, nextOp, serverUp, chore, wishes>>
rowVars == <<hostRow, addonRow, nextHost, nextAddon>>
opVars == <<addonOps, nextOp>>

Procs == Workers \cup Commands
HostIds == {hostRow[m] : m \in HostMods} \ {Missing}
Owned == {a \in ForgeAddons : addonRow[a] # Missing}
Operation(i, act, a, rel) == [id |-> i, act |-> act, addon |-> a, rel |-> rel]
First(ops) == CHOOSE o \in ops : \A q \in ops : o.id <= q.id

AddonsTypeOK ==
  /\ hostRow \in [HostMods -> 1..(nextHost - 1) \cup {Missing}] /\ nextHost \in 1..(MaxHosts + 1)
  /\ addonRow \in [ForgeAddons -> AddonRow \cup {Missing}] /\ nextAddon \in Nat
  /\ \A a \in Owned : addonRow[a].host \in HostIds /\ addonRow[a].rel \in 1..newest
  /\ newest \in 1..MaxRelease /\ wishes \in 0..MaxWishes /\ serverUp \in BOOLEAN
  /\ addonOps \subseteq Operations /\ nextOp \in Nat
  /\ \A o, q \in addonOps : o.id < nextOp /\ (o.id = q.id => o = q)
  /\ chore \in [Procs -> Downloads \cup Drains \cup {Missing}]

AddonsInit ==
  /\ hostRow = [m \in HostMods |-> Missing] /\ nextHost = 1
  /\ addonRow = [a \in ForgeAddons |-> Missing] /\ nextAddon = 1
  /\ newest = 1 /\ addonOps = {} /\ nextOp = 1 /\ serverUp = FALSE
  /\ chore = [p \in Procs |-> Missing] /\ wishes = 0

Wish == wishes < MaxWishes /\ wishes' = wishes + 1
Is(p, at) == chore[p] # Missing /\ chore[p].at = at
Turns(p, c) == chore' = [chore EXCEPT ![p] = c]

------------------------------------------------------------------------------
(* Around the addons: the Forge, the mods, the server                      *)

Release ==
  /\ newest < MaxRelease /\ newest' = newest + 1
  /\ UNCHANGED <<rowVars, opVars, serverUp, chore, wishes>>

ReusedId == LET used == HostIds IN CHOOSE i \in 1..(MaxHosts + 1) : i \notin used /\ \A j \in 1..(i - 1) : j \in used
HostId == nextHost  \* AUTOINCREMENT never gives an id twice

InstallHost(m) ==
  /\ hostRow[m] = Missing /\ nextHost <= MaxHosts
  /\ hostRow' = [hostRow EXCEPT ![m] = HostId] /\ nextHost' = nextHost + 1
  /\ UNCHANGED <<addonRow, newest, nextAddon, opVars, serverUp, chore, wishes>>

\* remove_mod_by_id removes the addons of the mod with it.
RemoveHost(m) ==
  /\ hostRow[m] # Missing
  /\ hostRow' = [hostRow EXCEPT ![m] = Missing]
  /\ addonRow' = [a \in ForgeAddons |->
       IF a \in Owned /\ addonRow[a].host = hostRow[m] THEN Missing ELSE addonRow[a]]
  /\ UNCHANGED <<newest, nextHost, nextAddon, opVars, serverUp, chore, wishes>>

StartOrStop ==
  /\ serverUp' = ~serverUp
  /\ UNCHANGED <<rowVars, newest, opVars, chore, wishes>>

------------------------------------------------------------------------------
(* Asking for a change                                                     *)

Queue(act, a) ==
  /\ addonOps' = addonOps \cup {Operation(nextOp, act, a, newest)}
  /\ nextOp' = nextOp + 1

PendingAddonOp(act, a) == \E o \in addonOps : o.act = act /\ o.addon = a

\* try_queue_addon_op asks first whether the operation is there.
TryQueueAddonOp(act, a) ==
  IF PendingAddonOp(act, a) THEN UNCHANGED opVars ELSE Queue(act, a)

\* The task of another change of the same addon, or of the queue, may be there.
AddonBusy(a) == \E p \in Workers : Is(p, "fetch") /\ chore[p].list = {} /\ chore[p].addon = a

\* A download: by its own task or command, or for the first operation of a drain.
Fetch(p, act, a, rel, row, list, restart) ==
  Turns(p, [at |-> "fetch", act |-> act, addon |-> a, rel |-> rel, row |-> row,
            list |-> list, restart |-> restart])

\* The handlers queue the change, or start a task for it.
AskChange(p, act, a, row) ==
  /\ Wish
  /\ p \in Workers /\ chore[p] = Missing
  /\ \/ serverUp /\ TryQueueAddonOp(act, a) /\ UNCHANGED chore
     \/ ~serverUp /\ ~AddonBusy(a) /\ Fetch(p, act, a, newest, row, {}, FALSE) /\ UNCHANGED opVars
  /\ UNCHANGED <<rowVars, newest, serverUp>>

InstallAddon(p, a) ==
  hostRow[HostOf[a]] # Missing /\ a \notin Owned /\ AskChange(p, "install", a, hostRow[HostOf[a]])

UpdateAddon(p, a) ==
  a \in Owned /\ addonRow[a].rel # newest /\ AskChange(p, "update", a, addonRow[a].id)

\* The removal is made at once, also while the server is up.
RemoveAddon(a) ==
  /\ Wish
  /\ a \in Owned /\ addonRow' = [addonRow EXCEPT ![a] = Missing]
  /\ UNCHANGED <<hostRow, newest, nextHost, nextAddon, opVars, serverUp, chore>>

\* The commands queue without asking what is there.
CommandChange(p, act, a, row) ==
  /\ Wish
  /\ p \in Commands /\ chore[p] = Missing
  /\ \/ serverUp /\ Queue(act, a) /\ UNCHANGED chore
     \/ ~serverUp /\ Fetch(p, act, a, newest, row, {}, FALSE) /\ UNCHANGED opVars
  /\ UNCHANGED <<rowVars, newest, serverUp>>

RunAddonInstall(p, a) ==
  hostRow[HostOf[a]] # Missing /\ a \notin Owned /\ CommandChange(p, "install", a, hostRow[HostOf[a]])

RunAddonUpdate(p, a) ==
  a \in Owned /\ addonRow[a].rel # newest /\ CommandChange(p, "update", a, addonRow[a].id)

RunAddonRemove(p, a) ==
  a \in Owned /\ CommandChange(p, "remove", a, addonRow[a].id)

CancelOp ==
  /\ Wish
  /\ \E o \in addonOps : addonOps' = addonOps \ {o}
  /\ UNCHANGED <<rowVars, newest, nextOp, serverUp, chore>>

------------------------------------------------------------------------------
(* A change that has its archive                                           *)

\* The parent is a foreign key, and an addon is installed once.
CanInsertAddon(a, host) == a \notin Owned /\ host \in HostIds

InsertAddon(a, host, rel) ==
  /\ addonRow' = [addonRow EXCEPT ![a] = [id |-> nextAddon, host |-> host, rel |-> rel]]
  /\ nextAddon' = nextAddon + 1

CanLand(p) ==
  LET c == chore[p] IN
    IF c.act = "install" THEN CanInsertAddon(c.addon, c.row)
    ELSE c.addon \in Owned /\ addonRow[c.addon].id = c.row

Lands(p) ==
  LET c == chore[p] IN
    IF c.act = "install" THEN InsertAddon(c.addon, c.row, c.rel)
    ELSE /\ addonRow' = IF c.act = "update" THEN [addonRow EXCEPT ![c.addon].rel = c.rel]
                        ELSE [addonRow EXCEPT ![c.addon] = Missing]
         /\ UNCHANGED nextAddon

\* By its own task or command: done, or failed.
Land(p) ==
  /\ Is(p, "fetch") /\ chore[p].list = {}
  /\ IF CanLand(p) THEN Lands(p) ELSE UNCHANGED <<addonRow, nextAddon>>
  /\ Turns(p, Missing)
  /\ UNCHANGED <<hostRow, newest, nextHost, opVars, serverUp, wishes>>

\* The Forge does not answer, or the process is killed.
GiveUp(p) ==
  /\ chore[p] # Missing /\ Turns(p, Missing)
  /\ UNCHANGED <<rowVars, newest, opVars, serverUp, wishes>>

------------------------------------------------------------------------------
(* Applying the queue                                                      *)

Drain(p, list, restart) ==
  Turns(p, IF list = {} THEN Missing ELSE [at |-> "drain", list |-> list, restart |-> restart])

\* apply_queue, only while no task runs; and the commands: update, before it
\* looks for updates, and server restart, with the server stopped.
ApplyQueue(p) ==
  /\ p \in Workers /\ ~serverUp /\ \A q \in Workers : chore[q] = Missing
  /\ addonOps # {} /\ Drain(p, addonOps, FALSE)
  /\ UNCHANGED <<rowVars, newest, opVars, serverUp, wishes>>

DrainAll(p) ==
  /\ p \in Commands /\ chore[p] = Missing
  /\ addonOps # {}
  /\ \/ ~serverUp /\ Drain(p, addonOps, FALSE)
     \/ serverUp /\ Drain(p, addonOps, TRUE)
  /\ serverUp' = FALSE
  /\ UNCHANGED <<rowVars, newest, opVars, wishes>>

\* An operation is over, and the next one follows; after the last one the command
\* that stopped the server starts it.
Next1(p) == Drain(p, chore[p].list \ {First(chore[p].list)}, chore[p].restart)
Restarted(p) == serverUp' = (serverUp \/ (chore[p].list = {First(chore[p].list)} /\ chore[p].restart))
DeletePendingOp(i) == addonOps' = {o \in addonOps : o.id # i}

\* What an operation is about is looked up when its turn comes.
Subject(o) ==
  IF o.act = "install" THEN hostRow[HostOf[o.addon]]
  ELSE IF o.addon \in Owned THEN addonRow[o.addon].id ELSE Missing

FetchOp(p) ==
  /\ Is(p, "drain")
  /\ LET o == First(chore[p].list) IN
       /\ Subject(o) # Missing
       /\ ~(p \in Workers /\ o.act = "install" /\ o.addon \in Owned)
       /\ Fetch(p, o.act, o.addon, o.rel, Subject(o), chore[p].list, chore[p].restart)
  /\ UNCHANGED <<rowVars, newest, opVars, serverUp, wishes>>

\* For the dashboard an addon that is there is installed.
PassOp(p) ==
  /\ Is(p, "drain") /\ p \in Workers
  /\ LET o == First(chore[p].list) IN
       o.act = "install" /\ o.addon \in Owned /\ DeletePendingOp(o.id)
  /\ Next1(p) /\ Restarted(p)
  /\ UNCHANGED <<rowVars, newest, nextOp, wishes>>

\* Without its mod or its addon, or its release on the Forge, an operation cannot
\* be applied: the commands delete it, the dashboard keeps it.
SkipOp(p) ==
  /\ Is(p, "drain")
  /\ LET o == First(chore[p].list) IN
       IF p \in Commands /\ (Subject(o) = Missing \/ o.act # "remove")
       THEN DeletePendingOp(o.id)
       ELSE p \in Workers /\ UNCHANGED addonOps
  /\ Next1(p) /\ Restarted(p)
  /\ UNCHANGED <<rowVars, newest, nextOp, wishes>>

\* An error in the change itself: the dashboard goes on with the next operation,
\* a command ends, and leaves the server stopped.
LandOp(p) ==
  /\ Is(p, "fetch") /\ chore[p].list # {}
  /\ IF CanLand(p)
     THEN Lands(p) /\ DeletePendingOp(First(chore[p].list).id) /\ Next1(p) /\ Restarted(p)
     ELSE /\ IF p \in Workers THEN Next1(p) ELSE Turns(p, Missing)
          /\ UNCHANGED <<addonRow, nextAddon, addonOps, serverUp>>
  /\ UNCHANGED <<hostRow, newest, nextHost, nextOp, wishes>>

------------------------------------------------------------------------------
AddonsNext ==
  \/ Release \/ StartOrStop \/ CancelOp
  \/ \E m \in HostMods : InstallHost(m) \/ RemoveHost(m)
  \/ \E a \in ForgeAddons : RemoveAddon(a)
  \/ \E p \in Procs :
       \/ \E a \in ForgeAddons :
            \/ InstallAddon(p, a) \/ UpdateAddon(p, a)
            \/ RunAddonInstall(p, a) \/ RunAddonUpdate(p, a) \/ RunAddonRemove(p, a)
       \/ Land(p) \/ GiveUp(p) \/ ApplyQueue(p) \/ DrainAll(p)
       \/ FetchOp(p) \/ PassOp(p) \/ SkipOp(p) \/ LandOp(p)

AddonsSpec == AddonsInit /\ [][AddonsNext]_addonVars

\* The operator goes on restarting the server with --drain, and neither the Forge
\* nor the operator stops a command every time.
OpStep(p) == FetchOp(p) \/ SkipOp(p)
AddonsFairSpec ==
  /\ AddonsSpec
  /\ \A p \in Commands :
       SF_addonVars(DrainAll(p)) /\ SF_addonVars(OpStep(p)) /\ SF_addonVars(LandOp(p)) /\ SF_addonVars(Land(p))

------------------------------------------------------------------------------
\* However mods come and go during a download or in the middle of a drain, an
\* addon hangs on the mod it belongs to.
AddonsOnTheirMod == \A a \in Owned : addonRow[a].host = hostRow[HostOf[a]]

\* src/src/cli/install.rs:212: "Server is running - operation queued. It will be
\* applied on next server restart."  With restarts again and again, no operation
\* stays in the queue for ever.
QueueIsApplied == \A i \in 1..MaxWishes :
  (\E o \in addonOps : o.id = i) ~> (\A o \in addonOps : o.id # i)
=============================================================================
