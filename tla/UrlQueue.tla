------------------------------ MODULE UrlQueue ------------------------------
(***************************************************************************)
(* Queued installs from a URL or a file: the archive is put into           *)
(* .quartermaster/queued first, then the operation that names it is        *)
(* recorded (src/src/web/handlers/mods.rs, src/src/cli/install.rs).  An    *)
(* archive is named by the second of the request and the name that the URL *)
(* gives.  It is taken away when its operation is applied or cancelled     *)
(* (src/src/web/handlers/queue.rs, src/src/web/handlers/server.rs,         *)
(* src/src/cli/apply.rs), and, if no operation names it, at the start of   *)
(* the dashboard (src/src/queue.rs).  The dashboard and the commands are   *)
(* processes of their own and share the database and the directory.        *)
(***************************************************************************)
EXTENDS Naturals, FiniteSets

CONSTANTS
  Urls,        \* what is asked for
  FileNames,   \* the names derived from them
  NameOf,      \* url -> its name
  Handlers,    \* handlers and tasks of the dashboard
  Commands,    \* runs of the command line tool
  MaxSeconds,  \* bound on the clock
  MaxUrlOps,   \* bound on the operations ever queued
  Missing      \* no file, nothing to do

VARIABLES
  second,       \* the clock
  archives,     \* name -> the file in the queue directory, or Missing
  urlOps,       \* the rows of pending_operations that name an archive
  nextUrlOp,    \* AUTOINCREMENT
  hand,         \* process -> what it is about, or Missing
  serving,      \* the dashboard: "up", "down", or "sweeping"
  known,        \* the archives the sweep has found named
  urlMods,      \* the mods installed from archives: [asked, got, archive]
  asked,        \* the names requested so far
  clashed,      \* names requested twice: within one second
  parted        \* names whose operation lost its file to a kill or a sweep

urlVars == <<second, archives, urlOps, nextUrlOp, hand, serving, known, urlMods,
             asked, clashed, parted>>

Procs == Handlers \cup Commands
Seconds == 0..MaxSeconds
ArchiveNames == Seconds \X FileNames
File == [url : Urls, by : Procs, state : {"partial", "whole", "garbled"}]
UrlOp == [id : 1..MaxUrlOps, url : Urls, archive : ArchiveNames]
Hand ==
       [at : {"fetching", "fetched"}, url : Urls, archive : ArchiveNames]
  \cup [at : {"draining"}, todo : SUBSET UrlOp]
  \cup [at : {"installed", "unlinked"}, op : UrlOp, todo : SUBSET UrlOp]

ASSUME UrlAssumption ==
  /\ NameOf \in [Urls -> FileNames]
  /\ Handlers \cap Commands = {}
  /\ MaxSeconds \in Nat /\ MaxUrlOps \in Nat
  /\ Missing \notin File \cup Hand

UrlInit ==
  /\ second = 0 /\ nextUrlOp = 1
  /\ archives = [n \in ArchiveNames |-> Missing]
  /\ urlOps = {} /\ urlMods = {}
  /\ hand = [p \in Procs |-> Missing]
  /\ serving = "up" /\ known = {}
  /\ asked = {} /\ clashed = {} /\ parted = {}

Ready(p) == hand[p] = Missing /\ (p \in Handlers => serving = "up")
Now(p, h) == hand' = [hand EXCEPT ![p] = h]
Busy(p, at) == hand[p] # Missing /\ hand[p].at = at
Referenced == {op.archive : op \in urlOps}

Tick ==
  /\ second < MaxSeconds /\ second' = second + 1
  /\ UNCHANGED <<archives, urlOps, nextUrlOp, hand, serving, known, urlMods, asked, clashed, parted>>

------------------------------------------------------------------------------
(* Queueing                                                                *)

\* The name of the archive: {timestamp}-{name}.
ArchiveName(u) == <<second, NameOf[u]>>

\* No installed mod has the name; the download creates the file, or empties it.
Request(p, u) ==
  /\ Ready(p) /\ nextUrlOp <= MaxUrlOps
  /\ \A i \in urlMods : NameOf[i.asked] # NameOf[u]
  /\ LET n == ArchiveName(u) IN
       /\ archives' = [archives EXCEPT ![n] = [url |-> u, by |-> p, state |-> "partial"]]
       /\ Now(p, [at |-> "fetching", url |-> u, archive |-> n])
  /\ LET pair == <<second, NameOf[u]>> IN
       /\ clashed' = IF pair \in asked THEN clashed \cup {ArchiveName(u)} ELSE clashed
       /\ asked' = asked \cup {pair}
  /\ UNCHANGED <<second, urlOps, nextUrlOp, serving, known, urlMods, parted>>

\* The download ends.  A file that was emptied by another download in between holds
\* a mixture; a file that was removed stays away.
Fetched(p) ==
  /\ Busy(p, "fetching")
  /\ LET n == hand[p].archive IN
       /\ archives' = IF archives[n] = Missing THEN archives
            ELSE [archives EXCEPT ![n].state = IF archives[n].by = p /\ @ = "partial" THEN "whole" ELSE "garbled"]
       /\ Now(p, [hand[p] EXCEPT !.at = "fetched"])
  /\ UNCHANGED <<second, urlOps, nextUrlOp, serving, known, urlMods, asked, clashed, parted>>

\* It fails: what has come stays in the directory.
FetchFails(p) ==
  /\ Busy(p, "fetching")
  /\ Now(p, Missing)
  /\ UNCHANGED <<second, archives, urlOps, nextUrlOp, serving, known, urlMods, asked, clashed, parted>>

\* insert_pending_url_op
RecordOp(p) ==
  /\ Busy(p, "fetched") /\ nextUrlOp <= MaxUrlOps
  /\ urlOps' = urlOps \cup {[id |-> nextUrlOp, url |-> hand[p].url, archive |-> hand[p].archive]}
  /\ nextUrlOp' = nextUrlOp + 1
  /\ Now(p, Missing)
  /\ UNCHANGED <<second, archives, serving, known, urlMods, asked, clashed, parted>>

------------------------------------------------------------------------------
(* Applying: the task of the dashboard, a restart of the server, drain_all *)

ListOps(p) ==
  /\ Ready(p) /\ urlOps # {}
  /\ Now(p, [at |-> "draining", todo |-> urlOps])
  /\ UNCHANGED <<second, archives, urlOps, nextUrlOp, serving, known, urlMods, asked, clashed, parted>>

Oldest(S) == CHOOSE op \in S : \A o \in S : op.id <= o.id
Rest(p) == hand[p].todo \ {Oldest(hand[p].todo)}
Draining(p) == Busy(p, "draining") /\ hand[p].todo # {}
Exists(op) == archives[op.archive] # Missing

\* The archive is there and whole, and its files belong to no installed mod.
Installable(op) ==
  /\ Exists(op) /\ archives[op.archive].state = "whole"
  /\ \A i \in urlMods : i.got # archives[op.archive].url
InstallArchive(p) ==
  /\ Draining(p)
  /\ LET op == Oldest(hand[p].todo) IN
       /\ Installable(op)
       /\ urlMods' = urlMods \cup {[asked |-> op.url, got |-> archives[op.archive].url,
                                    archive |-> op.archive]}
       /\ Now(p, [at |-> "installed", op |-> op, todo |-> Rest(p)])
  /\ UNCHANGED <<second, archives, urlOps, nextUrlOp, serving, known, asked, clashed, parted>>

\* A failure leaves operation and archive.  The dashboard goes on with the next one
\* and drain_all ends; but drain_all drops an operation whose archive is missing.
Cleaned(op) == [archives EXCEPT ![op.archive] = Missing]
Left(op) == archives
InstallFails(p) ==
  /\ Draining(p)
  /\ LET op == Oldest(hand[p].todo) IN
       /\ archives' = Left(op)
       /\ IF p \in Commands /\ ~Exists(op)
          THEN urlOps' = urlOps \ {op} /\ Now(p, [hand[p] EXCEPT !.todo = Rest(p)])
          ELSE /\ UNCHANGED urlOps
               /\ Now(p, IF p \in Commands THEN Missing ELSE [hand[p] EXCEPT !.todo = Rest(p)])
  /\ UNCHANGED <<second, nextUrlOp, serving, known, urlMods, asked, clashed, parted>>

\* The archive goes, then the operation.
Unlink(p) ==
  /\ Busy(p, "installed")
  /\ archives' = Cleaned(hand[p].op)
  /\ Now(p, [hand[p] EXCEPT !.at = "unlinked"])
  /\ UNCHANGED <<second, urlOps, nextUrlOp, serving, known, urlMods, asked, clashed, parted>>
DeleteOp(p) ==
  /\ Busy(p, "unlinked")
  /\ urlOps' = urlOps \ {hand[p].op}
  /\ Now(p, [at |-> "draining", todo |-> hand[p].todo])
  /\ UNCHANGED <<second, archives, nextUrlOp, serving, known, urlMods, asked, clashed, parted>>

EndDrain(p) ==
  /\ Busy(p, "draining") /\ hand[p].todo = {}
  /\ Now(p, Missing)
  /\ UNCHANGED <<second, archives, urlOps, nextUrlOp, serving, known, urlMods, asked, clashed, parted>>

\* cancel_op_inner, in the dashboard only: archive first, then the row.
Cancel(p) ==
  /\ Ready(p) /\ p \in Handlers
  /\ \E op \in urlOps :
       /\ archives' = Cleaned(op)
       /\ Now(p, [at |-> "unlinked", op |-> op, todo |-> {}])
  /\ UNCHANGED <<second, urlOps, nextUrlOp, serving, known, urlMods, asked, clashed, parted>>

------------------------------------------------------------------------------
(* Kills, and the start of the dashboard                                   *)

Taken(p) == IF Busy(p, "unlinked") THEN {hand[p].op.archive} ELSE {}
KillCommand(p) ==
  /\ p \in Commands /\ hand[p] # Missing
  /\ parted' = parted \cup Taken(p)
  /\ Now(p, Missing)
  /\ UNCHANGED <<second, archives, urlOps, nextUrlOp, serving, known, urlMods, asked, clashed>>
StopDashboard ==
  /\ serving # "down" /\ serving' = "down" /\ known' = {}
  /\ parted' = parted \cup UNION {Taken(p) : p \in Handlers}
  /\ hand' = [p \in Procs |-> IF p \in Handlers THEN Missing ELSE hand[p]]
  /\ UNCHANGED <<second, archives, urlOps, nextUrlOp, urlMods, asked, clashed>>

\* sweep_orphaned_archives lists the operations, then removes what none names: a
\* command that is about to record its operation loses its archive.
StartSweep ==
  /\ serving = "down" /\ serving' = "sweeping"
  /\ known' = Referenced
  /\ UNCHANGED <<second, archives, urlOps, nextUrlOp, hand, urlMods, asked, clashed, parted>>
Sweep ==
  /\ serving = "sweeping" /\ serving' = "up" /\ known' = {}
  /\ archives' = [n \in ArchiveNames |-> IF n \in known THEN archives[n] ELSE Missing]
  /\ parted' = parted \cup (Referenced \ known)
       \cup {hand[p].archive : p \in {q \in Commands : Busy(q, "fetching") \/ Busy(q, "fetched")}}
  /\ UNCHANGED <<second, urlOps, nextUrlOp, hand, urlMods, asked, clashed>>

UrlNext ==
  \/ Tick
  \/ \E p \in Procs :
       \/ \E u \in Urls : Request(p, u)
       \/ Fetched(p) \/ FetchFails(p) \/ RecordOp(p)
       \/ ListOps(p) \/ InstallArchive(p) \/ InstallFails(p) \/ Unlink(p) \/ DeleteOp(p)
       \/ EndDrain(p)
       \/ Cancel(p) \/ KillCommand(p)
  \/ StopDashboard \/ StartSweep \/ Sweep

UrlSpec == UrlInit /\ [][UrlNext]_urlVars

------------------------------------------------------------------------------
UrlTypeOK ==
  /\ second \in Seconds /\ nextUrlOp \in 1..(MaxUrlOps + 1)
  /\ archives \in [ArchiveNames -> File \cup {Missing}]
  /\ urlOps \subseteq UrlOp
  /\ \A p \in Procs : hand[p] # Missing => hand[p] \in Hand
  /\ serving \in {"up", "down", "sweeping"} /\ known \subseteq ArchiveNames
  /\ urlMods \subseteq [asked : Urls, got : Urls, archive : ArchiveNames]
  /\ asked \subseteq ArchiveNames /\ clashed \subseteq ArchiveNames /\ parted \subseteq ArchiveNames

\* "archive already downloaded": a queued operation finds its archive, however drains,
\* cancellations, sweeps and kills met, unless someone is just taking both away, a kill
\* came between the two, or a sweep came before the operation of a command.  And what
\* is installed is what was asked for, and no archive is installed twice, though an
\* operation may be applied by two drains or again after a kill.  Two requests of one
\* second that share a name are excepted.
ArchivesServe ==
  /\ \A op \in urlOps :
       \/ Exists(op)
       \/ op.archive \in clashed \cup parted
       \/ \E p \in Procs : Busy(p, "unlinked") /\ hand[p].op = op
  /\ \A i, j \in urlMods :
       /\ i.archive \notin clashed => i.got = i.asked
       /\ i.got = j.got => i = j
=============================================================================
