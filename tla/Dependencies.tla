---------------------------- MODULE Dependencies ----------------------------
(***************************************************************************)
(* Installing a mod with what it needs, and removing one with what needs   *)
(* it.  The Forge answers with a tree of dependency nodes; the missing     *)
(* ones are installed first, children before parents, each with a download *)
(* of its own, and then the mod itself.  The dashboard                     *)
(* (src/src/web/handlers, src/src/ops.rs) and the commands (src/src/cli)   *)
(* do so side by side; only the change of a row is made under the lock.    *)
(* What an installation brought in or found on its way is recorded as an   *)
(* edge between two rows, and a queued removal follows the edges back.     *)
(***************************************************************************)
EXTENDS Naturals, Sequences, SequencesExt

CONSTANTS
  ForgeMods,   \* ids of mods on the Forge
  Releases,    \* the versions of a mod, in order
  Forges,      \* what the Forge may say: [needs, conflicts, bare]
  Runners,     \* handlers and tasks of the dashboard
  Shells,      \* runs of the command line tool
  MaxAsked,    \* bound on the requests ever made
  MaxWalk,     \* bound on the steps of a walk over one of the Forge's trees
  Absent

\* needs[m][r] lists the nodes below release r of m; a node may be a conflict for
\* its parent; a bare mod has no release that is compatible.
ASSUME ForgeAssumption ==
  \A f \in Forges :
    /\ f.needs \in [ForgeMods -> [Releases -> Seq(ForgeMods)]]
    /\ f.conflicts \subseteq ForgeMods \X ForgeMods
    /\ f.bare \subseteq ForgeMods

\* There is a latest release; the mark is no row.
ASSUME DepsAssumption ==
  /\ \E r \in Releases : \A s \in Releases : s <= r
  /\ Absent \notin [id : Nat, rel : Releases]
  /\ MaxAsked \in Nat /\ MaxWalk \in Nat

VARIABLES
  forge,        \* what the Forge says
  modRow,       \* mod -> its row [id, rel], or Absent
  edges,        \* rows of mod_dependencies: <<row, row it depends on>>
  nextRow,      \* AUTOINCREMENT of installed_mods
  requests,     \* how many requests were made
  errand,       \* process -> what it is doing, or Absent
  everRemoved,  \* the mods that were removed at some time
  unresolved,   \* the mods whose release was set by an update that resolves nothing
  lost          \* <<x, t>>: x was taken along by a queued removal of t

depVars == <<forge, modRow, edges, nextRow, requests, errand, everRemoved, unresolved, lost>>
ghosts == <<everRemoved, unresolved, lost>>

Hands == Runners \cup Shells
Latest == CHOOSE r \in Releases : \A s \in Releases : s <= r
Here == {m \in ForgeMods : modRow[m] # Absent}
Alive == {modRow[m].id : m \in Here}
ModOf(id) == CHOOSE m \in Here : modRow[m].id = id

DepsTypeOK ==
  /\ forge \in Forges
  /\ \A m \in Here : modRow[m].id \in 1..(nextRow - 1) /\ modRow[m].rel \in Releases
  /\ edges \subseteq Alive \X Alive
  /\ nextRow \in Nat \ {0} /\ requests \in 0..MaxAsked
  /\ everRemoved \cup unresolved \subseteq ForgeMods

DepsInit ==
  /\ forge \in Forges
  /\ modRow = [m \in ForgeMods |-> Absent]
  /\ edges = {} /\ nextRow = 1 /\ requests = 0
  /\ errand = [p \in Hands |-> Absent]
  /\ everRemoved = {} /\ unresolved = {} /\ lost = {}

Doing(p, at) == errand[p] # Absent /\ errand[p].at = at
Does(p, e) == errand' = [errand EXCEPT ![p] = e]
Ends(p) == Does(p, Absent)
Asked == requests < MaxAsked /\ requests' = requests + 1

------------------------------------------------------------------------------
(* The plan                                                                *)

\* The nodes below release r of m.  A node that was opened waits for its children.
Nodes(m, r) ==
  [i \in DOMAIN forge.needs[m][r] |-> [parent |-> m, mod |-> forge.needs[m][r][i], open |-> FALSE]]

PassedOver(n, out) == <<n.parent, n.mod>> \in forge.conflicts \/ n.mod \in Here \/ n.mod \in ToSet(out)

\* The walk over the tree, one node at a time: a conflict, an installed mod and one
\* already listed are passed over with all below them; any other node is listed after
\* its children, unless it lacks a release that is compatible.
WalkStep(s) ==
  IF s.todo = <<>> THEN s
  ELSE LET n == Head(s.todo) IN
    IF n.open
    THEN IF n.mod \in forge.bare
         THEN [s EXCEPT !.todo = Tail(@), !.lacks = TRUE]
         ELSE [s EXCEPT !.todo = Tail(@), !.out = Append(@, n.mod)]
    ELSE IF PassedOver(n, s.out)
    THEN [s EXCEPT !.todo = Tail(@)]
    ELSE [s EXCEPT !.todo = Nodes(n.mod, Latest) \o <<[n EXCEPT !.open = TRUE]>> \o Tail(@)]

Walk(m, r) ==
  LET W[k \in 0..MaxWalk] ==
        IF k = 0 THEN [todo |-> Nodes(m, r), out |-> <<>>, lacks |-> FALSE] ELSE WalkStep(W[k - 1])
  IN W[MaxWalk]

\* An errand starts with the plan, or goes straight to the archive.
Begin(p, act, at, m, r, queued) ==
  /\ Asked
  /\ errand[p] = Absent
  /\ Does(p, [at |-> at, act |-> act, mod |-> m, rel |-> r, queued |-> queued,
              straight |-> at = "deps", row |-> IF m \in Here THEN modRow[m].id ELSE Absent,
              todo |-> <<>>, got |-> {}])
  /\ UNCHANGED <<forge, modRow, edges, nextRow, ghosts>>

\* install_mod, the install of a request, a queued install, and the command all
\* refuse what is installed.
AskInstall(p, m, r) ==
  /\ p \in Runners /\ m \notin Here
  /\ \E queued \in BOOLEAN : Begin(p, "install", "plan", m, r, queued)

CliInstall(p, m, r) ==
  p \in Shells /\ m \notin Here /\ Begin(p, "install", "plan", m, r, FALSE)

\* The update of one mod on the dashboard resolves the needs of the new release.
AskUpdate(p, m, r) ==
  /\ p \in Runners /\ m \in Here /\ modRow[m].rel # r
  /\ \E queued \in BOOLEAN : Begin(p, "update", "plan", m, r, queued)

\* The update of all mods (here one request for each), and the command, do not.
AskUpdateAll(p, m, r) ==
  /\ p \in Runners /\ m \in Here /\ modRow[m].rel # r
  /\ Begin(p, "update", "deps", m, r, FALSE)

CliUpdate(p, m, r) ==
  /\ p \in Shells /\ m \in Here /\ modRow[m].rel # r
  /\ Begin(p, "update", "deps", m, r, FALSE)

\* Of a mod without a compatible release the dashboard installs only what it
\* needs; a command gives up.  In a tree without an end the code would not return.
MakePlan(p) ==
  /\ Doing(p, "plan")
  /\ LET plan == Walk(errand[p].mod, errand[p].rel) IN
       /\ plan.todo = <<>>
       /\ IF p \in Shells /\ plan.lacks THEN Ends(p)
          ELSE Does(p, [errand[p] EXCEPT !.at = "deps", !.todo = plan.out])
  /\ UNCHANGED <<forge, requests, modRow, edges, nextRow, ghosts>>

------------------------------------------------------------------------------
(* The dependencies, one after the other                                   *)

InsertModRow(m, r) ==
  /\ modRow' = [modRow EXCEPT ![m] = [id |-> nextRow, rel |-> r]]
  /\ nextRow' = nextRow + 1

\* Installed meanwhile, by another process.
PassDep(p) ==
  /\ Doing(p, "deps") /\ errand[p].todo # <<>>
  /\ LET n == Head(errand[p].todo) IN
       /\ n \in Here
       /\ Does(p, [errand[p] EXCEPT !.todo = Tail(@), !.got = @ \cup {<<n, modRow[n].id>>}])
  /\ UNCHANGED <<forge, requests, modRow, edges, nextRow, ghosts>>

FetchDep(p) ==
  /\ Doing(p, "deps") /\ errand[p].todo # <<>>
  /\ Head(errand[p].todo) \notin Here
  /\ Does(p, [errand[p] EXCEPT !.at = "fetched"])
  /\ UNCHANGED <<forge, requests, modRow, edges, nextRow, ghosts>>

\* forge_mod_id is UNIQUE: an install that comes second ends with an error.
LandDep(p) ==
  /\ Doing(p, "fetched")
  /\ LET n == Head(errand[p].todo) IN
       IF n \in Here THEN Ends(p) /\ UNCHANGED <<modRow, nextRow>>
       ELSE /\ InsertModRow(n, Latest)
            /\ Does(p, [errand[p] EXCEPT !.at = "deps", !.todo = Tail(@), !.got = @ \cup {<<n, nextRow>>}])
  /\ UNCHANGED <<forge, requests, edges, ghosts>>

------------------------------------------------------------------------------
(* The mod itself, and the edges                                           *)

ReadyToLand(p, act) ==
  Doing(p, "deps") /\ errand[p].todo = <<>> /\ errand[p].act = act

Linking(p, id) == Does(p, [errand[p] EXCEPT !.at = "edges", !.row = id])

LandMod(p) ==
  /\ ReadyToLand(p, "install")
  /\ errand[p].mod \notin Here
  /\ InsertModRow(errand[p].mod, errand[p].rel)
  /\ Linking(p, nextRow)
  /\ UNCHANGED <<forge, requests, edges, ghosts>>

\* A queued install and a command that finds the mod installed before its
\* download take the row that is there; otherwise the insertion fails.
LandSecond(p) ==
  /\ ReadyToLand(p, "install")
  /\ errand[p].mod \in Here
  /\ \/ /\ (errand[p].queued \/ p \in Shells)
        /\ Linking(p, modRow[errand[p].mod].id)
     \/ ~errand[p].queued /\ Ends(p)
  /\ UNCHANGED <<forge, requests, modRow, edges, nextRow, ghosts>>

\* A queued update looks the mod up by its Forge id when the archive is there,
\* the others use the row they began with.
StillThere(p) ==
  LET m == errand[p].mod IN
    m \in Here /\ (errand[p].queued \/ modRow[m].id = errand[p].row)

SwapRelease(p) ==
  /\ ReadyToLand(p, "update") /\ ~errand[p].straight
  /\ LET m == errand[p].mod IN
       IF StillThere(p)
       THEN /\ modRow' = [modRow EXCEPT ![m].rel = errand[p].rel]
            /\ unresolved' = unresolved \ {m}
            /\ Linking(p, modRow[m].id)
       ELSE Ends(p) /\ UNCHANGED <<modRow, unresolved>>
  /\ UNCHANGED <<forge, requests, edges, nextRow, everRemoved, lost>>

SwapStraight(p) ==
  /\ ReadyToLand(p, "update") /\ errand[p].straight
  /\ IF StillThere(p)
     THEN /\ modRow' = [modRow EXCEPT ![errand[p].mod].rel = errand[p].rel]
          /\ unresolved' = unresolved \cup {errand[p].mod}
     ELSE UNCHANGED <<modRow, unresolved>>
  /\ Ends(p)
  /\ UNCHANGED <<forge, requests, edges, nextRow, everRemoved, lost>>

\* The dashboard remembers the rows, a command looks them up again.
FoundBy(p) ==
  IF p \in Shells THEN {modRow[g[1]].id : g \in {h \in errand[p].got : h[1] \in Here}}
  ELSE {g[2] : g \in errand[p].got}

\* An edge to or from a row that is gone is refused, and nobody minds.
EdgesBack(id, S) == {<<d, id>> : d \in S \cap Alive}  \* mutant: the wrong way round
EdgesTo(id, S) == {<<id, d>> : d \in S \cap Alive}

RecordEdges(p) ==
  /\ Doing(p, "edges")
  /\ edges' = edges \cup
       (IF errand[p].row \in Alive THEN EdgesTo(errand[p].row, FoundBy(p) \ {errand[p].row}) ELSE {})
  /\ Ends(p)
  /\ UNCHANGED <<forge, requests, modRow, nextRow, ghosts>>

\* The Forge does not answer, a download fails, or the process is killed: what is
\* installed stays.
Abandon(p) ==
  /\ errand[p] # Absent /\ Ends(p)
  /\ UNCHANGED <<forge, requests, modRow, edges, nextRow, ghosts>>

------------------------------------------------------------------------------
(* Removals                                                                *)

\* ON DELETE CASCADE
DropRows(ids) ==
  LET gone == {m \in Here : modRow[m].id \in ids} IN
    /\ modRow' = [m \in ForgeMods |-> IF m \in gone THEN Absent ELSE modRow[m]]
    /\ edges' = {e \in edges : e[1] \notin ids /\ e[2] \notin ids}
    /\ everRemoved' = everRemoved \cup gone
    /\ unresolved' = unresolved \ gone

\* remove_mod removes what it was asked to remove, whatever needs it.
RemoveOne(m) ==
  /\ Asked
  /\ m \in Here
  /\ DropRows({modRow[m].id})
  /\ UNCHANGED <<forge, nextRow, errand, lost>>

\* Breadth first along the edges, the mod itself in front, one row at a time.
BackStep(s) ==
  LET fresh == {e[1] : e \in {d \in edges : d[2] = Head(s.todo)}} \ ToSet(s.found)
      next == CHOOSE i \in fresh : \A j \in fresh : i <= j
  IN IF s.todo = <<>> THEN s
     ELSE IF fresh = {} THEN [s EXCEPT !.todo = Tail(@)]
     ELSE [todo |-> Append(s.todo, next), found |-> Append(s.found, next)]

\* Every row is found once and left once.
Dependents(id) ==
  LET B[k \in 0..(2 * nextRow)] ==
        IF k = 0 THEN [todo |-> <<id>>, found |-> <<id>>] ELSE BackStep(B[k - 1])
  IN B[2 * nextRow].found

RemovalOrder(m) == Reverse(Dependents(modRow[m].id))

TakenAlong(ids, t) == {<<ModOf(i), t>> : i \in (ids \cap Alive) \ {modRow[t].id}}

\* The queue of the dashboard: under one lock, and an error stops halfway.
RemoveQueued(m) ==
  /\ Asked
  /\ m \in Here
  /\ \E n \in 1..Len(RemovalOrder(m)) :
       LET ids == ToSet(SubSeq(RemovalOrder(m), 1, n)) IN
         DropRows(ids) /\ lost' = lost \cup TakenAlong(ids, m)
  /\ UNCHANGED <<forge, nextRow, errand>>

\* A command lists what to remove, and removes one after the other.
AskRemove(p, m) ==
  /\ Asked
  /\ p \in Shells /\ errand[p] = Absent /\ m \in Here
  /\ Does(p, [at |-> "remove", mod |-> m, todo |-> RemovalOrder(m)])
  /\ lost' = lost \cup TakenAlong(ToSet(RemovalOrder(m)), m)
  /\ UNCHANGED <<forge, modRow, edges, nextRow, everRemoved, unresolved>>

RemoveListed(p) ==
  /\ Doing(p, "remove")
  /\ DropRows({Head(errand[p].todo)})
  /\ IF Len(errand[p].todo) = 1 \/ Head(errand[p].todo) \notin Alive THEN Ends(p)
     ELSE Does(p, [errand[p] EXCEPT !.todo = Tail(@)])
  /\ UNCHANGED <<forge, requests, nextRow, lost>>

------------------------------------------------------------------------------
DepsNext ==
  \/ \E p \in Hands, m \in ForgeMods, r \in Releases :
       \/ AskInstall(p, m, r) \/ AskUpdate(p, m, r) \/ AskUpdateAll(p, m, r)
       \/ CliInstall(p, m, r) \/ CliUpdate(p, m, r)
  \/ \E p \in Hands :
       \/ MakePlan(p) \/ PassDep(p) \/ FetchDep(p) \/ LandDep(p)
       \/ LandMod(p) \/ LandSecond(p) \/ SwapRelease(p) \/ SwapStraight(p)
       \/ RecordEdges(p) \/ Abandon(p) \/ RemoveListed(p)
       \/ \E m \in ForgeMods : AskRemove(p, m)
  \/ \E m \in ForgeMods : RemoveOne(m) \/ RemoveQueued(m)

DepsSpec == DepsInit /\ [][DepsNext]_depVars

------------------------------------------------------------------------------
\* What a mod needs in the release it has: no conflict, and something to install.
NeedsNow(m) ==
  {n \in ToSet(forge.needs[m][modRow[m].rel]) : <<m, n>> \notin forge.conflicts /\ n \notin forge.bare}

Satisfied(m) == \A n \in NeedsNow(m) : n \in Here \/ n \in everRemoved

\* At every moment, also between two dependencies and after a kill, whatever an
\* installed mod needs is installed too, unless somebody removed it, or the
\* release of the mod was set by an update that resolves nothing.
NeedsArePresent == \A m \in Here \ unresolved : Satisfied(m)

\* All that some release of a mod needs, through any number of others.
Closed(S) == \A m \in S, r \in Releases : ToSet(forge.needs[m][r]) \subseteq S
Below(S) == {n \in ForgeMods : \A T \in SUBSET ForgeMods : S \subseteq T /\ Closed(T) => n \in T}

\* A removal takes along only what has, in some release, needed the mod.  (The
\* edges of an older release are never deleted.)
OnlyDependentsGo == \A e \in lost : e[2] \in Below({e[1]})

\* Both: what is needed stays, and what is not needed by what went stays too.
NeedsAreKept == NeedsArePresent /\ OnlyDependentsGo
=============================================================================
