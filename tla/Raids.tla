------------------------------- MODULE Raids -------------------------------
(***************************************************************************)
(* The raid statistics: the poller that asks Fika every few seconds who is *)
(* on a map (src/src/web/poller.rs), the tracker that opens and closes the *)
(* rows (src/src/web/raid_tracker.rs) and their table (src/src/db/raids.rs).*)
(* The poller is one task: a poll is a presence request, a pause that lets *)
(* SPT write its profiles, one step for every player who left, one step    *)
(* for every player who came.  The players do not wait for it.  A kill is  *)
(* its place in the victim list of the profile, which SPT writes at some   *)
(* time after the raid; a player has one character here.                   *)
(***************************************************************************)
EXTENDS Naturals, FiniteSets, Functions

CONSTANTS
  Players,    \* SPT profiles
  Headless,   \* those of the headless clients
  MaxRaids,   \* bound on the rows
  MaxKills,   \* bound on the kills of a player
  MaxExits,   \* bound on the raids of a player that the game counts
  RaidsPerPage

ASSUME RaidsAssumption ==
  Headless \subseteq Players /\ MaxRaids \in Nat /\ MaxKills \in Nat /\ MaxExits \in Nat
  /\ RaidsPerPage \in Nat \ {0}

VARIABLES
  onMap,      \* the players in a raid (the game)
  unsaved,    \* player -> what is not in the profile yet (the game)
  profile,    \* player -> length of the victim list and exit counters on disk
  registered, \* players with an account in the dashboard
  raids,      \* the rows
  lastRaid,   \* the last row id
  tracked,    \* player -> the raid the poller waits to see end, or NoRaid
  poll        \* the poll under way

raidVars == <<onMap, unsaved, profile, registered, raids, lastRaid, tracked, poll>>

RaidIds == 1..MaxRaids
Outcomes == {"Survived", "Killed"}
Counters == [Outcomes -> 0..MaxExits]
Result == [kills : 0..MaxKills, exits : Counters]
NoResult == [kills |-> 0, exits |-> [o \in Outcomes |-> 0]]
RaidRow == [id : RaidIds, player : Players, before : 0..MaxKills, open : BOOLEAN,
            kills : SUBSET (1..MaxKills), exit : Outcomes \cup {"none", "Unknown"}]
NoRaid == [row |-> 0, before |-> NoResult.exits]
Polls == [at : {"idle", "ending", "starting"}, seen : SUBSET Players, todo : SUBSET Players]
Idle == [at |-> "idle", seen |-> {}, todo |-> {}]

OpenOf(p) == {r \in raids : r.player = p /\ r.open}

RaidsInit ==
  /\ onMap = {} /\ registered = Players
  /\ unsaved = [p \in Players |-> NoResult] /\ profile = unsaved
  /\ raids = {} /\ lastRaid = 0
  /\ tracked = [p \in Players |-> NoRaid]
  /\ poll = Idle

------------------------------------------------------------------------------
(* The game                                                                *)

Rows == <<raids, lastRaid, tracked, poll>>

EnterMap(p) ==
  /\ p \notin onMap /\ onMap' = onMap \cup {p}
  /\ UNCHANGED <<unsaved, profile, registered, Rows>>

\* Who drops out of a raid may leave no trace of it.  (A headless client fights nobody
\* and its exits are nobody's: they are left out.)
LeaveMap(p) ==
  /\ p \in onMap /\ onMap' = onMap \ {p}
  /\ \/ UNCHANGED unsaved
     \/ \E o \in Outcomes :
          /\ p \notin Headless
          /\ profile[p].exits[o] + unsaved[p].exits[o] < MaxExits
          /\ unsaved' = [unsaved EXCEPT ![p].exits[o] = @ + 1]
  /\ UNCHANGED <<profile, registered, Rows>>
Kill(p) ==
  /\ p \in onMap \ Headless /\ profile[p].kills + unsaved[p].kills < MaxKills
  /\ unsaved' = [unsaved EXCEPT ![p].kills = @ + 1]
  /\ UNCHANGED <<onMap, profile, registered, Rows>>
SaveProfile(p) ==
  /\ p \notin onMap /\ unsaved[p] # NoResult
  /\ profile' = [profile EXCEPT ![p] =
       [kills |-> @.kills + unsaved[p].kills,
        exits |-> [o \in Outcomes |-> @.exits[o] + unsaved[p].exits[o]]]]
  /\ unsaved' = [unsaved EXCEPT ![p] = NoResult]
  /\ UNCHANGED <<onMap, registered, Rows>>

\* The account is deleted, its raids with it (ON DELETE CASCADE).
Deregister(p) ==
  /\ p \in registered
  /\ registered' = registered \ {p}
  /\ raids' = {r \in raids : r.player # p}
  /\ UNCHANGED <<onMap, unsaved, profile, lastRaid, tracked, poll>>

------------------------------------------------------------------------------
(* The poller                                                              *)

World == <<onMap, unsaved, profile, registered>>

\* Nobody is left to end, or to start: go on with the players who came, or stop.
Phase(seen, todo) ==
  IF todo # {} THEN [at |-> "ending", seen |-> seen, todo |-> todo]
  ELSE [at |-> "starting", seen |-> seen, todo |-> seen]
Waiting == {p \in Players : tracked[p] # NoRaid}

\* poll_once asks Fika; when it fails the poll is over before it began.
AskPresence ==
  /\ poll.at = "idle"
  /\ poll' = Phase(onMap, Waiting \ onMap)
  /\ UNCHANGED <<World, raids, lastRaid, tracked>>

\* handle_raid_end: the kills that the victim list has beyond the start of the raid, and
\* a counter that went up since, go into the open row, in one transaction.  The victims
\* are read after the counters, from the file again, and it may be unreadable by then.
FromLast(r, p) == r.before..profile[p].kills  \* mutant: off by one
New(r, p) == (r.before + 1)..profile[p].kills
DiffExitStatus(before, after) ==
  LET up == {o \in Outcomes : after[o] > before[o]} IN IF up = {} THEN {"Unknown"} ELSE up
CloseRow(p, readable) ==
  IF readable
  THEN \E exit \in DiffExitStatus(tracked[p].before, profile[p].exits), again \in BOOLEAN :
         raids' = {IF r \in OpenOf(p)
                   THEN [r EXCEPT !.open = FALSE, !.exit = exit,
                                  !.kills = IF again THEN New(r, p) ELSE {}]
                   ELSE r : r \in raids}
  ELSE UNCHANGED raids

\* The raid is forgotten first; the profile may be unreadable (it is being written).
EndRaid(p) ==
  /\ poll.at = "ending" /\ p \in poll.todo
  /\ tracked' = [tracked EXCEPT ![p] = NoRaid]
  /\ \E readable \in BOOLEAN : CloseRow(p, readable)
  /\ poll' = Phase(poll.seen, poll.todo \ {p})
  /\ UNCHANGED <<World, lastRaid>>

\* close_orphaned_raids, then the new row.
KeepOrphans(p) == raids  \* mutant: open rows of the player stay open
CloseOrphans(p) ==
  {IF r \in OpenOf(p) THEN [r EXCEPT !.open = FALSE, !.exit = "Unknown"] ELSE r : r \in raids}

Opens(p, readable) == readable /\ p \in registered /\ tracked[p] = NoRaid
StartRaid(p) ==
  /\ poll.at = "starting" /\ p \in poll.todo
  /\ \E readable \in BOOLEAN :
       IF Opens(p, readable)
       THEN /\ lastRaid < MaxRaids
            /\ lastRaid' = lastRaid + 1
            /\ raids' = CloseOrphans(p) \cup {[id |-> lastRaid', player |-> p,
                 before |-> profile[p].kills, open |-> TRUE, kills |-> {}, exit |-> "none"]}
            /\ tracked' = [tracked EXCEPT ![p] = [row |-> lastRaid', before |-> profile[p].exits]]
       ELSE UNCHANGED <<raids, lastRaid, tracked>>
  /\ poll' = [poll EXCEPT !.todo = @ \ {p}]
  /\ UNCHANGED World

EndPoll ==
  /\ poll.at = "starting" /\ poll.todo = {}
  /\ poll' = Idle
  /\ UNCHANGED <<World, raids, lastRaid, tracked>>

\* The dashboard restarts in the middle of raids, or of a poll.
PollerRestart ==
  /\ tracked' = [p \in Players |-> NoRaid]
  /\ poll' = Idle
  /\ UNCHANGED <<World, raids, lastRaid>>

RaidsNext ==
  \/ \E p \in Players :
       \/ EnterMap(p) \/ LeaveMap(p) \/ Kill(p) \/ SaveProfile(p) \/ Deregister(p)
       \/ EndRaid(p) \/ StartRaid(p)
  \/ AskPresence \/ EndPoll \/ PollerRestart

RaidsSpec == RaidsInit /\ [][RaidsNext]_raidVars

------------------------------------------------------------------------------
(* The pages: what they tell of a set of rows, and which rows they take.   *)
(* No row has a server_id (insert_raid gets none): every raid is its own   *)
(* group.                                                                  *)

Exits(rows, o) == Cardinality({r \in rows : r.exit = o})
Stats(rows) == [raids |-> Cardinality(rows), survived |-> Exits(rows, "Survived"),
                deaths |-> Exits(rows, "Killed"),
                kills |-> SumFunction([r \in rows |-> Cardinality(r.kills)])]

ShownRaids == {r \in raids : r.player \notin Headless}
ActiveRaids == {r \in ShownRaids : r.open}
GetUserRaidStats(p) == Stats({r \in ShownRaids : r.player = p})
GetServerRaidStats == Stats(ShownRaids)
RankedRaids(p) == {r \in ShownRaids : r.player = p /\ ~r.open}
GetLeaderboard(minRaids) ==
  LET ranked == {p \in Players : Cardinality(RankedRaids(p)) >= minRaids /\ RankedRaids(p) # {}}
  IN [p \in ranked |-> Stats(RankedRaids(p))]

\* A page of rows from an offset, the newest first, and whether there are more: the
\* query asks for one row too many.
RowsFrom(rows, limit, offset) ==
  {r \in rows : Cardinality({s \in rows : s.id > r.id}) \in offset..(offset + limit - 1)}
RaidsPage(rows, offset) ==
  LET found == RowsFrom(rows, RaidsPerPage + 1, offset) IN
  [raids |-> RowsFrom(rows, RaidsPerPage, offset), more |-> Cardinality(found) > RaidsPerPage]

NotFound == [raids |-> {}, more |-> FALSE]
AllRaidsPage(offset) == RaidsPage(ShownRaids, offset)
PlayerRaidsPage(p, offset) ==
  IF p \notin registered \/ p \in Headless THEN NotFound
  ELSE RaidsPage({r \in ShownRaids : r.player = p}, offset)
StatsPage(minRaids) ==
  [all |-> GetServerRaidStats, active |-> ActiveRaids,
   recent |-> RowsFrom({r \in ShownRaids : ~r.open}, RaidsPerPage, 0),
   leaderboard |-> GetLeaderboard(minRaids)]
RaidDetailPage(id) ==
  [raids |-> {r \in ShownRaids : r.id = id /\ r.player \in registered}, more |-> FALSE]

------------------------------------------------------------------------------
RaidsTypeOK ==
  /\ onMap \subseteq Players /\ registered \subseteq Players
  /\ unsaved \in [Players -> Result] /\ profile \in [Players -> Result]
  /\ raids \subseteq RaidRow /\ lastRaid \in 0..MaxRaids
  /\ tracked \in [Players -> [row : 0..MaxRaids, before : Counters]]
  /\ poll \in Polls

\* A player is in at most one raid, and what the poller waits for is that row (or the
\* account is gone), though raids merge, restarts forget them and their end may fail:
\* the page of the raids under way never shows a player twice, and the end of a raid
\* is entered in the row that its start made.
OneOpenRaid ==
  /\ \A p \in Players : Cardinality(OpenOf(p)) <= 1
  /\ \A p \in registered : tracked[p] # NoRaid => {r.id : r \in OpenOf(p)} = {tracked[p].row}

\* A kill counts for one raid, however late SPT writes the profile, and also when
\* the raid it belongs to was cut in two by a restart, or two raids were merged; and
\* of the deaths and survivals that the profile counts, none is told of two raids.
KillsCountOnce ==
  /\ \A r, s \in raids : r # s /\ r.player = s.player => r.kills \cap s.kills = {}
  /\ \A p \in Players, o \in Outcomes :
       Exits({r \in raids : r.player = p}, o) <= profile[p].exits[o]

\* The pages tell one story: the leaderboard has of every player what the player's own
\* page has, but for the raid under way, and their raids add up to those of the server;
\* leafing to the end shows every raid, and whatever a page lists has a page of its own
\* and is in the list of its player.
PagesAgree ==
  LET page == StatsPage(0)
      board == page.leaderboard
      leafed == [n \in 0..MaxRaids |-> AllRaidsPage(RaidsPerPage * n)]
      ofPlayer == [p \in Players |->
        UNION {PlayerRaidsPage(p, RaidsPerPage * n).raids : n \in 0..MaxRaids}]
  IN /\ \A p \in DOMAIN board :
          GetUserRaidStats(p) = [board[p] EXCEPT !.raids = @ + Cardinality(OpenOf(p))]
     /\ page.all.raids =
          Cardinality(page.active) + SumFunction([p \in DOMAIN board |-> board[p].raids])
     /\ \A n \in 1..MaxRaids : leafed[n - 1].more <=> leafed[n] # NotFound
     /\ \A r \in page.active \cup page.recent \cup UNION {leafed[n].raids : n \in 0..MaxRaids} :
          RaidDetailPage(r.id).raids = {r} /\ r \in ofPlayer[r.player]

\* All three: what the pages tell of the raids is what the game has counted, once.  The
\* pages show rows only, so they are looked at when no poll is under way and no raid is
\* waited for: every set of rows there can be is there after a restart of the poller.
RaidsAreTrue ==
  OneOpenRaid /\ KillsCountOnce /\ (poll = Idle /\ Waiting = {} => PagesAgree)
=============================================================================
