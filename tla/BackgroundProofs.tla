-------------------------- MODULE BackgroundProofs --------------------------
(* Theorems about what the dashboard does in the background, for any        *)
(* players, mods, groups, URLs, processes and bounds: raids are told once,  *)
(* the caches of the mods page are true, archives serve their operations,   *)
(* and folders follow their mods into the sync groups.                      *)
EXTENDS MCBackground, Numbers, FiniteSetTheorems, TLAPS

------------------------------------------------------------------------------
(* Tasks: as long as only finished tasks are dismissed                      *)

\* Task numbers are handed out once, and every worker has its running task.
Numbered ==
  /\ \A t \in tasks : t.task < nextId
  /\ \A w \in workers : w.task < nextId
  /\ \A t, u \in tasks : t.task = u.task => t = u
  /\ \A w, x \in workers : w.task = x.task => w = x

Tracked ==
  \A w \in workers : \E t \in Running(tasks) : t.task = w.task /\ t.id = w.id

Worked ==
  \A t \in Running(tasks) : \E w \in workers : t.task = w.task

Inv == TypeOK /\ Numbered /\ Tracked /\ Worked /\ OneWorkerPerId

LEMMA StartKeeps ==
  ASSUME Inv, NEW id \in Ids, NEW bulk \in BOOLEAN, NotRunning(id), Start(id, bulk)
  PROVE  Inv'
  <1>. DEFINE t0 == [task |-> nextId, id |-> id, status |-> "running"]
              w0 == [task |-> nextId, id |-> id, bulk |-> bulk]
  <1>1. /\ nextId \in 1..MaxTasks
        /\ nextId' = nextId + 1
        /\ tasks' = tasks \cup {t0}
        /\ workers' = workers \cup {w0}
    BY TrackerAssumption DEF Inv, TypeOK, Start
  <1>2. t0 \in TaskInfo /\ w0 \in Worker
    BY <1>1 DEF TaskInfo, Worker, Statuses
  <1>3. TypeOK'
    BY <1>1, <1>2, TrackerAssumption DEF Inv, TypeOK
  <1>4. /\ t0.task = nextId /\ t0.id = id /\ t0.status = "running"
        /\ w0.task = nextId /\ w0.id = id
    OBVIOUS
  <1>5. /\ \A t \in tasks : t.task \in 1..MaxTasks /\ t.task < nextId
        /\ \A w \in workers : w.task \in 1..MaxTasks /\ w.task < nextId
    BY DEF Inv, TypeOK, Numbered, TaskInfo, Worker
  <1>. HIDE DEF t0, w0
  <1>6. Numbered'
    BY <1>1, <1>4, <1>5, TrackerAssumption DEF Inv, Numbered
  <1>7. Running(tasks)' = Running(tasks) \cup {t0}
    BY <1>1, <1>4 DEF Running
  <1>8. Tracked' /\ Worked'
    BY <1>1, <1>4, <1>7 DEF Inv, Tracked, Worked
  <1>9. \A w \in workers : w.id # id
    BY DEF Inv, Tracked, NotRunning
  <1>10. OneWorkerPerId'
    BY <1>1, <1>4, <1>9 DEF Inv, OneWorkerPerId
  <1>. QED BY <1>3, <1>6, <1>8, <1>10 DEF Inv

\* Pruning takes finished tasks only.
LEMMA PrunedKeepsRunning ==
  ASSUME NEW ts
  PROVE  Pruned(ts) \subseteq ts /\ Running(Pruned(ts)) = Running(ts)
  BY DEF Pruned, Running, Finished

LEMMA FinishKeeps ==
  ASSUME Inv, NEW w \in workers, NEW status \in {"completed", "failed"}, Finish(w, status)
  PROVE  Inv'
  <1>. DEFINE Ended(t) == IF t.task = w.task THEN [t EXCEPT !.status = status] ELSE t
              ts == {Ended(t) : t \in tasks}
  <1>1. /\ workers' = workers \ {w}
        /\ tasks' = Pruned(ts)
        /\ nextId' = nextId
    BY DEF Finish
  <1>2. \A t \in tasks :
          /\ Ended(t) \in TaskInfo
          /\ Ended(t).task = t.task /\ Ended(t).id = t.id
          /\ t.task = w.task => Ended(t).status = status
          /\ t.task # w.task => Ended(t) = t
    BY DEF Inv, TypeOK, TaskInfo, Statuses
  <1>. HIDE DEF Ended
  <1>3. /\ tasks' \subseteq ts
        /\ Running(tasks)' = Running(ts)
    BY <1>1, PrunedKeepsRunning DEF Running
  <1>4. TypeOK'
    BY <1>1, <1>2, <1>3 DEF Inv, TypeOK
  <1>5. Numbered'
    BY <1>1, <1>2, <1>3 DEF Inv, Numbered
  <1>6. Running(ts) = {t \in Running(tasks) : t.task # w.task}
    BY <1>2 DEF Running
  <1>7. Tracked'
    <2>. SUFFICES ASSUME NEW x \in workers \ {w}
                  PROVE  \E t \in Running(ts) : t.task = x.task /\ t.id = x.id
      BY <1>1, <1>3 DEF Tracked
    <2>1. x.task # w.task
      BY DEF Inv, Numbered
    <2>. QED BY <1>6, <2>1 DEF Inv, Tracked
  <1>8. Worked'
    BY <1>1, <1>3, <1>6 DEF Inv, Worked
  <1>9. OneWorkerPerId'
    BY <1>1 DEF Inv, OneWorkerPerId
  <1>. QED BY <1>4, <1>5, <1>7, <1>8, <1>9 DEF Inv

LEMMA DismissKeeps ==
  ASSUME ~DismissAny, Inv, NEW t \in tasks, Dismiss(t)
  PROVE  Inv'
  <1>1. /\ tasks' = tasks \ {t} /\ UNCHANGED <<nextId, workers>>
        /\ Running(tasks)' = Running(tasks)
    BY DEF Dismiss, Running
  <1>. QED BY <1>1 DEF Inv, TypeOK, Numbered, Tracked, Worked, OneWorkerPerId

LEMMA InitInv == Init => Inv
  BY TrackerAssumption DEF Init, Inv, TypeOK, Numbered, Tracked, Worked, Running, OneWorkerPerId

LEMMA NextInv == ~DismissAny /\ Inv /\ [Next]_vars => Inv'
  <1>. SUFFICES ASSUME ~DismissAny, Inv, [Next]_vars PROVE Inv'
    OBVIOUS
  <1>1. ASSUME NEW id \in Ids, StartIfNotRunning(id) PROVE Inv'
    BY <1>1, StartKeeps DEF StartIfNotRunning
  <1>2. CASE StartIfNoActive
    <2>1. NotRunning(Zero) /\ Zero \in Ids
      BY <1>2, TrackerAssumption DEF StartIfNoActive, NotRunning
    <2>. QED BY <1>2, <2>1, StartKeeps DEF StartIfNoActive
  <1>3. ASSUME NEW w \in workers, Complete(w) \/ Fail(w) PROVE Inv'
    BY <1>3, FinishKeeps DEF Complete, Fail
  <1>4. ASSUME NEW t \in tasks, Dismiss(t) PROVE Inv'
    BY <1>4, DismissKeeps
  <1>5. CASE UNCHANGED vars
    BY <1>5 DEF vars, Inv, TypeOK, Numbered, Tracked, Worked, Running, OneWorkerPerId
  <1>. QED BY <1>1, <1>2, <1>3, <1>4, <1>5 DEF Next

\* No two workers on the same id.
THEOREM Exclusive == ~DismissAny => (Spec => []OneWorkerPerId)
  <1>. SUFFICES ASSUME ~DismissAny PROVE Spec => []OneWorkerPerId
    OBVIOUS
  <1>1. Inv => OneWorkerPerId
    BY DEF Inv
  <1>2. Inv /\ [Next]_vars => Inv'
    BY NextInv
  <1>. QED BY <1>1, <1>2, InitInv, PTL DEF Spec

\* A task is shown as running exactly while its worker lives.
THEOREM Shown == ~DismissAny => (Spec => []ShownIsWorked)
  <1>. SUFFICES ASSUME ~DismissAny PROVE Spec => []ShownIsWorked
    OBVIOUS
  <1>1. Inv => ShownIsWorked
    BY DEF Inv, Tracked, Worked, ShownIsWorked
  <1>2. Inv /\ [Next]_vars => Inv'
    BY NextInv
  <1>. QED BY <1>1, <1>2, InitInv, PTL DEF Spec

\* The page and the work agree: every task once, and none that is not shown.
THEOREM OnceShown == ~DismissAny => (Spec => []ShownOnce)
  <1>1. OneWorkerPerId /\ ShownIsWorked => ShownOnce
    BY DEF ShownOnce
  <1>. QED BY <1>1, Exclusive, Shown, PTL

------------------------------------------------------------------------------
(* Raids                                                                   *)

\* The rows that tell of an outcome of a player, and how many they are.
TellingRows(rows, p, o) == {r \in rows : r.player = p /\ r.exit = o}
Told(rows, p, o) == Cardinality(TellingRows(rows, p, o))

\* What is not saved yet still fits (the bounds of the model).
Fits ==
  \A p \in Players :
    /\ profile[p].kills + unsaved[p].kills <= MaxKills
    /\ \A o \in Outcomes : profile[p].exits[o] + unsaved[p].exits[o] <= MaxExits

\* A row is its player's account's, tells nothing while it is open, and of the victims
\* only those after its start.
RowIsSound(r) ==
  /\ r.player \in registered /\ r.id <= lastRaid
  /\ r.open => r.exit = "none" /\ r.kills = {}
  /\ r.before <= profile[r.player].kills
  /\ \A k \in r.kills : r.before < k /\ k <= profile[r.player].kills

\* Of two rows of a player the older one is closed, with the victims up to the start
\* of the newer one.
InOrder(r, s) == r.player = s.player /\ r.id < s.id => ~r.open /\ \A k \in r.kills : k <= s.before

TableInv(rows) ==
  /\ IsFiniteSet(rows) /\ rows \subseteq RaidRow
  /\ \A r \in rows : RowIsSound(r)
  /\ \A r, s \in rows : (r.id = s.id => r = s) /\ InOrder(r, s)

\* What the poller waits for is the open row of its player; the counters at its start
\* tell of every raid that the other rows tell of.
TrackInv ==
  \A p \in Players :
    /\ p \in registered /\ tracked[p] # NoRaid => {r.id : r \in OpenOf(p)} = {tracked[p].row}
    /\ \A o \in Outcomes :
         /\ Told(raids, p, o) <= profile[p].exits[o]
         /\ tracked[p] # NoRaid => Told(raids, p, o) <= tracked[p].before[o]
                                   /\ tracked[p].before[o] <= profile[p].exits[o]

PollInv == poll.at = "ending" => \A p \in poll.todo : tracked[p] # NoRaid

RaidsInv == RaidsTypeOK /\ Fits /\ TableInv(raids) /\ TrackInv /\ PollInv

LEMMA RaidsInitInv == RaidsInit => RaidsInv
  <1>. SUFFICES ASSUME RaidsInit PROVE RaidsInv
    OBVIOUS
  <1>1. NoResult \in Result /\ NoResult.kills = 0 /\ \A o \in Outcomes : NoResult.exits[o] = 0
    BY RaidsAssumption DEF NoResult, Result, Counters
  <1>2. /\ unsaved \in [Players -> Result] /\ profile \in [Players -> Result]
        /\ \A p \in Players : unsaved[p] = NoResult /\ profile[p] = NoResult
    BY <1>1 DEF RaidsInit
  <1>3. NoRaid \in [row : 0..MaxRaids, before : Counters] /\ NoResult.exits \in Counters
    BY <1>1, RaidsAssumption DEF NoRaid, Result
  <1>4. tracked \in [Players -> [row : 0..MaxRaids, before : Counters]]
    BY <1>3 DEF RaidsInit
  <1>5. Idle \in Polls /\ Idle.at = "idle"
    BY DEF Idle, Polls
  <1>6. RaidsTypeOK
    BY <1>2, <1>4, <1>5, RaidsAssumption DEF RaidsInit, RaidsTypeOK
  <1>7. Fits
    BY <1>1, <1>2, RaidsAssumption DEF Fits
  <1>8. TableInv(raids)
    BY FS_EmptySet DEF RaidsInit, TableInv
  <1>9. \A p \in Players, o \in Outcomes : Told(raids, p, o) = 0
    <2>1. \A p \in Players, o \in Outcomes : TellingRows(raids, p, o) = {}
      BY DEF RaidsInit, TellingRows
    <2>. QED BY <2>1, FS_EmptySet DEF Told
  <1>10. TrackInv
    BY <1>1, <1>2, <1>9 DEF RaidsInit, TrackInv
  <1>. QED BY <1>5, <1>6, <1>7, <1>8, <1>10 DEF RaidsInit, RaidsInv, PollInv

\* Players come and go, and fight; the rows know nothing of it.
LEMMA GameKeeps ==
  ASSUME RaidsInv, NEW p \in Players, EnterMap(p) \/ LeaveMap(p) \/ Kill(p)
  PROVE  RaidsInv'
  <1>1. UNCHANGED <<profile, registered, raids, lastRaid, tracked, poll>>
    BY DEF EnterMap, LeaveMap, Kill, Rows
  <1>2. onMap' \subseteq Players
    BY DEF EnterMap, LeaveMap, Kill, RaidsInv, RaidsTypeOK
  <1>3. unsaved[p] \in Result /\ profile[p] \in Result
    BY DEF RaidsInv, RaidsTypeOK
  <1>4. unsaved' \in [Players -> Result] /\ Fits'
    <2>1. CASE unsaved' = unsaved
      BY <1>1, <2>1 DEF RaidsInv, RaidsTypeOK, Fits
    <2>2. ASSUME NEW o \in Outcomes, profile[p].exits[o] + unsaved[p].exits[o] < MaxExits,
                 unsaved' = [unsaved EXCEPT ![p].exits[o] = @ + 1]
          PROVE  unsaved' \in [Players -> Result] /\ Fits'
      <3>. DEFINE exits == [unsaved[p].exits EXCEPT ![o] = @ + 1]
                  res == [unsaved[p] EXCEPT !.exits = exits]
      <3>1. /\ unsaved[p].exits \in [Outcomes -> 0..MaxExits] /\ profile[p].exits[o] \in Nat
            /\ unsaved[p].exits[o] \in Nat /\ unsaved[p].exits[o] + 1 <= MaxExits
        BY <1>3, <2>2, RaidsAssumption DEF Result, Counters
      <3>2. exits \in Counters /\ exits[o] = unsaved[p].exits[o] + 1
            /\ \A q \in Outcomes : q # o => exits[q] = unsaved[p].exits[q]
        BY <3>1, RaidsAssumption DEF Counters
      <3>3. res \in Result /\ res.exits = exits /\ res.kills = unsaved[p].kills
        BY <1>3, <3>2 DEF Result
      <3>4. unsaved' = [unsaved EXCEPT ![p] = res]
        BY <2>2
      <3>. HIDE DEF exits, res
      <3>5. unsaved' \in [Players -> Result] /\ unsaved'[p] = res
            /\ \A q \in Players : q # p => unsaved'[q] = unsaved[q]
        BY <3>3, <3>4 DEF RaidsInv, RaidsTypeOK
      <3>6. ASSUME NEW z \in Players, NEW q \in Outcomes
            PROVE  /\ profile'[z].kills + unsaved'[z].kills <= MaxKills
                   /\ profile'[z].exits[q] + unsaved'[z].exits[q] <= MaxExits
        <4>1. CASE z # p
          BY <1>1, <3>5, <4>1 DEF RaidsInv, Fits
        <4>2. CASE z = p /\ q # o
          BY <1>1, <3>2, <3>3, <3>5, <4>2 DEF RaidsInv, Fits
        <4>3. CASE z = p /\ q = o
          <5>1. profile[p].exits[o] + (unsaved[p].exits[o] + 1) <= MaxExits
            BY <2>2, <3>1, RaidsAssumption
          <5>. QED BY <1>1, <3>2, <3>3, <3>5, <4>3, <5>1 DEF RaidsInv, Fits
        <4>. QED BY <4>1, <4>2, <4>3
      <3>7. "Survived" \in Outcomes
        BY DEF Outcomes
      <3>. QED BY <3>5, <3>6, <3>7 DEF Fits
    <2>3. ASSUME profile[p].kills + unsaved[p].kills < MaxKills,
                 unsaved' = [unsaved EXCEPT ![p].kills = @ + 1]
          PROVE  unsaved' \in [Players -> Result] /\ Fits'
      <3>. DEFINE res == [unsaved[p] EXCEPT !.kills = @ + 1]
      <3>1. profile[p].kills \in Nat /\ unsaved[p].kills \in Nat
        BY <1>3, RaidsAssumption DEF Result
      <3>2. unsaved[p].kills + 1 \in 0..MaxKills /\ profile[p].kills + (unsaved[p].kills + 1) <= MaxKills
        BY <2>3, <3>1, RaidsAssumption
      <3>3. res \in Result /\ res.exits = unsaved[p].exits /\ res.kills = unsaved[p].kills + 1
        BY <1>3, <3>2 DEF Result
      <3>4. unsaved' = [unsaved EXCEPT ![p] = res]
        BY <2>3
      <3>. HIDE DEF res
      <3>5. unsaved' \in [Players -> Result] /\ unsaved'[p] = res
            /\ \A q \in Players : q # p => unsaved'[q] = unsaved[q]
        BY <3>3, <3>4 DEF RaidsInv, RaidsTypeOK
      <3>. QED BY <1>1, <3>2, <3>3, <3>5 DEF RaidsInv, Fits
    <2>. QED BY <2>1, <2>2, <2>3 DEF EnterMap, LeaveMap, Kill
  <1>5. RaidsTypeOK' /\ PollInv'
    BY <1>1, <1>2, <1>4 DEF RaidsInv, RaidsTypeOK, PollInv
  <1>6. TableInv(raids)' /\ TrackInv'
    BY <1>1 DEF RaidsInv, RaidsTypeOK, TableInv, RowIsSound, InOrder, TrackInv, Told, TellingRows, OpenOf
  <1>. QED BY <1>4, <1>5, <1>6 DEF RaidsInv

\* There is at most one open row of a player.
LEMMA OpenIsOne ==
  ASSUME NEW rows, TableInv(rows), NEW p, NEW r \in rows, NEW s \in rows,
         r.player = p, s.player = p, r.open
  PROVE  /\ s.id <= r.id
         /\ s.open => r = s
  <1>1. r.id \in Nat /\ s.id \in Nat
    BY RaidsAssumption DEF TableInv, RaidRow, RaidIds
  <1>2. ~(r.id < s.id)
    BY DEF TableInv, InOrder
  <1>3. s.open => ~(s.id < r.id)
    BY DEF TableInv, InOrder
  <1>. QED BY <1>1, <1>2, <1>3 DEF TableInv

\* Rows in which a player's raid was closed, with an exit.
ClosedRight(rows, next, p, exit) ==
  /\ TableInv(next)
  /\ \A r \in next : r.player = p => ~r.open
  /\ \A q \in Players, o \in Outcomes :
       /\ Told(next, q, o) <= Told(rows, q, o) + 1
       /\ q # p \/ o # exit => Told(next, q, o) <= Told(rows, q, o)
       /\ Told(rows, q, o) \in Nat /\ Told(next, q, o) \in Nat
  /\ \A q \in Players : q # p =>
       {r \in next : r.player = q /\ r.open} = {r \in rows : r.player = q /\ r.open}

\* To close the open row of a player keeps the table, and tells of at most one outcome.
LEMMA CloseKeeps ==
  ASSUME NEW rows, TableInv(rows), RaidsTypeOK, NEW r0 \in rows, r0.open,
         NEW exit \in Outcomes \cup {"Unknown"},
         NEW K \in SUBSET ((r0.before + 1)..profile[r0.player].kills),
         NEW closed, closed = [r0 EXCEPT !.open = FALSE, !.exit = exit, !.kills = K],
         NEW next, next = (rows \ {r0}) \cup {closed}
  PROVE  ClosedRight(rows, next, r0.player, exit)
  <1>1. r0 \in RaidRow /\ r0.before \in Nat /\ r0.exit = "none" /\ RowIsSound(r0)
    BY RaidsAssumption DEF TableInv, RaidRow, RowIsSound
  <1>2. profile[r0.player].kills \in 0..MaxKills
    BY <1>1 DEF RaidRow, RaidsTypeOK, Result
  <1>3. /\ K \in SUBSET (1..MaxKills)
        /\ \A k \in K : r0.before < k /\ k <= profile[r0.player].kills
    BY <1>1, <1>2, RaidsAssumption
  <1>4. /\ closed \in RaidRow /\ closed.id = r0.id /\ closed.player = r0.player
        /\ closed.before = r0.before /\ closed.open = FALSE /\ closed.exit = exit /\ closed.kills = K
    BY <1>1, <1>3 DEF RaidRow
  <1>5. RowIsSound(closed)
    BY <1>1, <1>3, <1>4 DEF RowIsSound
  <1>6. IsFiniteSet(rows \ {r0})
    BY FS_Subset DEF TableInv
  <1>7. IsFiniteSet(next)
    BY <1>6, FS_AddElement
  <1>8. ASSUME NEW r \in next, NEW s \in next
        PROVE  (r.id = s.id => r = s) /\ InOrder(r, s)
    <2>1. CASE r # closed /\ s # closed
      BY <2>1 DEF TableInv
    <2>2. CASE r = closed /\ s # closed
      <3>1. s \in rows /\ s # r0
        BY <2>2
      <3>2. r.id # s.id
        BY <2>2, <3>1, <1>4 DEF TableInv
      <3>3. s.player = r0.player => s.id <= r0.id
        BY <3>1, OpenIsOne
      <3>4. s.id \in Nat /\ r0.id \in Nat
        BY <3>1, <1>1, RaidsAssumption DEF TableInv, RaidRow, RaidIds
      <3>5. ~(r.player = s.player /\ r.id < s.id)
        BY <2>2, <3>3, <3>4, <1>4
      <3>. QED BY <3>2, <3>5 DEF InOrder
    <2>3. CASE r # closed /\ s = closed
      <3>1. r \in rows /\ r # r0
        BY <2>3
      <3>2. r.id # s.id
        BY <2>3, <3>1, <1>4 DEF TableInv
      <3>3. InOrder(r, r0)
        BY <3>1 DEF TableInv
      <3>4. InOrder(r, s)
        BY <2>3, <3>3, <1>4 DEF InOrder
      <3>. QED BY <3>2, <3>4
    <2>4. CASE r = closed /\ s = closed
      <3>1. r.id \in Nat
        <4>1. r0.id \in Nat
          BY <1>1, RaidsAssumption DEF RaidRow, RaidIds
        <4>. QED BY <2>4, <4>1, <1>4
      <3>. QED BY <2>4, <3>1 DEF InOrder
    <2>. QED BY <2>1, <2>2, <2>3, <2>4
  <1>9. TableInv(next)
    BY <1>4, <1>5, <1>7, <1>8 DEF TableInv
  <1>10. \A r \in next : r.player = r0.player => ~r.open
    <2>1. \A r \in rows : r.player = r0.player /\ r.open => r = r0
      BY OpenIsOne
    <2>. QED BY <1>4, <2>1
  <1>11. ASSUME NEW q \in Players, NEW o \in Outcomes
         PROVE  /\ Told(next, q, o) <= Told(rows, q, o) + 1
                /\ q # r0.player \/ o # exit => Told(next, q, o) <= Told(rows, q, o)
                /\ Told(rows, q, o) \in Nat /\ Told(next, q, o) \in Nat
    <2>. DEFINE A == TellingRows(rows, q, o)
                B == TellingRows(next, q, o)
    <2>1. IsFiniteSet(A)
      BY FS_Subset DEF TableInv, TellingRows
    <2>2. B \subseteq A \cup {closed} /\ (q # r0.player \/ o # exit => B \subseteq A)
      BY <1>4 DEF TellingRows
    <2>. HIDE DEF A, B
    <2>3. /\ IsFiniteSet(A \cup {closed}) /\ Cardinality(A) \in Nat
          /\ Cardinality(A \cup {closed}) <= Cardinality(A) + 1
      <3>1. /\ IsFiniteSet(A \cup {closed})
            /\ Cardinality(A \cup {closed}) = IF closed \in A THEN Cardinality(A) ELSE Cardinality(A) + 1
        BY <2>1, FS_AddElement
      <3>2. Cardinality(A) \in Nat
        BY <2>1, FS_CardinalityType
      <3>. QED BY <3>1, <3>2
    <2>4. IsFiniteSet(B) /\ Cardinality(B) <= Cardinality(A \cup {closed})
      BY <2>2, <2>3, FS_Subset
    <2>5. Cardinality(B) \in Nat /\ Cardinality(A \cup {closed}) \in Nat
      BY <2>3, <2>4, FS_CardinalityType
    <2>6. B \subseteq A => Cardinality(B) <= Cardinality(A)
      BY <2>1, FS_Subset
    <2>7. Told(rows, q, o) = Cardinality(A) /\ Told(next, q, o) = Cardinality(B)
      BY DEF Told, A, B
    <2>. QED BY <2>2, <2>3, <2>4, <2>5, <2>6, <2>7
  <1>12. \A q \in Players : q # r0.player =>
           {r \in next : r.player = q /\ r.open} = {r \in rows : r.player = q /\ r.open}
    BY <1>4
  <1>. QED BY <1>9, <1>10, <1>11, <1>12 DEF ClosedRight

LEMMA ToldIsNat ==
  ASSUME NEW rows, TableInv(rows), NEW p, NEW o
  PROVE  Told(rows, p, o) \in Nat
  <1>1. IsFiniteSet(TellingRows(rows, p, o))
    BY FS_Subset DEF TableInv, TellingRows
  <1>. QED BY <1>1, FS_CardinalityType DEF Told

\* Counters and victim list are numbers.
LEMMA ProfileFields ==
  ASSUME RaidsTypeOK, NEW p \in Players
  PROVE  /\ profile[p].kills \in Nat /\ unsaved[p].kills \in Nat
         /\ \A o \in Outcomes : profile[p].exits[o] \in Nat /\ unsaved[p].exits[o] \in Nat
                                /\ tracked[p].before[o] \in Nat
         /\ profile[p].exits \in Counters /\ tracked[p].before \in Counters
  BY RaidsAssumption DEF RaidsTypeOK, Result, Counters

\* A profile grows, and what the rows say of it stays true.
LEMMA SaveProfileKeeps ==
  ASSUME RaidsInv, NEW p \in Players, SaveProfile(p)
  PROVE  RaidsInv'
  <1>. DEFINE exits == [o \in Outcomes |-> profile[p].exits[o] + unsaved[p].exits[o]]
              res == [kills |-> profile[p].kills + unsaved[p].kills, exits |-> exits]
  <1>1. /\ UNCHANGED <<onMap, registered, raids, lastRaid, tracked, poll>>
        /\ profile' = [profile EXCEPT ![p] = res]
        /\ unsaved' = [unsaved EXCEPT ![p] = NoResult]
    BY DEF SaveProfile, Rows
  <1>2. \A o \in Outcomes : exits[o] \in 0..MaxExits /\ profile[p].exits[o] <= exits[o]
    BY ProfileFields, RaidsAssumption DEF RaidsInv, Fits
  <1>3. res.kills \in 0..MaxKills /\ profile[p].kills <= res.kills /\ res.exits = exits
    BY ProfileFields, RaidsAssumption DEF RaidsInv, Fits
  <1>4. res \in Result
    BY <1>2, <1>3 DEF Result, Counters
  <1>5. NoResult \in Result /\ NoResult.kills = 0 /\ \A o \in Outcomes : NoResult.exits[o] = 0
    BY RaidsAssumption DEF NoResult, Result, Counters
  <1>. HIDE DEF res, exits
  <1>6. /\ profile' \in [Players -> Result] /\ unsaved' \in [Players -> Result]
        /\ profile'[p] = res /\ unsaved'[p] = NoResult
        /\ \A q \in Players : q # p => profile'[q] = profile[q] /\ unsaved'[q] = unsaved[q]
    BY <1>1, <1>4, <1>5 DEF RaidsInv, RaidsTypeOK
  <1>7. \A q \in Players :
          /\ profile[q].kills <= profile'[q].kills
          /\ \A o \in Outcomes : profile[q].exits[o] <= profile'[q].exits[o]
                                 /\ profile'[q].exits[o] \in Nat
          /\ profile'[q].kills \in Nat
    BY <1>2, <1>3, <1>6, ProfileFields, RaidsAssumption DEF RaidsInv
  <1>8. RaidsTypeOK' /\ PollInv'
    BY <1>1, <1>6 DEF RaidsInv, RaidsTypeOK, PollInv
  <1>9. Fits'
    <2>1. ASSUME NEW q \in Players, NEW o \in Outcomes
          PROVE  /\ profile'[q].kills + unsaved'[q].kills <= MaxKills
                 /\ profile'[q].exits[o] + unsaved'[q].exits[o] <= MaxExits
      <3>1. CASE q # p
        BY <1>6, <3>1 DEF RaidsInv, Fits
      <3>2. CASE q = p
        BY <1>2, <1>3, <1>5, <1>6, <3>2, RaidsAssumption
      <3>. QED BY <3>1, <3>2
    <2>2. "Survived" \in Outcomes
      BY DEF Outcomes
    <2>. QED BY <2>1, <2>2 DEF Fits
  <1>10. TableInv(raids)'
    <2>1. ASSUME NEW r \in raids PROVE RowIsSound(r)'
      <3>1. r \in RaidRow /\ RowIsSound(r)
        BY DEF RaidsInv, TableInv
      <3>2. /\ r.player \in Players /\ r.before \in Nat /\ \A k \in r.kills : k \in Nat
            /\ profile[r.player].kills \in Nat
        BY <3>1, ProfileFields, RaidsAssumption DEF RaidRow, RaidsInv
      <3>3. /\ r.before <= profile'[r.player].kills
            /\ \A k \in r.kills : k <= profile'[r.player].kills
        BY <1>7, <3>1, <3>2 DEF RowIsSound
      <3>. QED BY <1>1, <3>1, <3>3 DEF RowIsSound
    <2>. QED BY <1>1, <2>1 DEF RaidsInv, TableInv, InOrder
  <1>11. TrackInv'
    <2>1. ASSUME NEW q \in Players, NEW o \in Outcomes
          PROVE  /\ Told(raids, q, o) <= profile'[q].exits[o]
                 /\ tracked[q] # NoRaid => tracked[q].before[o] <= profile'[q].exits[o]
      <3>1. Told(raids, q, o) \in Nat
        BY ToldIsNat DEF RaidsInv
      <3>. QED BY <1>7, <3>1, ProfileFields DEF RaidsInv, TrackInv
    <2>. QED BY <1>1, <2>1 DEF RaidsInv, TrackInv, OpenOf, Told, TellingRows
  <1>. QED BY <1>8, <1>9, <1>10, <1>11 DEF RaidsInv

\* Rows that go with their account: the others stay as they are.
LEMMA DeregisterKeeps ==
  ASSUME RaidsInv, NEW p \in Players, Deregister(p)
  PROVE  RaidsInv'
  <1>1. /\ registered' = registered \ {p} /\ raids' = {r \in raids : r.player # p}
        /\ UNCHANGED <<onMap, unsaved, profile, lastRaid, tracked, poll>>
    BY DEF Deregister
  <1>2. IsFiniteSet(raids')
    BY <1>1, FS_Subset DEF RaidsInv, TableInv
  <1>3. RaidsTypeOK' /\ Fits' /\ PollInv'
    BY <1>1 DEF RaidsInv, RaidsTypeOK, Fits, PollInv
  <1>4. TableInv(raids)'
    BY <1>1, <1>2 DEF RaidsInv, TableInv, RowIsSound, InOrder
  <1>5. ASSUME NEW q \in Players, NEW o \in Outcomes
        PROVE  /\ Told(raids', q, o) <= Told(raids, q, o)
               /\ Told(raids', q, o) \in Nat /\ Told(raids, q, o) \in Nat
    <2>1. IsFiniteSet(TellingRows(raids, q, o))
      BY FS_Subset DEF RaidsInv, TableInv, TellingRows
    <2>2. TellingRows(raids', q, o) \subseteq TellingRows(raids, q, o)
      BY <1>1 DEF TellingRows
    <2>. QED BY <2>1, <2>2, FS_Subset, FS_CardinalityType DEF Told
  <1>6. \A q \in registered' : OpenOf(q)' = OpenOf(q)
    BY <1>1 DEF OpenOf
  <1>7. TrackInv'
    <2>1. ASSUME NEW q \in Players, NEW o \in Outcomes
          PROVE  /\ Told(raids', q, o) <= profile[q].exits[o]
                 /\ tracked[q] # NoRaid => Told(raids', q, o) <= tracked[q].before[o]
      BY <1>5, ProfileFields DEF RaidsInv, TrackInv
    <2>2. \A q \in Players : q \in registered' /\ tracked[q] # NoRaid =>
            {r.id : r \in OpenOf(q)'} = {tracked[q].row}
      BY <1>1, <1>6 DEF RaidsInv, TrackInv
    <2>3. \A q \in Players, o \in Outcomes : Told(raids', q, o) = Told(raids, q, o)'
      BY DEF Told, TellingRows
    <2>. QED BY <1>1, <2>1, <2>2, <2>3 DEF RaidsInv, TrackInv
  <1>. QED BY <1>3, <1>4, <1>7 DEF RaidsInv

LEMMA PhaseIsPoll ==
  ASSUME NEW seen \in SUBSET Players, NEW todo \in SUBSET Players
  PROVE  /\ Phase(seen, todo) \in Polls
         /\ Phase(seen, todo).at = "ending" => Phase(seen, todo).todo = todo
  BY DEF Phase, Polls

\* Steps of the poller that touch no row.
LEMMA PollKeeps ==
  ASSUME RaidsInv, AskPresence \/ EndPoll \/ PollerRestart
  PROVE  RaidsInv'
  <1>1. UNCHANGED <<onMap, unsaved, profile, registered, raids, lastRaid>>
    BY DEF AskPresence, EndPoll, PollerRestart, World
  <1>2. \A p \in Players : tracked'[p] = tracked[p] \/ tracked'[p] = NoRaid
    BY DEF AskPresence, EndPoll, PollerRestart
  <1>3. NoRaid \in [row : 0..MaxRaids, before : Counters]
    BY RaidsAssumption DEF NoRaid, NoResult, Counters
  <1>4. tracked' \in [Players -> [row : 0..MaxRaids, before : Counters]]
    BY <1>3 DEF AskPresence, EndPoll, PollerRestart, RaidsInv, RaidsTypeOK
  <1>5. Idle \in Polls /\ Idle.at = "idle"
    BY DEF Idle, Polls
  <1>6. poll' \in Polls /\ PollInv'
    <2>1. CASE AskPresence
      <3>1. onMap \in SUBSET Players /\ Waiting \ onMap \in SUBSET Players
        BY DEF Waiting, RaidsInv, RaidsTypeOK
      <3>. QED BY <2>1, <3>1, PhaseIsPoll DEF AskPresence, Waiting, PollInv
    <2>2. CASE EndPoll \/ PollerRestart
      BY <2>2, <1>5 DEF EndPoll, PollerRestart, PollInv
    <2>. QED BY <2>1, <2>2
  <1>7. RaidsTypeOK' /\ Fits' /\ TableInv(raids)'
    BY <1>1, <1>4, <1>6 DEF RaidsInv, RaidsTypeOK, Fits, TableInv, RowIsSound, InOrder
  <1>8. TrackInv'
    BY <1>1, <1>2 DEF RaidsInv, TrackInv, OpenOf, Told, TellingRows
  <1>. QED BY <1>6, <1>7, <1>8 DEF RaidsInv

\* The end of a raid is entered at most once, and only what has gone up since.
LEMMA RaidEndKeeps ==
  ASSUME RaidsInv, NEW p \in Players, EndRaid(p)
  PROVE  RaidsInv'
  <1>1. /\ UNCHANGED <<onMap, unsaved, profile, registered, lastRaid>>
        /\ poll.at = "ending" /\ p \in poll.todo
        /\ tracked' = [tracked EXCEPT ![p] = NoRaid]
        /\ poll' = Phase(poll.seen, poll.todo \ {p})
        /\ \E readable \in BOOLEAN : CloseRow(p, readable)
    BY DEF EndRaid, World
  <1>2. tracked[p] # NoRaid
    BY <1>1 DEF RaidsInv, PollInv
  <1>3. NoRaid \in [row : 0..MaxRaids, before : Counters]
    BY RaidsAssumption DEF NoRaid, NoResult, Counters
  <1>4. /\ tracked' \in [Players -> [row : 0..MaxRaids, before : Counters]]
        /\ tracked'[p] = NoRaid /\ \A q \in Players : q # p => tracked'[q] = tracked[q]
    BY <1>1, <1>3 DEF RaidsInv, RaidsTypeOK
  <1>5. poll.seen \in SUBSET Players /\ poll.todo \in SUBSET Players
    BY DEF RaidsInv, RaidsTypeOK, Polls
  <1>6. poll' \in Polls /\ PollInv'
    <2>1. /\ Phase(poll.seen, poll.todo \ {p}) \in Polls
          /\ Phase(poll.seen, poll.todo \ {p}).at = "ending" =>
               Phase(poll.seen, poll.todo \ {p}).todo = poll.todo \ {p}
      BY <1>5, PhaseIsPoll
    <2>. QED BY <1>1, <1>4, <1>5, <2>1 DEF RaidsInv, PollInv
  <1>7. CASE raids' = raids
    <2>1. RaidsTypeOK' /\ Fits' /\ TableInv(raids)'
      BY <1>1, <1>4, <1>6, <1>7 DEF RaidsInv, RaidsTypeOK, Fits, TableInv, RowIsSound, InOrder
    <2>2. TrackInv'
      BY <1>1, <1>4, <1>7 DEF RaidsInv, TrackInv, OpenOf, Told, TellingRows
    <2>. QED BY <1>6, <2>1, <2>2 DEF RaidsInv
  <1>8. ASSUME NEW exit \in DiffExitStatus(tracked[p].before, profile[p].exits),
               NEW again \in BOOLEAN,
               raids' = {IF r \in OpenOf(p)
                         THEN [r EXCEPT !.open = FALSE, !.exit = exit,
                                        !.kills = IF again THEN New(r, p) ELSE {}]
                         ELSE r : r \in raids},
               raids' # raids
        PROVE  RaidsInv'
    <2>. DEFINE Closed(r) == [r EXCEPT !.open = FALSE, !.exit = exit,
                                       !.kills = IF again THEN New(r, p) ELSE {}]
    <2>1. PICK r0 \in raids : r0.open /\ r0.player = p /\ OpenOf(p) = {r0}
                              /\ raids' = (raids \ {r0}) \cup {Closed(r0)}
      <3>1. OpenOf(p) # {}
        BY <1>8
      <3>2. PICK r0 \in raids : r0.player = p /\ r0.open
        BY <3>1 DEF OpenOf
      <3>3. OpenOf(p) = {r0}
        BY <3>2, OpenIsOne DEF OpenOf, RaidsInv
      <3>4. raids' = (raids \ {r0}) \cup {Closed(r0)}
        BY <1>8, <3>2, <3>3
      <3>. QED BY <3>2, <3>3, <3>4
    <2>. DEFINE K == IF again THEN New(r0, p) ELSE {}
                closed == [r0 EXCEPT !.open = FALSE, !.exit = exit, !.kills = K]
    <2>2. /\ exit \in Outcomes \cup {"Unknown"}
          /\ exit \in Outcomes => profile[p].exits[exit] > tracked[p].before[exit]
      BY <1>8 DEF DiffExitStatus, Outcomes
    <2>3. K \in SUBSET ((r0.before + 1)..profile[r0.player].kills)
      BY <2>1 DEF New
    <2>4. raids' = (raids \ {r0}) \cup {closed}
      BY <2>1
    <2>5. /\ TableInv(raids')
          /\ \A r \in raids' : r.player = p => ~r.open
          /\ \A q \in Players, o \in Outcomes :
               /\ Told(raids', q, o) <= Told(raids, q, o) + 1
               /\ q # p \/ o # exit => Told(raids', q, o) <= Told(raids, q, o)
               /\ Told(raids, q, o) \in Nat /\ Told(raids', q, o) \in Nat
          /\ \A q \in Players : q # p =>
               {r \in raids' : r.player = q /\ r.open} = {r \in raids : r.player = q /\ r.open}
      <3>. HIDE DEF K
      <3>. DEFINE next == raids'
      <3>1. closed = [r0 EXCEPT !.open = FALSE, !.exit = exit, !.kills = K]
        OBVIOUS
      <3>2. next = (raids \ {r0}) \cup {closed}
        BY <2>4
      <3>. HIDE DEF closed, next
      <3>3. TableInv(raids) /\ RaidsTypeOK /\ r0 \in raids /\ r0.open /\ r0.player = p
        BY <2>1 DEF RaidsInv
      <3>4. ClosedRight(raids, next, r0.player, exit)
        BY <2>2, <2>3, <3>1, <3>2, <3>3, CloseKeeps
      <3>. QED BY <3>3, <3>4 DEF next, ClosedRight
    <2>6. TableInv(raids)'
      BY <1>1, <2>5 DEF TableInv, RowIsSound, InOrder
    <2>7. RaidsTypeOK' /\ Fits'
      BY <1>1, <1>4, <1>6, <2>5 DEF RaidsInv, RaidsTypeOK, Fits, TableInv
    <2>8. TrackInv'
      <3>1. \A q \in Players : q # p => OpenOf(q)' = OpenOf(q)
        BY <2>5 DEF OpenOf
      <3>2. \A q \in Players : q \in registered /\ tracked'[q] # NoRaid =>
              {r.id : r \in OpenOf(q)'} = {tracked'[q].row}
        BY <1>4, <3>1 DEF RaidsInv, TrackInv
      <3>3. ASSUME NEW q \in Players, NEW o \in Outcomes
            PROVE  /\ Told(raids', q, o) <= profile[q].exits[o]
                   /\ tracked'[q] # NoRaid => Told(raids', q, o) <= tracked'[q].before[o]
                                              /\ tracked'[q].before[o] <= profile[q].exits[o]
        <4>1. CASE q # p
          BY <1>4, <2>5, <4>1, ProfileFields DEF RaidsInv, TrackInv
        <4>2. CASE q = p /\ o # exit
          BY <1>4, <2>5, <4>2, ProfileFields DEF RaidsInv, TrackInv
        <4>3. CASE q = p /\ o = exit
          <5>1. Told(raids, p, o) <= tracked[p].before[o] /\ profile[p].exits[o] > tracked[p].before[o]
            BY <1>2, <2>2, <4>3 DEF RaidsInv, TrackInv
          <5>2. profile[p].exits[o] \in Nat /\ tracked[p].before[o] \in Nat
            BY ProfileFields DEF RaidsInv
          <5>3. Told(raids', p, o) <= Told(raids, p, o) + 1 /\ Told(raids, p, o) \in Nat
                /\ Told(raids', p, o) \in Nat
            BY <2>5
          <5>. QED BY <1>4, <4>3, <5>1, <5>2, <5>3
        <4>. QED BY <4>1, <4>2, <4>3
      <3>4. \A q \in Players, o \in Outcomes : Told(raids', q, o) = Told(raids, q, o)'
        BY DEF Told, TellingRows
      <3>. QED BY <1>1, <3>2, <3>3, <3>4 DEF TrackInv
    <2>. QED BY <1>6, <2>6, <2>7, <2>8 DEF RaidsInv
  <1>. QED BY <1>1, <1>7, <1>8 DEF CloseRow

\* The open row that a restart left behind is closed, and tells of no outcome.
LEMMA OrphansKeep ==
  ASSUME RaidsInv, NEW p \in Players, NEW rows, rows = CloseOrphans(p)
  PROVE  /\ TableInv(rows)
         /\ \A r \in rows : r.player = p => ~r.open
         /\ \A q \in Players, o \in Outcomes :
              Told(rows, q, o) <= Told(raids, q, o) /\ Told(rows, q, o) \in Nat
         /\ \A q \in Players : q # p => {r \in rows : r.player = q /\ r.open} = OpenOf(q)
  <1>1. CASE OpenOf(p) = {}
    <2>1. rows = raids
      BY <1>1 DEF CloseOrphans
    <2>2. \A q \in Players, o \in Outcomes : Told(raids, q, o) \in Nat
      BY ToldIsNat DEF RaidsInv
    <2>. QED BY <1>1, <2>1, <2>2 DEF RaidsInv, OpenOf
  <1>2. CASE OpenOf(p) # {}
    <2>. DEFINE Closed(r) == [r EXCEPT !.open = FALSE, !.exit = "Unknown"]
    <2>1. PICK r0 \in raids : r0.player = p /\ r0.open
      BY <1>2 DEF OpenOf
    <2>2. OpenOf(p) = {r0}
      BY <2>1, OpenIsOne DEF OpenOf, RaidsInv
    <2>. DEFINE closed == Closed(r0)
    <2>3. rows = (raids \ {r0}) \cup {closed}
      BY <2>1, <2>2 DEF CloseOrphans
    <2>4. r0 \in RaidRow /\ r0.kills = {}
      BY <2>1 DEF RaidsInv, TableInv, RowIsSound
    <2>5. closed = [r0 EXCEPT !.open = FALSE, !.exit = "Unknown", !.kills = {}]
      BY <2>4 DEF RaidRow
    <2>6. {} \in SUBSET ((r0.before + 1)..profile[r0.player].kills)
      OBVIOUS
    <2>7. "Unknown" \in Outcomes \cup {"Unknown"} /\ "Unknown" \notin Outcomes
      BY DEF Outcomes
    <2>. HIDE DEF closed
    <2>8. TableInv(raids) /\ RaidsTypeOK
      BY DEF RaidsInv
    <2>9. ClosedRight(raids, rows, r0.player, "Unknown")
      BY <2>1, <2>3, <2>5, <2>6, <2>7, <2>8, CloseKeeps
    <2>. QED BY <2>1, <2>7, <2>9 DEF OpenOf, ClosedRight
  <1>. QED BY <1>1, <1>2

\* A raid gets a row of its own, after the others, and its player no other open one.
LEMMA RaidStartKeeps ==
  ASSUME RaidsInv, NEW p \in Players, StartRaid(p)
  PROVE  RaidsInv'
  <1>1. /\ UNCHANGED <<onMap, unsaved, profile, registered>>
        /\ poll.at = "starting" /\ poll' = [poll EXCEPT !.todo = @ \ {p}]
    BY DEF StartRaid, World
  <1>2. poll' \in Polls /\ poll'.at = "starting"
    BY <1>1 DEF RaidsInv, RaidsTypeOK, Polls
  <1>3. PollInv'
    BY <1>2 DEF PollInv
  <1>4. CASE UNCHANGED <<raids, lastRaid, tracked>>
    <2>1. RaidsTypeOK' /\ Fits' /\ TableInv(raids)'
      BY <1>1, <1>2, <1>4 DEF RaidsInv, RaidsTypeOK, Fits, TableInv, RowIsSound, InOrder
    <2>2. TrackInv'
      BY <1>1, <1>4 DEF RaidsInv, TrackInv, OpenOf, Told, TellingRows
    <2>. QED BY <1>3, <2>1, <2>2 DEF RaidsInv
  <1>5. ASSUME p \in registered, lastRaid < MaxRaids, lastRaid' = lastRaid + 1,
               raids' = CloseOrphans(p) \cup {[id |-> lastRaid', player |-> p,
                 before |-> profile[p].kills, open |-> TRUE, kills |-> {}, exit |-> "none"]},
               tracked' = [tracked EXCEPT ![p] = [row |-> lastRaid', before |-> profile[p].exits]]
        PROVE  RaidsInv'
    <2>. DEFINE row == [id |-> lastRaid', player |-> p, before |-> profile[p].kills,
                        open |-> TRUE, kills |-> {}, exit |-> "none"]
                rows == CloseOrphans(p)
    <2>1. lastRaid' \in RaidIds /\ lastRaid' \in 0..MaxRaids /\ lastRaid < lastRaid' /\ lastRaid \in Nat
      BY <1>5, RaidsAssumption DEF RaidsInv, RaidsTypeOK, RaidIds
    <2>2. profile[p].kills \in 0..MaxKills /\ profile[p].exits \in Counters
      BY DEF RaidsInv, RaidsTypeOK, Result
    <2>3. /\ row \in RaidRow /\ row.id = lastRaid' /\ row.player = p /\ row.open = TRUE
          /\ row.before = profile[p].kills /\ row.kills = {} /\ row.exit = "none"
      BY <2>1, <2>2 DEF RaidRow
    <2>4. raids' = rows \cup {row}
      BY <1>5
    <2>5. /\ TableInv(rows)
          /\ \A r \in rows : r.player = p => ~r.open
          /\ \A q \in Players, o \in Outcomes :
               Told(rows, q, o) <= Told(raids, q, o) /\ Told(rows, q, o) \in Nat
          /\ \A q \in Players : q # p => {r \in rows : r.player = q /\ r.open} = OpenOf(q)
      BY OrphansKeep
    <2>. HIDE DEF row, rows
    <2>6. /\ tracked' \in [Players -> [row : 0..MaxRaids, before : Counters]]
          /\ tracked'[p].row = lastRaid' /\ tracked'[p].before = profile[p].exits
          /\ \A q \in Players : q # p => tracked'[q] = tracked[q]
      BY <1>5, <2>1, <2>2 DEF RaidsInv, RaidsTypeOK
    <2>7. \A r \in rows : r.id <= lastRaid /\ r.id \in Nat /\ r.id # lastRaid' /\ r.id < lastRaid'
      BY <2>1, <2>5, RaidsAssumption DEF TableInv, RowIsSound, RaidRow, RaidIds
    <2>8. IsFiniteSet(raids') /\ raids' \subseteq RaidRow
      BY <2>3, <2>4, <2>5, FS_AddElement DEF TableInv
    <2>9. RaidsTypeOK' /\ Fits'
      BY <1>1, <1>2, <2>1, <2>6, <2>8 DEF RaidsInv, RaidsTypeOK, Fits
    <2>10. ASSUME NEW r \in raids' PROVE RowIsSound(r)'
      <3>1. CASE r \in rows
        <4>1. r.id <= lastRaid'
          BY <2>1, <2>7, <3>1
        <4>. QED BY <1>1, <2>5, <3>1, <4>1 DEF TableInv, RowIsSound
      <3>2. CASE r = row
        <4>1. r.before <= profile[p].kills /\ r.id <= lastRaid'
          BY <2>1, <2>2, <2>3, <3>2, RaidsAssumption
        <4>. QED BY <1>1, <1>5, <2>3, <3>2, <4>1 DEF RowIsSound
      <3>. QED BY <2>4, <3>1, <3>2
    <2>11. ASSUME NEW r \in raids', NEW s \in raids'
           PROVE  (r.id = s.id => r = s) /\ InOrder(r, s)
      <3>1. CASE r \in rows /\ s \in rows
        BY <2>5, <3>1 DEF TableInv
      <3>2. CASE r \in rows /\ s = row
        <4>1. r.player = p => ~r.open /\ \A k \in r.kills : k <= s.before
          BY <2>3, <2>5, <3>2 DEF TableInv, RowIsSound
        <4>. QED BY <2>3, <2>7, <3>2, <4>1 DEF InOrder
      <3>3. CASE r = row /\ s \in rows
        <4>1. ~(r.id < s.id) /\ r.id # s.id
          BY <2>1, <2>3, <2>7, <3>3
        <4>. QED BY <4>1 DEF InOrder
      <3>4. CASE r = row /\ s = row
        <4>1. ~(r.id < s.id)
          BY <2>1, <2>3, <3>4
        <4>. QED BY <3>4, <4>1 DEF InOrder
      <3>. QED BY <2>4, <3>1, <3>2, <3>3, <3>4
    <2>12. TableInv(raids)'
      BY <2>8, <2>10, <2>11 DEF TableInv, InOrder
    <2>13. TrackInv'
      <3>1. \A q \in Players : q # p => OpenOf(q)' = OpenOf(q)
        BY <2>3, <2>4, <2>5 DEF OpenOf
      <3>2. OpenOf(p)' = {row}
        BY <2>3, <2>4, <2>5 DEF OpenOf
      <3>3. \A q \in Players : q \in registered /\ tracked'[q] # NoRaid =>
              {r.id : r \in OpenOf(q)'} = {tracked'[q].row}
        BY <2>3, <2>6, <3>1, <3>2 DEF RaidsInv, TrackInv
      <3>4. \A q \in Players, o \in Outcomes : TellingRows(raids', q, o) = TellingRows(rows, q, o)
        BY <2>3, <2>4 DEF TellingRows, Outcomes
      <3>5. ASSUME NEW q \in Players, NEW o \in Outcomes
            PROVE  /\ Told(raids', q, o) <= profile[q].exits[o]
                   /\ tracked'[q] # NoRaid => Told(raids', q, o) <= tracked'[q].before[o]
                                              /\ tracked'[q].before[o] <= profile[q].exits[o]
        <4>1. Told(raids', q, o) <= Told(raids, q, o) /\ Told(raids', q, o) \in Nat
              /\ Told(raids, q, o) \in Nat
          BY <2>5, <3>4, ToldIsNat DEF Told, RaidsInv
        <4>2. Told(raids', q, o) <= profile[q].exits[o]
          BY <4>1, ProfileFields DEF RaidsInv, TrackInv
        <4>3. CASE q = p
          BY <2>6, <4>2, <4>3, ProfileFields DEF RaidsInv
        <4>4. CASE q # p
          BY <2>6, <4>1, <4>2, <4>4, ProfileFields DEF RaidsInv, TrackInv
        <4>. QED BY <4>3, <4>4
      <3>6. \A q \in Players, o \in Outcomes : Told(raids', q, o) = Told(raids, q, o)'
        BY DEF Told, TellingRows
      <3>. QED BY <1>1, <3>3, <3>5, <3>6 DEF TrackInv
    <2>. QED BY <1>3, <2>9, <2>12, <2>13 DEF RaidsInv
  <1>. QED BY <1>4, <1>5 DEF StartRaid, Opens

LEMMA RaidsNextInv == RaidsInv /\ [RaidsNext]_raidVars => RaidsInv'
  <1>. SUFFICES ASSUME RaidsInv, [RaidsNext]_raidVars PROVE RaidsInv'
    OBVIOUS
  <1>1. CASE UNCHANGED raidVars
    BY <1>1 DEF raidVars, RaidsInv, RaidsTypeOK, Fits, TableInv, RowIsSound, InOrder, TrackInv,
                PollInv, OpenOf, Told, TellingRows
  <1>2. CASE RaidsNext
    BY <1>2, GameKeeps, SaveProfileKeeps, DeregisterKeeps, RaidEndKeeps, RaidStartKeeps, PollKeeps
       DEF RaidsNext
  <1>. QED BY <1>1, <1>2

\* What the invariant says of the pages: at most one open row, which is the raid that is
\* waited for; no kill and no exit told of twice.
LEMMA RaidsInvShows == RaidsInv => OneOpenRaid /\ KillsCountOnce
  <1>. SUFFICES ASSUME RaidsInv PROVE OneOpenRaid /\ KillsCountOnce
    OBVIOUS
  <1>1. ASSUME NEW p \in Players PROVE Cardinality(OpenOf(p)) <= 1
    <2>1. CASE OpenOf(p) = {}
      BY <2>1, FS_EmptySet
    <2>2. CASE OpenOf(p) # {}
      <3>1. PICK r0 \in raids : r0.player = p /\ r0.open
        BY <2>2 DEF OpenOf
      <3>2. OpenOf(p) = {r0}
        BY <3>1, OpenIsOne DEF OpenOf, RaidsInv
      <3>3. Cardinality(OpenOf(p)) = 1
        BY <3>2, FS_Singleton
      <3>. QED BY <3>3
    <2>. QED BY <2>1, <2>2
  <1>2. OneOpenRaid
    <2>1. registered \subseteq Players
      BY DEF RaidsInv, RaidsTypeOK
    <2>. QED BY <1>1, <2>1 DEF OneOpenRaid, RaidsInv, TrackInv
  <1>3. ASSUME NEW r \in raids, NEW s \in raids, r # s, r.player = s.player
        PROVE  r.kills \cap s.kills = {}
    <2>1. ASSUME NEW x \in raids, NEW y \in raids, x.player = y.player, x.id < y.id
          PROVE  x.kills \cap y.kills = {}
      <3>1. /\ \A k \in x.kills : k <= y.before /\ k \in Nat
            /\ \A k \in y.kills : y.before < k
            /\ y.before \in Nat
        BY <2>1, RaidsAssumption DEF RaidsInv, TableInv, InOrder, RowIsSound, RaidRow
      <3>. QED BY <3>1
    <2>2. r.id \in Nat /\ s.id \in Nat /\ r.id # s.id
      BY <1>3, RaidsAssumption DEF RaidsInv, TableInv, RaidRow, RaidIds
    <2>3. r.id < s.id \/ s.id < r.id
      BY <2>2
    <2>. QED BY <1>3, <2>1, <2>3
  <1>4. ASSUME NEW p \in Players, NEW o \in Outcomes
        PROVE  Exits({r \in raids : r.player = p}, o) <= profile[p].exits[o]
    <2>1. {r \in {x \in raids : x.player = p} : r.exit = o} = TellingRows(raids, p, o)
      BY DEF TellingRows
    <2>. QED BY <2>1 DEF Exits, Told, RaidsInv, TrackInv
  <1>. QED BY <1>2, <1>3, <1>4 DEF KillsCountOnce

\* However raids merge, restarts forget them and their ends fail: a player is in at most
\* one raid, and the poller waits for the end of that one (src/src/web/raid_tracker.rs).
THEOREM OneOpen == RaidsSpec => []OneOpenRaid
  <1>1. RaidsInv => OneOpenRaid
    BY RaidsInvShows
  <1>. QED BY <1>1, RaidsInitInv, RaidsNextInv, PTL DEF RaidsSpec

\* No kill is counted for two raids, and no death or survival that the profile counts is
\* told of two, however late SPT writes the profile (src/src/web/raid_tracker.rs).
THEOREM ToldOnce == RaidsSpec => []KillsCountOnce
  <1>1. RaidsInv => KillsCountOnce
    BY RaidsInvShows
  <1>. QED BY <1>1, RaidsInitInv, RaidsNextInv, PTL DEF RaidsSpec

------------------------------------------------------------------------------
(* The pages about the raids                                               *)

\* A page is cut out of the rows by their rank: how many rows are newer.
Newer(rows, r) == {s \in rows : s.id > r.id}
RankOf(rows) == [r \in rows |-> Cardinality(Newer(rows, r))]
Ordered(rows) ==
  IsFiniteSet(rows) /\ \A r \in rows : r.id \in Nat /\ \A s \in rows : r.id = s.id => r = s

LEMMA NewerIsFinite ==
  ASSUME NEW rows, Ordered(rows), NEW r \in rows
  PROVE  /\ IsFiniteSet(Newer(rows, r)) /\ Cardinality(Newer(rows, r)) \in Nat
         /\ Cardinality(Newer(rows, r)) < Cardinality(rows) /\ Cardinality(rows) \in Nat
  <1>1. Newer(rows, r) \in SUBSET rows /\ r \notin Newer(rows, r)
    BY DEF Newer, Ordered
  <1>2. IsFiniteSet(rows)
    BY DEF Ordered
  <1>3. /\ IsFiniteSet(Newer(rows, r)) /\ Cardinality(Newer(rows, r)) <= Cardinality(rows)
        /\ Cardinality(rows) = Cardinality(Newer(rows, r)) => rows = Newer(rows, r)
    BY <1>1, <1>2, FS_Subset
  <1>4. Cardinality(Newer(rows, r)) \in Nat /\ Cardinality(rows) \in Nat
    BY <1>2, <1>3, FS_CardinalityType
  <1>. QED BY <1>1, <1>3, <1>4

\* Every rank below the number of rows is that of one row.
LEMMA RanksAreOneEach ==
  ASSUME NEW rows, Ordered(rows)
  PROVE  /\ RankOf(rows) \in Injection(rows, 0..(Cardinality(rows) - 1))
         /\ RankOf(rows) \in Surjection(rows, 0..(Cardinality(rows) - 1))
  <1>. DEFINE n == Cardinality(rows)
  <1>1. IsFiniteSet(rows) /\ n \in Nat
    BY FS_CardinalityType DEF Ordered
  <1>2. RankOf(rows) \in [rows -> 0..(n - 1)]
    <2>1. \A r \in rows : Cardinality(Newer(rows, r)) \in 0..(n - 1)
      BY <1>1, NewerIsFinite
    <2>. QED BY <2>1 DEF RankOf
  <1>3. ASSUME NEW r \in rows, NEW s \in rows, r.id < s.id PROVE RankOf(rows)[s] < RankOf(rows)[r]
    <2>1. r.id \in Nat /\ s.id \in Nat /\ \A x \in rows : x.id \in Nat
      BY DEF Ordered
    <2>2. Newer(rows, s) \in SUBSET Newer(rows, r) /\ s \in Newer(rows, r) /\ s \notin Newer(rows, s)
      BY <1>3, <2>1 DEF Newer
    <2>3. IsFiniteSet(Newer(rows, r)) /\ Cardinality(Newer(rows, r)) \in Nat
          /\ Cardinality(Newer(rows, s)) \in Nat
      BY NewerIsFinite
    <2>4. /\ Cardinality(Newer(rows, s)) <= Cardinality(Newer(rows, r))
          /\ Cardinality(Newer(rows, r)) = Cardinality(Newer(rows, s)) => Newer(rows, r) = Newer(rows, s)
      BY <2>2, <2>3, FS_Subset
    <2>. QED BY <2>2, <2>3, <2>4 DEF RankOf
  <1>4. \A r, s \in rows : RankOf(rows)[r] = RankOf(rows)[s] => r = s
    <2>1. ASSUME NEW r \in rows, NEW s \in rows, r # s PROVE RankOf(rows)[r] # RankOf(rows)[s]
      <3>1. r.id \in Nat /\ s.id \in Nat /\ r.id # s.id
        BY <2>1 DEF Ordered
      <3>2. r.id < s.id \/ s.id < r.id
        BY <3>1
      <3>3. RankOf(rows)[r] \in Nat /\ RankOf(rows)[s] \in Nat
        BY NewerIsFinite DEF RankOf
      <3>. QED BY <1>3, <3>2, <3>3
    <2>. QED BY <2>1
  <1>5. RankOf(rows) \in Injection(rows, 0..(n - 1))
    BY <1>2, <1>4 DEF Injection, IsInjective
  <1>6. IsFiniteSet(0..(n - 1)) /\ Cardinality(0..(n - 1)) = n
    <2>1. 0 \in Int /\ n - 1 \in Int
      BY <1>1
    <2>2. IsFiniteSet(0..(n - 1)) /\ Cardinality(0..(n - 1)) = IF 0 > n - 1 THEN 0 ELSE (n - 1) - 0 + 1
      BY <2>1, FS_Interval
    <2>. HIDE DEF n
    <2>. QED BY <1>1, <2>2
  <1>7. RankOf(rows) \in Surjection(rows, 0..(n - 1))
    <2>. HIDE DEF n
    <2>1. Cardinality(rows) = Cardinality(0..(n - 1))
      BY <1>6 DEF n
    <2>. QED BY <1>5, <1>6, <2>1, FS_Injection
  <1>. QED BY <1>5, <1>7

LEMMA PageByRank ==
  ASSUME NEW rows, NEW limit, NEW offset
  PROVE  RowsFrom(rows, limit, offset) = {r \in rows : RankOf(rows)[r] \in offset..(offset + limit - 1)}
  BY DEF RowsFrom, RankOf, Newer

LEMMA RankedAt ==
  ASSUME NEW rows, Ordered(rows), NEW k \in Nat, k < Cardinality(rows)
  PROVE  \E r \in rows : RankOf(rows)[r] = k
  <1>1. k \in 0..(Cardinality(rows) - 1)
    BY FS_CardinalityType DEF Ordered
  <1>2. RankOf(rows) \in Surjection(rows, 0..(Cardinality(rows) - 1))
    BY RanksAreOneEach
  <1>. QED BY <1>1, <1>2 DEF Surjection

LEMMA RankIs ==
  ASSUME NEW rows, Ordered(rows), NEW r \in rows
  PROVE  RankOf(rows)[r] \in Nat /\ RankOf(rows)[r] < Cardinality(rows) /\ Cardinality(rows) \in Nat
  BY NewerIsFinite DEF RankOf

\* A page is empty when the rows end before it.
LEMMA PageIsEmpty ==
  ASSUME NEW rows, Ordered(rows), NEW limit \in Nat \ {0}, NEW offset \in Nat
  PROVE  RowsFrom(rows, limit, offset) = {} <=> Cardinality(rows) <= offset
  <1>0. Cardinality(rows) \in Nat
    BY FS_CardinalityType DEF Ordered
  <1>1. ASSUME offset < Cardinality(rows) PROVE RowsFrom(rows, limit, offset) # {}
    <2>1. PICK r \in rows : RankOf(rows)[r] = offset
      BY <1>1, RankedAt
    <2>2. offset \in offset..(offset + limit - 1)
      OBVIOUS
    <2>. QED BY <2>1, <2>2, PageByRank
  <1>2. ASSUME Cardinality(rows) <= offset PROVE RowsFrom(rows, limit, offset) = {}
    <2>1. ASSUME NEW r \in rows PROVE RankOf(rows)[r] \notin offset..(offset + limit - 1)
      BY <1>2, RankIs
    <2>. QED BY <2>1, PageByRank
  <1>. QED BY <1>0, <1>1, <1>2

\* One row more than the page holds is found when the rows go on after it.
LEMMA MoreIs ==
  ASSUME NEW rows, Ordered(rows), NEW limit \in Nat \ {0}, NEW offset \in Nat
  PROVE  Cardinality(RowsFrom(rows, limit + 1, offset)) > limit <=> Cardinality(rows) > offset + limit
  <1>. DEFINE found == RowsFrom(rows, limit + 1, offset)
              rank == [r \in found |-> RankOf(rows)[r]]
  <1>0. Cardinality(rows) \in Nat /\ IsFiniteSet(rows)
    BY FS_CardinalityType DEF Ordered
  <1>1. found = {r \in rows : RankOf(rows)[r] \in offset..(offset + limit)}
    <2>1. offset + (limit + 1) - 1 = offset + limit
      OBVIOUS
    <2>. QED BY <2>1, PageByRank
  <1>. HIDE DEF found
  <1>2. IsFiniteSet(found) /\ Cardinality(found) \in Nat
    <2>1. found \in SUBSET rows
      BY <1>1
    <2>. QED BY <1>0, <2>1, FS_Subset, FS_CardinalityType
  <1>3. \A r, s \in found : rank[r] = rank[s] => r = s
    <2>1. \A r, s \in rows : RankOf(rows)[r] = RankOf(rows)[s] => r = s
      BY RanksAreOneEach DEF Injection, IsInjective, RankOf
    <2>. QED BY <1>1, <2>1
  <1>4. ASSUME Cardinality(rows) > offset + limit PROVE Cardinality(found) > limit
    <2>1. rank \in [found -> offset..(offset + limit)]
      BY <1>1
    <2>2. \A k \in offset..(offset + limit) : \E r \in found : rank[r] = k
      <3>1. ASSUME NEW k \in offset..(offset + limit) PROVE \E r \in found : rank[r] = k
        <4>1. k \in Nat /\ k < Cardinality(rows)
          BY <1>0, <1>4
        <4>2. PICK r \in rows : RankOf(rows)[r] = k
          BY <4>1, RankedAt
        <4>3. r \in found
          BY <1>1, <4>2
        <4>. QED BY <4>2, <4>3
      <3>. QED BY <3>1
    <2>. HIDE DEF rank
    <2>3. rank \in Surjection(found, offset..(offset + limit))
      BY <2>1, <2>2 DEF Surjection
    <2>4. Cardinality(offset..(offset + limit)) <= Cardinality(found)
      BY <1>2, <2>3, FS_Surjection
    <2>5. Cardinality(offset..(offset + limit)) = limit + 1
      <3>1. Cardinality(offset..(offset + limit)) =
              IF offset > offset + limit THEN 0 ELSE (offset + limit) - offset + 1
        BY FS_Interval
      <3>. QED BY <3>1
    <2>. QED BY <1>2, <2>4, <2>5
  <1>5. ASSUME Cardinality(rows) <= offset + limit PROVE Cardinality(found) <= limit
    <2>1. rank \in [found -> offset..(offset + limit - 1)]
      <3>1. ASSUME NEW r \in found PROVE RankOf(rows)[r] \in offset..(offset + limit - 1)
        <4>1. r \in rows /\ RankOf(rows)[r] \in offset..(offset + limit)
          BY <1>1
        <4>2. RankOf(rows)[r] < Cardinality(rows)
          BY <4>1, RankIs
        <4>. QED BY <1>0, <1>5, <4>1, <4>2
      <3>. QED BY <3>1
    <2>2. DOMAIN rank = found
      OBVIOUS
    <2>. HIDE DEF rank
    <2>3. rank \in Injection(found, offset..(offset + limit - 1))
      BY <1>3, <2>1, <2>2 DEF Injection, IsInjective
    <2>4. IsFiniteSet(offset..(offset + limit - 1)) /\ Cardinality(offset..(offset + limit - 1)) = limit
      <3>1. offset \in Int /\ offset + limit - 1 \in Int
        OBVIOUS
      <3>2. IsFiniteSet(offset..(offset + limit - 1)) /\ Cardinality(offset..(offset + limit - 1)) =
              IF offset > offset + limit - 1 THEN 0 ELSE (offset + limit - 1) - offset + 1
        BY <3>1, FS_Interval
      <3>. QED BY <3>2
    <2>. QED BY <2>3, <2>4, FS_Injection
  <1>. QED BY <1>0, <1>2, <1>4, <1>5 DEF found

\* Every rank is on one of the pages.
LEMMA OnAPage ==
  ASSUME NEW k \in Nat, NEW limit \in Nat \ {0}
  PROVE  \E n \in 0..k : limit * n \in Nat /\ limit * n <= k /\ k < limit * n + limit
  <1>. DEFINE On(i, n) == n \in 0..i /\ limit * n \in Nat /\ limit * n <= i /\ i < limit * n + limit
              G == {i \in Nat : \E n \in Nat : On(i, n)}
  <1>1. 0 \in G
    <2>1. limit * 0 = 0
      OBVIOUS
    <2>2. On(0, 0)
      BY <2>1
    <2>. QED BY <2>2
  <1>2. ASSUME NEW i \in Nat, i \in G PROVE i + 1 \in G
    <2>1. PICK n \in Nat : On(i, n)
      BY <1>2
    <2>. DEFINE m == limit * n
    <2>2. m \in Nat /\ m <= i /\ i < m + limit /\ n <= i
      BY <2>1
    <2>3. limit * (n + 1) = m + limit
      OBVIOUS
    <2>4. CASE i + 1 < m + limit
      <3>1. On(i + 1, n)
        BY <2>2, <2>4
      <3>. QED BY <3>1
    <2>5. CASE ~(i + 1 < m + limit)
      <3>. HIDE DEF m
      <3>1. i + 1 = m + limit
        BY <2>2, <2>5
      <3>2. On(i + 1, n + 1)
        BY <2>2, <2>3, <3>1
      <3>3. n + 1 \in Nat
        OBVIOUS
      <3>. HIDE DEF On
      <3>. QED BY <3>2, <3>3
    <2>. QED BY <2>4, <2>5
  <1>3. Nat \subseteq G
    <2>. HIDE DEF G
    <2>. QED BY <1>1, <1>2, AllNumbers
  <1>. QED BY <1>3

LEMMA RowsAreOrdered ==
  ASSUME TableInv(raids), NEW rows, rows \subseteq raids
  PROVE  /\ Ordered(rows) /\ Cardinality(rows) \in Nat /\ Cardinality(rows) <= MaxRaids
         /\ \A r \in rows : r.player \in Players /\ IsFiniteSet(r.kills) /\ Cardinality(r.kills) \in Nat
  <1>1. IsFiniteSet(rows) /\ Cardinality(rows) \in Nat
    <2>1. IsFiniteSet(raids) /\ rows \in SUBSET raids
      BY DEF TableInv
    <2>. QED BY <2>1, FS_Subset, FS_CardinalityType
  <1>2. \A r \in rows : r.id \in 1..MaxRaids /\ \A s \in rows : r.id = s.id => r = s
    BY DEF TableInv, RaidRow, RaidIds
  <1>3. MaxRaids \in Nat
    BY RaidsAssumption
  <1>4. Ordered(rows)
    BY <1>1, <1>2, <1>3 DEF Ordered
  <1>5. Cardinality(rows) <= MaxRaids
    <2>. DEFINE idOf == [r \in rows |-> r.id]
    <2>1. idOf \in [rows -> 1..MaxRaids] /\ \A r, s \in rows : idOf[r] = idOf[s] => r = s
      BY <1>2
    <2>2. DOMAIN idOf = rows
      OBVIOUS
    <2>. HIDE DEF idOf
    <2>3. idOf \in Injection(rows, 1..MaxRaids)
      BY <2>1, <2>2 DEF Injection, IsInjective
    <2>4. IsFiniteSet(1..MaxRaids) /\ Cardinality(1..MaxRaids) = MaxRaids
      <3>1. IsFiniteSet(1..MaxRaids) /\ Cardinality(1..MaxRaids) = IF 1 > MaxRaids THEN 0 ELSE MaxRaids - 1 + 1
        BY <1>3, FS_Interval
      <3>. QED BY <1>3, <3>1
    <2>. QED BY <2>3, <2>4, FS_Injection
  <1>6. ASSUME NEW r \in rows PROVE r.player \in Players /\ IsFiniteSet(r.kills) /\ Cardinality(r.kills) \in Nat
    <2>1. r \in RaidRow
      BY DEF TableInv
    <2>2. r.player \in Players /\ r.kills \in SUBSET (1..MaxKills)
      BY <2>1 DEF RaidRow
    <2>3. MaxKills \in Nat /\ 1 \in Int /\ MaxKills \in Int
      BY RaidsAssumption
    <2>4. IsFiniteSet(1..MaxKills)
      BY <2>3, FS_Interval
    <2>. QED BY <2>2, <2>4, FS_Subset, FS_CardinalityType
  <1>. QED BY <1>1, <1>4, <1>5, <1>6

\* The raid under way adds one raid to what is told of a player, and nothing else.
LEMMA OpenAddsOne ==
  ASSUME TableInv(raids), NEW p \in Players, p \notin Headless
  PROVE  GetUserRaidStats(p) = [Stats(RankedRaids(p)) EXCEPT !.raids = @ + Cardinality(OpenOf(p))]
  <1>. DEFINE all == {r \in ShownRaids : r.player = p}
              ended == RankedRaids(p)
              open == OpenOf(p)
              K(rows) == [r \in rows |-> Cardinality(r.kills)]
  <1>1. /\ all = ended \cup open /\ ended \cap open = {}
        /\ all \subseteq raids /\ ended \subseteq raids /\ open \subseteq raids
    BY DEF RankedRaids, OpenOf, ShownRaids
  <1>2. \A r \in open : r.exit = "none" /\ r.kills = {}
    BY DEF OpenOf, TableInv, RowIsSound
  <1>. HIDE DEF all, ended, open
  <1>3. /\ Ordered(all) /\ Ordered(ended) /\ Ordered(open)
        /\ \A r \in all : Cardinality(r.kills) \in Nat
    BY <1>1, RowsAreOrdered
  <1>4. IsFiniteSet(all) /\ IsFiniteSet(ended) /\ IsFiniteSet(open)
    BY <1>3 DEF Ordered
  <1>5. Cardinality(all) = Cardinality(ended) + Cardinality(open)
    <2>1. Cardinality(ended \cup open) = Cardinality(ended) + Cardinality(open) - Cardinality(ended \cap open)
      BY <1>4, FS_Union
    <2>2. Cardinality(ended) \in Nat /\ Cardinality(open) \in Nat /\ Cardinality({}) = 0
      BY <1>4, FS_CardinalityType, FS_EmptySet
    <2>3. Cardinality(all) = Cardinality(ended) + Cardinality(open) - 0
      BY <1>1, <2>1, <2>2
    <2>4. \A i, j \in Nat : i + j - 0 = i + j
      OBVIOUS
    <2>. QED BY <2>2, <2>3, <2>4
  <1>6. \A o \in Outcomes : Exits(all, o) = Exits(ended, o)
    <2>1. ASSUME NEW o \in Outcomes PROVE {r \in all : r.exit = o} = {r \in ended : r.exit = o}
      BY <1>1, <1>2 DEF Outcomes
    <2>. QED BY <2>1 DEF Exits
  <1>7. SumFunction(K(all)) = SumFunction(K(ended))
    <2>. DEFINE F == K(all)
    <2>1. DOMAIN K(all) = all /\ DOMAIN K(ended) = ended
      OBVIOUS
    <2>2. /\ \A r \in ended \cup open : F[r] \in Nat
          /\ \A r \in open : F[r] = 0
          /\ \A r \in ended : F[r] \in Nat /\ F[r] = K(ended)[r]
      BY <1>1, <1>2, <1>3, FS_EmptySet
    <2>3. SumFunction(K(all)) = SumFunctionOnSet(F, all) /\ SumFunction(K(ended)) = SumFunctionOnSet(K(ended), ended)
      BY <2>1 DEF SumFunction
    <2>. HIDE DEF F, K
    <2>4. SumFunctionOnSet(F, ended \cup open) = SumFunctionOnSet(F, ended) + SumFunctionOnSet(F, open)
      BY <1>1, <1>4, <2>2, SumOfTwo
    <2>5. SumFunctionOnSet(F, open) = 0
      BY <1>4, <2>2, SumOfNoughts
    <2>6. SumFunctionOnSet(F, ended) = SumFunctionOnSet(K(ended), ended)
      BY <1>4, <2>2, SumSame
    <2>7. SumFunctionOnSet(F, ended) \in Nat
      BY <1>4, <2>2, SumNat
    <2>. QED BY <1>1, <2>3, <2>4, <2>5, <2>6, <2>7
  <1>8. Stats(all).raids = Cardinality(all)
    BY DEF Stats
  <1>. DEFINE k(rows) == SumFunction(K(rows))
  <1>9. \A rows : Stats(rows) = [raids |-> Cardinality(rows), survived |-> Exits(rows, "Survived"),
                               deaths |-> Exits(rows, "Killed"), kills |-> k(rows)]
    BY DEF Stats
  <1>10. GetUserRaidStats(p) = Stats(all)
    BY DEF GetUserRaidStats, all
  <1>11. k(all) = k(ended)
    BY <1>7
  <1>. HIDE DEF k, K
  <1>. QED BY <1>5, <1>6, <1>9, <1>10, <1>11 DEF Outcomes, ended, open

\* The raids on the leaderboard are those that have ended.
Board == GetLeaderboard(0)
Ended == {r \in ShownRaids : ~r.open}

LEMMA BoardIs ==
  ASSUME TableInv(raids)
  PROVE  /\ DOMAIN Board = {p \in Players : RankedRaids(p) # {}}
         /\ \A p \in DOMAIN Board : Board[p] = Stats(RankedRaids(p)) /\ p \notin Headless /\ p \in Players
  <1>1. \A p \in Players : Cardinality(RankedRaids(p)) >= 0
    <2>1. ASSUME NEW p \in Players PROVE Cardinality(RankedRaids(p)) >= 0
      <3>1. RankedRaids(p) \subseteq raids
        BY DEF RankedRaids, ShownRaids
      <3>2. Cardinality(RankedRaids(p)) \in Nat
        BY <3>1, RowsAreOrdered
      <3>. QED BY <3>2
    <2>. QED BY <2>1
  <1>. DEFINE ranked == {p \in Players : Cardinality(RankedRaids(p)) >= 0 /\ RankedRaids(p) # {}}
  <1>2. Board = [p \in ranked |-> Stats(RankedRaids(p))]
    BY DEF Board, GetLeaderboard
  <1>3. ranked = {p \in Players : RankedRaids(p) # {}}
    BY <1>1
  <1>4. \A p \in Players : RankedRaids(p) # {} => p \notin Headless
    BY DEF RankedRaids, ShownRaids
  <1>. HIDE DEF ranked
  <1>. QED BY <1>2, <1>3, <1>4

LEMMA BoardAddsUp ==
  ASSUME TableInv(raids)
  PROVE  SumFunction([p \in DOMAIN Board |-> Board[p].raids]) = Cardinality(Ended)
  <1>. DEFINE C == DOMAIN Board
              H == [p \in C |-> Board[p].raids]
              F == [r \in Ended |-> 1]
              k == [r \in Ended |-> r.player]
  <1>1. Ended \subseteq raids
    BY DEF Ended, ShownRaids
  <1>2. IsFiniteSet(Ended) /\ \A r \in Ended : r.player \in Players
    BY <1>1, RowsAreOrdered DEF Ordered
  <1>3. \A r \in Ended : F[r] = 1 /\ F[r] \in Nat /\ k[r] = r.player
    OBVIOUS
  <1>4. ASSUME NEW p \in C PROVE RankedRaids(p) = ClassOf(Ended, k, p) /\ H[p] = Cardinality(RankedRaids(p))
    <2>1. RankedRaids(p) = ClassOf(Ended, k, p)
      BY <1>3 DEF RankedRaids, ClassOf, Ended
    <2>2. Board[p] = Stats(RankedRaids(p))
      BY BoardIs
    <2>. QED BY <2>1, <2>2 DEF Stats
  <1>5. \A r \in Ended : k[r] \in C
    <2>1. \A r \in Ended : r \in RankedRaids(r.player)
      BY DEF RankedRaids, Ended
    <2>. QED BY <1>2, <1>3, <2>1, BoardIs
  <1>6. IsFiniteSet(C)
    <2>1. \A p \in C : \E r \in Ended : k[r] = p
      <3>1. \A p \in C : RankedRaids(p) # {}
        BY BoardIs
      <3>. QED BY <1>4, <3>1 DEF ClassOf
    <2>2. k \in [Ended -> C]
      BY <1>5
    <2>. HIDE DEF C, k
    <2>3. k \in Surjection(Ended, C)
      BY <2>1, <2>2 DEF Surjection
    <2>. QED BY <1>2, <2>3, FS_Surjection
  <1>7. SumFunction(H) = SumFunctionOnSet(H, C)
    BY DEF SumFunction
  <1>. HIDE DEF F, H, C, k
  <1>8. \A p \in C : H[p] = SumFunctionOnSet(F, ClassOf(Ended, k, p))
    <2>1. ASSUME NEW p \in C PROVE SumFunctionOnSet(F, ClassOf(Ended, k, p)) = Cardinality(ClassOf(Ended, k, p))
      <3>1. ClassOf(Ended, k, p) \in SUBSET Ended
        BY DEF ClassOf
      <3>2. IsFiniteSet(ClassOf(Ended, k, p)) /\ \A r \in ClassOf(Ended, k, p) : F[r] = 1
        BY <1>2, <1>3, <3>1, FS_Subset
      <3>. QED BY <3>2, SumOfOnes
    <2>. QED BY <1>4, <2>1
  <1>9. SumFunctionOnSet(H, C) = SumFunctionOnSet(F, Ended)
    BY <1>2, <1>3, <1>5, <1>6, <1>8, SumByClass
  <1>10. SumFunctionOnSet(F, Ended) = Cardinality(Ended)
    BY <1>2, <1>3, SumOfOnes
  <1>. QED BY <1>7, <1>9, <1>10 DEF H, C

LEMMA ServerAddsUp ==
  ASSUME TableInv(raids)
  PROVE  GetServerRaidStats.raids =
           Cardinality(ActiveRaids) + SumFunction([p \in DOMAIN Board |-> Board[p].raids])
  <1>1. /\ ShownRaids = ActiveRaids \cup Ended /\ ActiveRaids \cap Ended = {}
        /\ ActiveRaids \subseteq raids /\ Ended \subseteq raids
    BY DEF ActiveRaids, Ended, ShownRaids
  <1>2. IsFiniteSet(ActiveRaids) /\ IsFiniteSet(Ended)
        /\ Cardinality(ActiveRaids) \in Nat /\ Cardinality(Ended) \in Nat
    BY <1>1, RowsAreOrdered DEF Ordered
  <1>3. Cardinality(ActiveRaids \cup Ended)
          = Cardinality(ActiveRaids) + Cardinality(Ended) - Cardinality(ActiveRaids \cap Ended)
    BY <1>2, FS_Union
  <1>4. Cardinality(ShownRaids) = Cardinality(ActiveRaids) + Cardinality(Ended) - 0
    BY <1>1, <1>3, FS_EmptySet
  <1>5. GetServerRaidStats.raids = Cardinality(ShownRaids)
    BY DEF GetServerRaidStats, Stats
  <1>6. \A i, j \in Nat : i + j - 0 = i + j
    OBVIOUS
  <1>7. Cardinality(ShownRaids) = Cardinality(ActiveRaids) + Cardinality(Ended)
    BY <1>2, <1>4, <1>6
  <1>. QED BY <1>5, <1>7, BoardAddsUp

\* One page after the other: there is a next one when the one before says so.
LEMMA LeafOn ==
  ASSUME NEW rows, Ordered(rows), NEW n \in Nat \ {0}
  PROVE  RaidsPage(rows, RaidsPerPage * (n - 1)).more <=> RaidsPage(rows, RaidsPerPage * n) # NotFound
  <1>. DEFINE offset == RaidsPerPage * (n - 1)
              next == RaidsPerPage * n
  <1>1. RaidsPerPage \in Nat \ {0}
    BY RaidsAssumption
  <1>2. offset \in Nat /\ next \in Nat /\ next = offset + RaidsPerPage
    BY <1>1
  <1>3. Cardinality(rows) \in Nat
    BY FS_CardinalityType DEF Ordered
  <1>. HIDE DEF offset, next
  <1>4. RaidsPage(rows, offset).more <=> Cardinality(rows) > next
    <2>1. Cardinality(RowsFrom(rows, RaidsPerPage + 1, offset)) > RaidsPerPage
            <=> Cardinality(rows) > offset + RaidsPerPage
      BY <1>1, <1>2, MoreIs
    <2>. QED BY <1>2, <2>1 DEF RaidsPage
  <1>5. RaidsPage(rows, next).raids = {} <=> Cardinality(rows) <= next
    <2>1. RowsFrom(rows, RaidsPerPage, next) = {} <=> Cardinality(rows) <= next
      BY <1>1, <1>2, PageIsEmpty
    <2>. QED BY <2>1 DEF RaidsPage
  <1>6. RaidsPage(rows, next).more => Cardinality(rows) > next
    <2>1. Cardinality(RowsFrom(rows, RaidsPerPage + 1, next)) > RaidsPerPage
            <=> Cardinality(rows) > next + RaidsPerPage
      BY <1>1, <1>2, MoreIs
    <2>2. RaidsPage(rows, next).more => Cardinality(rows) > next + RaidsPerPage
      BY <2>1 DEF RaidsPage
    <2>. QED BY <1>1, <1>2, <1>3, <2>2
  <1>7. RaidsPage(rows, next) = NotFound <=> RaidsPage(rows, next).raids = {} /\ ~RaidsPage(rows, next).more
    <2>. DEFINE A == RowsFrom(rows, RaidsPerPage, next)
                b == Cardinality(RowsFrom(rows, RaidsPerPage + 1, next)) > RaidsPerPage
    <2>1. RaidsPage(rows, next) = [raids |-> A, more |-> b] /\ b \in BOOLEAN
      BY DEF RaidsPage
    <2>. HIDE DEF A, b
    <2>2. \A a, c : c \in BOOLEAN => ([raids |-> a, more |-> c] = [raids |-> {}, more |-> FALSE] <=> a = {} /\ c = FALSE)
      <3>1. ASSUME NEW a, NEW c, c \in BOOLEAN, [raids |-> a, more |-> c] = [raids |-> {}, more |-> FALSE]
            PROVE  a = {} /\ c = FALSE
        <4>1. [raids |-> a, more |-> c].raids = {} /\ [raids |-> a, more |-> c].more = FALSE
          BY <3>1
        <4>. QED BY <4>1
      <3>. QED BY <3>1
    <2>. QED BY <2>1, <2>2 DEF NotFound
  <1>8. RaidsPage(rows, offset).more <=> RaidsPage(rows, next) # NotFound
    BY <1>2, <1>3, <1>4, <1>5, <1>6, <1>7
  <1>. QED BY <1>8 DEF offset, next

\* Who leafs to the end has seen every row.
LEMMA LeafedAll ==
  ASSUME TableInv(raids), NEW rows, rows \subseteq raids, NEW r \in rows
  PROVE  \E n \in 0..MaxRaids : r \in RaidsPage(rows, RaidsPerPage * n).raids
  <1>1. Ordered(rows) /\ Cardinality(rows) \in Nat /\ Cardinality(rows) <= MaxRaids
    BY RowsAreOrdered
  <1>. DEFINE k == RankOf(rows)[r]
  <1>2. k \in Nat /\ k < Cardinality(rows) /\ RaidsPerPage \in Nat \ {0} /\ MaxRaids \in Nat
    BY <1>1, RankIs, RaidsAssumption
  <1>. HIDE DEF k
  <1>3. PICK n \in 0..k : RaidsPerPage * n \in Nat /\ RaidsPerPage * n <= k /\ k < RaidsPerPage * n + RaidsPerPage
    BY <1>2, OnAPage
  <1>4. n \in 0..MaxRaids
    BY <1>1, <1>2, <1>3
  <1>. DEFINE offset == RaidsPerPage * n
  <1>5. k \in offset..(offset + RaidsPerPage - 1)
    <2>1. offset \in Nat /\ offset <= k /\ k < offset + RaidsPerPage
      BY <1>3
    <2>. HIDE DEF offset
    <2>. QED BY <1>2, <2>1
  <1>6. r \in RowsFrom(rows, RaidsPerPage, offset)
    BY <1>5, PageByRank DEF k
  <1>7. r \in RaidsPage(rows, offset).raids
    BY <1>6 DEF RaidsPage
  <1>. QED BY <1>4, <1>7

LEMMA PagesTell == RaidsInv => PagesAgree
  <1>. SUFFICES ASSUME RaidsInv PROVE PagesAgree
    OBVIOUS
  <1>. DEFINE page == StatsPage(0)
              leafed == [n \in 0..MaxRaids |-> AllRaidsPage(RaidsPerPage * n)]
              ofPlayer == [p \in Players |->
                UNION {PlayerRaidsPage(p, RaidsPerPage * n).raids : n \in 0..MaxRaids}]
  <1>1. TableInv(raids) /\ registered \subseteq Players /\ MaxRaids \in Nat
    BY RaidsAssumption DEF RaidsInv, RaidsTypeOK
  <1>2. /\ page.leaderboard = Board /\ page.all = GetServerRaidStats /\ page.active = ActiveRaids
        /\ page.recent \subseteq ShownRaids
    BY DEF StatsPage, Board, RowsFrom
  <1>3. \A p \in DOMAIN Board : GetUserRaidStats(p) = [Board[p] EXCEPT !.raids = @ + Cardinality(OpenOf(p))]
    BY <1>1, BoardIs, OpenAddsOne
  <1>4. page.all.raids = Cardinality(page.active) + SumFunction([p \in DOMAIN Board |-> Board[p].raids])
    BY <1>1, <1>2, ServerAddsUp
  <1>5. Ordered(ShownRaids)
    BY <1>1, RowsAreOrdered DEF ShownRaids
  <1>6. ASSUME NEW n \in 1..MaxRaids PROVE leafed[n - 1].more <=> leafed[n] # NotFound
    <2>1. n - 1 \in 0..MaxRaids /\ n \in 0..MaxRaids /\ n \in Nat \ {0}
      BY <1>1
    <2>2. RaidsPage(ShownRaids, RaidsPerPage * (n - 1)).more <=> RaidsPage(ShownRaids, RaidsPerPage * n) # NotFound
      BY <1>5, <2>1, LeafOn
    <2>. QED BY <2>1, <2>2 DEF AllRaidsPage
  <1>7. ASSUME NEW r \in ShownRaids PROVE RaidDetailPage(r.id).raids = {r} /\ r \in ofPlayer[r.player]
    <2>1. r \in raids /\ r.player \in registered /\ r.player \in Players /\ r.player \notin Headless
      BY <1>1 DEF ShownRaids, TableInv, RowIsSound
    <2>2. RaidDetailPage(r.id).raids = {r}
      <3>1. \A s \in ShownRaids : s.id = r.id => s = r
        BY <1>5 DEF Ordered
      <3>. QED BY <2>1, <3>1 DEF RaidDetailPage
    <2>. DEFINE own == {s \in ShownRaids : s.player = r.player}
    <2>3. own \subseteq raids /\ r \in own
      BY DEF ShownRaids
    <2>. HIDE DEF own
    <2>4. PICK n \in 0..MaxRaids : r \in RaidsPage(own, RaidsPerPage * n).raids
      BY <1>1, <2>3, LeafedAll
    <2>5. PlayerRaidsPage(r.player, RaidsPerPage * n) = RaidsPage(own, RaidsPerPage * n)
      BY <2>1 DEF PlayerRaidsPage, own
    <2>6. r \in ofPlayer[r.player]
      BY <2>1, <2>4, <2>5
    <2>. QED BY <2>2, <2>6
  <1>8. page.active \cup page.recent \cup UNION {leafed[n].raids : n \in 0..MaxRaids} \subseteq ShownRaids
    <2>1. \A n \in 0..MaxRaids : leafed[n].raids \subseteq ShownRaids
      BY DEF AllRaidsPage, RaidsPage, RowsFrom
    <2>2. ActiveRaids \subseteq ShownRaids
      BY DEF ActiveRaids
    <2>. HIDE DEF leafed, page
    <2>. QED BY <1>2, <2>1, <2>2
  <1>. HIDE DEF leafed, page, ofPlayer
  <1>9. \A r \in page.active \cup page.recent \cup UNION {leafed[n].raids : n \in 0..MaxRaids} :
          RaidDetailPage(r.id).raids = {r} /\ r \in ofPlayer[r.player]
    BY <1>7, <1>8
  <1>. QED BY <1>2, <1>3, <1>4, <1>6, <1>9 DEF PagesAgree, leafed, page, ofPlayer

\* One raid at most is open for a player, every kill is told once, and the pages count the
\* same raids, kills and ends, each in one place (src/src/web/poller.rs, src/src/db/raids.rs,
\* src/src/web/handlers/raids.rs), for any players, polls, restarts and pages.
THEOREM RaidsTrue == RaidsSpec => []RaidsAreTrue
  <1>1. RaidsInv => RaidsAreTrue
    BY RaidsInvShows, PagesTell DEF RaidsAreTrue
  <1>. QED BY <1>1, RaidsInitInv, RaidsNextInv, PTL DEF RaidsSpec

------------------------------------------------------------------------------
(* The integrity report, and the list of updates                           *)

\* Every change has been reported: nobody is at it, and nobody ended without a word.
AllHeard == ~unheard /\ \A c \in Changers : changing[c] = "idle"

\* What is compared under a generation is right as long as the generation stands and
\* every change has been reported; the check under way owes what it has read.
ListedIsTrue(x) == x.generation = generation /\ AllHeard => x.rows = rowsAt
ScannedIsTrue(x) == x.generation = generation /\ AllHeard => x.rows = rowsAt /\ x.disk = diskAt

Check == [at : {"list", "scan", "complete"}, generation : Nat, rows : Changes, disk : Changes]

IntegrityInv ==
  /\ IntegrityTypeOK
  /\ report # NoReport => report.generation <= generation /\ ScannedIsTrue(report)
  /\ check # NoReport =>
       /\ check \in Check /\ check.generation <= generation
       /\ check.at = "scan" => ListedIsTrue(check)
       /\ check.at = "complete" => ScannedIsTrue(check)

LEMMA IntegrityInitInv == IntegrityInit => IntegrityInv
  <1>. SUFFICES ASSUME IntegrityInit PROVE IntegrityInv
    OBVIOUS
  <1>1. 0 \in Changes /\ changing \in [Changers -> {"idle", "locked", "changed"}]
    BY IntegrityAssumption DEF IntegrityInit, Changes
  <1>2. {running, unheard} \subseteq BOOLEAN
    BY DEF IntegrityInit
  <1>3. IntegrityTypeOK
    BY <1>1, <1>2 DEF IntegrityInit, IntegrityTypeOK
  <1>. QED BY <1>3 DEF IntegrityInit, IntegrityInv

\* An operation: while it is under way nothing is promised, and at its end the
\* generation is a new one, or it was not heard of.
LEMMA ChangesKeep ==
  ASSUME IntegrityInv, NEW c \in Changers,
         ChangeDisk(c) \/ ChangeRows(c) \/ EndUnheard(c) \/ Invalidate(c)
  PROVE  IntegrityInv'
  <1>1. /\ changing' \in [Changers -> {"idle", "locked", "changed"}]
        /\ rowsAt' \in Changes /\ diskAt' \in Changes /\ generation' \in Nat
        /\ UNCHANGED <<report, running, check>>
        /\ unheard' \in BOOLEAN
    <2>1. /\ changing \in [Changers -> {"idle", "locked", "changed"}]
          /\ rowsAt \in Changes /\ diskAt \in Changes /\ generation \in Nat /\ unheard \in BOOLEAN
      BY DEF IntegrityInv, IntegrityTypeOK
    <2>2. diskAt < MaxChanges => diskAt + 1 \in Changes
      BY <2>1, IntegrityAssumption DEF Changes
    <2>3. CASE ChangeDisk(c)
      BY <2>1, <2>2, <2>3 DEF ChangeDisk
    <2>4. CASE ChangeRows(c)
      BY <2>1, <2>4 DEF ChangeRows
    <2>5. CASE EndUnheard(c)
      BY <2>1, <2>5 DEF EndUnheard
    <2>6. CASE Invalidate(c)
      <3>1. generation' \in Nat
        BY <2>1, <2>6 DEF Invalidate, Raised
      <3>2. /\ changing' = [changing EXCEPT ![c] = "idle"] /\ unheard' = FALSE
            /\ UNCHANGED <<rowsAt, diskAt, report, running, check>>
        BY <2>6 DEF Invalidate
      <3>3. changing' \in [Changers -> {"idle", "locked", "changed"}]
        BY <2>1, <3>2
      <3>. QED BY <2>1, <3>1, <3>2, <3>3
    <2>. QED BY <2>3, <2>4, <2>5, <2>6
  <1>2. ~AllHeard' \/ generation' = generation + 1
    BY DEF IntegrityInv, IntegrityTypeOK, AllHeard, ChangeDisk, ChangeRows, EndUnheard, Invalidate, Raised
  <1>3. generation' \in {generation, generation + 1} /\ generation \in Nat
    BY DEF IntegrityInv, IntegrityTypeOK, ChangeDisk, ChangeRows, EndUnheard, Invalidate, Raised
  <1>4. \A g \in Nat : g <= generation => g <= generation' /\ ~(g = generation' /\ AllHeard')
    BY <1>2, <1>3
  <1>5. report # NoReport => report.generation \in Nat /\ report \in Report
    BY DEF IntegrityInv, IntegrityTypeOK, Report
  <1>6. check # NoReport => check.generation \in Nat /\ check \in Check
    BY DEF IntegrityInv, Check
  <1>7. IntegrityTypeOK'
    BY <1>1 DEF IntegrityInv, IntegrityTypeOK
  <1>8. report' # NoReport => report'.generation <= generation' /\ ScannedIsTrue(report)'
    BY <1>1, <1>4, <1>5 DEF IntegrityInv, ScannedIsTrue
  <1>9. check' # NoReport =>
          /\ check' \in Check /\ check'.generation <= generation'
          /\ check'.at = "scan" => ListedIsTrue(check)'
          /\ check'.at = "complete" => ScannedIsTrue(check)'
    BY <1>1, <1>4, <1>6 DEF IntegrityInv, ListedIsTrue, ScannedIsTrue
  <1>. QED BY <1>7, <1>8, <1>9 DEF IntegrityInv

LEMMA StartCheckKeeps ==
  ASSUME IntegrityInv, NEW again \in BOOLEAN, StartCheck(again)
  PROVE  IntegrityInv'
  <1>1. /\ UNCHANGED <<rowsAt, diskAt, changing, report, check>>
        /\ running' = TRUE /\ ~running /\ unheard' \in BOOLEAN
        /\ \/ generation' = generation /\ unheard' = unheard
           \/ generation' = generation + 1
        /\ generation \in Nat /\ generation' \in Nat
    BY DEF StartCheck, Raised, IntegrityInv, IntegrityTypeOK
  <1>2. check = NoReport
    BY <1>1 DEF IntegrityInv, IntegrityTypeOK
  <1>3. report # NoReport => report.generation \in Nat
    BY DEF IntegrityInv, IntegrityTypeOK, Report
  <1>4. IntegrityTypeOK'
    BY <1>1 DEF IntegrityInv, IntegrityTypeOK
  <1>5. report' # NoReport => report'.generation <= generation' /\ ScannedIsTrue(report)'
    BY <1>1, <1>3 DEF IntegrityInv, ScannedIsTrue, AllHeard
  <1>. QED BY <1>1, <1>2, <1>4, <1>5 DEF IntegrityInv

\* The check reads the generation first, then the rows, then the disk.
LEMMA CheckKeeps ==
  ASSUME IntegrityInv, ReadGeneration \/ ListFiles \/ ScanDisk
  PROVE  IntegrityInv'
  <1>1. UNCHANGED <<rowsAt, diskAt, changing, generation, report, running, unheard>> /\ running
    BY DEF ReadGeneration, ListFiles, ScanDisk, IntegrityInv, IntegrityTypeOK
  <1>2. AllHeard' <=> AllHeard
    BY <1>1 DEF AllHeard
  <1>3. IntegrityTypeOK'
    BY <1>1 DEF IntegrityInv, IntegrityTypeOK
  <1>4. report' # NoReport => report'.generation <= generation' /\ ScannedIsTrue(report)'
    BY <1>1, <1>2 DEF IntegrityInv, ScannedIsTrue
  <1>5. rowsAt \in Changes /\ diskAt \in Changes /\ 0 \in Changes /\ generation \in Nat
    BY IntegrityAssumption DEF IntegrityInv, IntegrityTypeOK, Changes
  <1>6. /\ check' \in Check /\ check'.generation <= generation
        /\ check'.at = "scan" => ListedIsTrue(check')
        /\ check'.at = "complete" => ScannedIsTrue(check')
    <2>1. CASE ReadGeneration
      BY <2>1, <1>5 DEF ReadGeneration, Check
    <2>2. CASE ListFiles
      <3>1. check \in Check /\ check.generation <= generation
            /\ check' = [check EXCEPT !.at = "scan", !.rows = rowsAt]
        BY <2>2 DEF ListFiles, IntegrityInv
      <3>2. check' \in Check /\ check'.at = "scan" /\ check'.rows = rowsAt
            /\ check'.generation = check.generation
        BY <3>1, <1>5 DEF Check
      <3>. QED BY <3>1, <3>2 DEF ListedIsTrue
    <2>3. CASE ScanDisk
      <3>1. check \in Check /\ check.generation <= generation /\ ListedIsTrue(check)
            /\ check' = [check EXCEPT !.at = "complete", !.disk = diskAt]
        BY <2>3 DEF ScanDisk, IntegrityInv
      <3>2. check' \in Check /\ check'.at = "complete" /\ check'.disk = diskAt
            /\ check'.rows = check.rows /\ check'.generation = check.generation
        BY <3>1, <1>5 DEF Check
      <3>. QED BY <3>1, <3>2 DEF ListedIsTrue, ScannedIsTrue
    <2>. QED BY <2>1, <2>2, <2>3
  <1>. QED BY <1>1, <1>2, <1>3, <1>4, <1>6 DEF IntegrityInv, ListedIsTrue, ScannedIsTrue

\* The report is stored under the generation at the start of the check.
LEMMA EndsKeep ==
  ASSUME IntegrityInv, CompleteCheck \/ CheckFails \/ ReportExpires
  PROVE  IntegrityInv'
  <1>1. UNCHANGED <<rowsAt, diskAt, changing, generation, unheard>> /\ running' \in BOOLEAN
    BY DEF CompleteCheck, CheckFails, ReportExpires, IntegrityInv, IntegrityTypeOK
  <1>2. AllHeard' <=> AllHeard
    BY <1>1 DEF AllHeard
  <1>3. CASE CompleteCheck
    <2>1. /\ check \in Check /\ check.generation <= generation /\ ScannedIsTrue(check)
          /\ report' = [rows |-> check.rows, disk |-> check.disk,
                        generation |-> check.generation, expired |-> FALSE]
          /\ check' = NoReport /\ running' = FALSE
      BY <1>3 DEF CompleteCheck, Stamp, IntegrityInv
    <2>2. report' \in Report
      BY <2>1 DEF Check, Report
    <2>3. report'.generation <= generation' /\ ScannedIsTrue(report)'
      BY <1>1, <1>2, <2>1 DEF ScannedIsTrue
    <2>. QED BY <1>1, <2>1, <2>2, <2>3 DEF IntegrityInv, IntegrityTypeOK
  <1>4. CASE CheckFails
    BY <1>1, <1>2, <1>4 DEF CheckFails, IntegrityInv, IntegrityTypeOK, ScannedIsTrue
  <1>5. CASE ReportExpires
    <2>1. /\ report \in Report /\ report' = [report EXCEPT !.expired = TRUE]
          /\ UNCHANGED <<running, check>>
      BY <1>5 DEF ReportExpires, IntegrityInv, IntegrityTypeOK
    <2>2. /\ report' \in Report /\ report'.generation = report.generation
          /\ report'.rows = report.rows /\ report'.disk = report.disk
      BY <2>1 DEF Report
    <2>. QED
      BY <1>1, <1>2, <1>5, <2>1, <2>2
         DEF ReportExpires, IntegrityInv, IntegrityTypeOK, ScannedIsTrue, ListedIsTrue
  <1>. QED BY <1>3, <1>4, <1>5

LEMMA IntegrityNextInv == IntegrityInv /\ [IntegrityNext]_integrityVars => IntegrityInv'
  <1>. SUFFICES ASSUME IntegrityInv, [IntegrityNext]_integrityVars PROVE IntegrityInv'
    OBVIOUS
  <1>1. ASSUME UNCHANGED integrityVars PROVE IntegrityInv'
    BY <1>1 DEF integrityVars, IntegrityInv, IntegrityTypeOK, ListedIsTrue, ScannedIsTrue, AllHeard
  <1>. QED
    BY <1>1, ChangesKeep, StartCheckKeeps, CheckKeeps, EndsKeep DEF IntegrityNext

LEMMA ReportIsTrue == IntegrityInv => FreshIsTrue
  BY DEF IntegrityInv, FreshIsTrue, IsStale, ScannedIsTrue, AllHeard

\* A report that is not stale tells what is on disk and in the database, unless an
\* operation is under way or ended unheard (src/src/integrity.rs).
THEOREM ReportsTrue == IntegritySpec => []FreshIsTrue
  BY ReportIsTrue, IntegrityInitInv, IntegrityNextInv, PTL DEF IntegritySpec

\* A question under way, and the answer in the cache, are about what is installed,
\* unless a version changed unheard or an answer passed an invalidation.
NewsInv ==
  /\ NewsTypeOK /\ CachedForInstalled
  /\ ~overtaken => \A a \in Askers : asking[a] # NoNews => asking[a].for = installed

LEMMA NewsInitInv == NewsInit => NewsInv
  <1>. SUFFICES ASSUME NewsInit PROVE NewsInv
    OBVIOUS
  <1>1. 0 \in Versions /\ 1 \in Versions
    BY NewsAssumption DEF Versions
  <1>2. /\ installed \in [Mods -> Versions] /\ offered \in [Mods -> Versions]
        /\ asking \in [Askers -> Question \cup {NoNews}]
    BY <1>1 DEF NewsInit
  <1>3. NewsTypeOK
    BY <1>2 DEF NewsInit, NewsTypeOK
  <1>. QED BY <1>3 DEF NewsInit, NewsInv, CachedForInstalled

LEMMA NewsNextInv == NewsInv /\ [NewsNext]_newsVars => NewsInv'
  <1>. SUFFICES ASSUME NewsInv, [NewsNext]_newsVars PROVE NewsInv'
    OBVIOUS
  <1>1. ASSUME NEW m \in Mods, Release(m) PROVE NewsInv'
    BY <1>1, NewsAssumption DEF Release, NewsInv, NewsTypeOK, CachedForInstalled, Versions
  <1>2. ASSUME NEW m \in Mods, ChangeMod(m) PROVE NewsInv'
    BY <1>2, NewsAssumption
       DEF ChangeMod, Cleared, NewsInv, NewsTypeOK, CachedForInstalled, Versions
  <1>3. ASSUME NEW m \in Mods, ChangeUnheard(m) PROVE NewsInv'
    BY <1>3, NewsAssumption DEF ChangeUnheard, NewsInv, NewsTypeOK, CachedForInstalled, Versions
  <1>4. ASSUME Expires PROVE NewsInv'
    BY <1>4 DEF Expires, NewsInv, NewsTypeOK, CachedForInstalled
  <1>5. ASSUME NEW a \in Askers, Look(a) PROVE NewsInv'
    <2>1. [for |-> installed, sent |-> FALSE] \in Question
      BY DEF Question, NewsInv, NewsTypeOK
    <2>. QED BY <1>5, <2>1 DEF Look, NewsInv, NewsTypeOK, CachedForInstalled
  <1>6. ASSUME NEW a \in Askers, Ask(a) PROVE NewsInv'
    <2>1. asking[a] \in Question
      BY <1>6 DEF Ask, NewsInv, NewsTypeOK
    <2>2. [asking[a] EXCEPT !.sent = TRUE] \in Question
          /\ [asking[a] EXCEPT !.sent = TRUE].for = asking[a].for
      BY <2>1 DEF Question
    <2>3. asking' = [asking EXCEPT ![a] = NoNews]
          \/ asking' = [asking EXCEPT ![a] = [asking[a] EXCEPT !.sent = TRUE]]
      BY <1>6 DEF Ask
    <2>4. UNCHANGED <<installed, offered, cache, seeking, told, noted, overtaken>>
      BY <1>6 DEF Ask
    <2>5. asking[a] # NoNews
      BY <1>6 DEF Ask
    <2>. QED BY <2>2, <2>3, <2>4, <2>5 DEF NewsInv, NewsTypeOK, CachedForInstalled
  <1>7. ASSUME NEW a \in Askers, Hear(a) PROVE NewsInv'
    <2>1. asking[a] \in Question /\ asking[a] # NoNews
      BY <1>7 DEF Hear, NewsInv, NewsTypeOK
    <2>2. Stored(a) \in Answer /\ Stored(a).for = asking[a].for
      BY <2>1 DEF Stored, Answer, Question, NewsInv, NewsTypeOK
    <2>3. News(Stored(a)) \subseteq Mods \X Versions
      BY <2>2 DEF News, Answer
    <2>. QED BY <1>7, <2>1, <2>2, <2>3 DEF Hear, NewsInv, NewsTypeOK, CachedForInstalled
  <1>8. ASSUME NEW a \in Askers, HearNothing(a) PROVE NewsInv'
    BY <1>8 DEF HearNothing, NewsInv, NewsTypeOK, CachedForInstalled
  <1>9. ASSUME Announce PROVE NewsInv'
    <2>1. PICK sent \in SUBSET Unannounced : Post(sent)
      BY <1>9 DEF Announce
    <2>2. Unannounced = {}
      BY DEF Unannounced, HasNotifications, SchemaVersion
    <2>. QED BY <2>1, <2>2 DEF Post, NewsInv, NewsTypeOK, CachedForInstalled
  <1>10. ASSUME UNCHANGED newsVars PROVE NewsInv'
    BY <1>10 DEF newsVars, NewsInv, NewsTypeOK, CachedForInstalled
  <1>. QED
    BY <1>1, <1>2, <1>3, <1>4, <1>5, <1>6, <1>7, <1>8, <1>9, <1>10 DEF NewsNext

------------------------------------------------------------------------------
(* Queued archives                                                         *)

\* A process that has asked for an archive, and operations that it has at hand.
Fetching(p) == Busy(p, "fetching") \/ Busy(p, "fetched")
Applying(p) == Busy(p, "installed") \/ Busy(p, "unlinked")
InHand(p) ==
  (IF Busy(p, "draining") \/ Applying(p) THEN hand[p].todo ELSE {})
    \cup (IF Applying(p) THEN {hand[p].op} ELSE {})

\* Operations that are recorded, or that somebody still has at hand.
KnownOps == urlOps \cup UNION {InHand(p) : p \in Procs}

\* A name that is in use was requested.
UsedWasAsked ==
  /\ \A op \in KnownOps : op \in UrlOp /\ op.archive \in asked
  /\ \A p \in Procs : Fetching(p) => hand[p].archive \in asked
  /\ \A n \in ArchiveNames : archives[n] # Missing => n \in asked

\* But for the clashes a name has one user: who fetches it, or the operation made of it.
OneUser ==
  /\ \A p, q \in Procs : Fetching(p) /\ Fetching(q) /\ hand[p].archive = hand[q].archive
       /\ hand[p].archive \notin clashed => p = q
  /\ \A p \in Procs : \A op \in KnownOps :
       Fetching(p) /\ hand[p].archive \notin clashed => op.archive # hand[p].archive
  /\ \A o, op \in KnownOps : o.archive = op.archive /\ op.archive \notin clashed => o = op

\* The file is the user's.
FileIsUsers ==
  /\ \A p \in Procs : Fetching(p) /\ hand[p].archive \notin clashed
       /\ archives[hand[p].archive] # Missing => archives[hand[p].archive].url = hand[p].url
  /\ \A op \in KnownOps : op.archive \notin clashed /\ archives[op.archive] # Missing
       => archives[op.archive].url = op.url

\* The file is there while it is needed.
Taking(op) == \E p \in Procs : Busy(p, "unlinked") /\ hand[p].op = op
FileIsThere ==
  /\ \A op \in urlOps : Exists(op) \/ op.archive \in clashed \cup parted \/ Taking(op)
  /\ \A p \in Procs : Fetching(p) =>
       archives[hand[p].archive] # Missing \/ hand[p].archive \in clashed \cup parted

ModsAsAsked ==
  \A i, j \in urlMods :
    /\ i.archive \notin clashed => i.got = i.asked
    /\ i.got = j.got => i = j

Hands == hand \in [Procs -> Hand \cup {Missing}]
Stopped == serving # "up" => \A p \in Handlers : hand[p] = Missing
Users == UsedWasAsked /\ OneUser /\ FileIsUsers
UrlInv == UrlTypeOK /\ Hands /\ Users /\ FileIsThere /\ ModsAsAsked /\ Stopped

LEMMA UrlInvServes == UrlInv => ArchivesServe
  BY DEF UrlInv, FileIsThere, ModsAsAsked, Taking, ArchivesServe

LEMMA UrlInitInv == UrlInit => UrlInv
  <1>. SUFFICES ASSUME UrlInit PROVE UrlInv
    OBVIOUS
  <1>1. UrlTypeOK /\ Hands
    BY UrlAssumption DEF UrlInit, UrlTypeOK, Hands, Seconds
  <1>2. \A p \in Procs : hand[p] = Missing
    BY DEF UrlInit
  <1>3. KnownOps = {} /\ \A p \in Procs : ~Fetching(p)
    BY <1>2 DEF UrlInit, KnownOps, InHand, Fetching, Applying, Busy
  <1>4. Users /\ FileIsThere
    BY <1>3 DEF UrlInit, Users, UsedWasAsked, OneUser, FileIsUsers, FileIsThere
  <1>. QED BY <1>1, <1>4 DEF UrlInit, UrlInv, ModsAsAsked, Stopped

LEMMA OldestIn ==
  ASSUME NEW S, S \subseteq UrlOp, S # {}
  PROVE  Oldest(S) \in S
  <1>. DEFINE I == {o.id : o \in S}
  <1>1. \A o \in S : o.id \in Nat
    BY UrlAssumption DEF UrlOp
  <1>2. I \subseteq Nat /\ I # {}
    BY <1>1
  <1>3. PICK n \in I : \A m \in I : n <= m
    <2>. HIDE DEF I
    <2>. QED BY <1>2, LeastNat
  <1>4. PICK op \in S : op.id = n
    OBVIOUS
  <1>5. \A o \in S : op.id <= o.id
    BY <1>3, <1>4
  <1>. QED BY <1>5 DEF Oldest

\* Of what a process has at hand.
LEMMA HandParts ==
  ASSUME Hands, NEW p \in Procs, hand[p] # Missing
  PROVE  /\ Fetching(p) => hand[p] \in [at : {"fetching", "fetched"}, url : Urls, archive : ArchiveNames]
         /\ Busy(p, "draining") => hand[p] \in [at : {"draining"}, todo : SUBSET UrlOp]
         /\ Applying(p) => hand[p] \in [at : {"installed", "unlinked"}, op : UrlOp, todo : SUBSET UrlOp]
  BY DEF Hands, Hand, Fetching, Applying, Busy

\* A step by which nobody gets a new name, operation or file.
LEMMA NothingNew ==
  ASSUME Users, UNCHANGED <<asked, clashed>>, KnownOps' \subseteq KnownOps,
         \A p \in Procs : Fetching(p)' =>
           Fetching(p) /\ hand'[p].archive = hand[p].archive /\ hand'[p].url = hand[p].url,
         \A n \in ArchiveNames : archives'[n] # Missing =>
           archives[n] # Missing /\ archives'[n].url = archives[n].url,
         \A p \in Procs : Fetching(p) => hand[p].archive \in ArchiveNames
  PROVE  Users'
  <1>1. UsedWasAsked'
    BY DEF Users, UsedWasAsked
  <1>2. OneUser'
    BY DEF Users, OneUser
  <1>3. FileIsUsers'
    <2>1. \A op \in KnownOps : op.archive \in ArchiveNames
      BY DEF Users, UsedWasAsked, UrlOp
    <2>. QED BY <2>1 DEF Users, FileIsUsers
  <1>. QED BY <1>1, <1>2, <1>3 DEF Users

\* A step of one process leaves to the others what they have at hand.
LEMMA OneMoves ==
  ASSUME Hands, NEW p \in Procs, NEW h, h \in Hand \cup {Missing}, Now(p, h)
  PROVE  /\ Hands' /\ hand'[p] = h
         /\ \A q \in Procs : q # p =>
              /\ hand'[q] = hand[q] /\ InHand(q)' = InHand(q)
              /\ Fetching(q)' <=> Fetching(q)
              /\ \A at : Busy(q, at)' <=> Busy(q, at)
  <1>1. hand' \in [Procs -> Hand \cup {Missing}] /\ hand'[p] = h
        /\ \A q \in Procs : q # p => hand'[q] = hand[q]
    BY DEF Hands, Now
  <1>. QED BY <1>1 DEF Hands, InHand, Fetching, Applying, Busy

\* A process whose operations are of those known makes nothing known.
LEMMA KnownShrinks ==
  ASSUME Hands, NEW p \in Procs, NEW h, h \in Hand \cup {Missing}, Now(p, h),
         urlOps' \subseteq KnownOps, InHand(p)' \subseteq KnownOps
  PROVE  KnownOps' \subseteq KnownOps
  <1>1. \A q \in Procs : q # p => InHand(q)' = InHand(q)
    BY OneMoves
  <1>. QED BY <1>1 DEF KnownOps

\* Where the archives stay, and nobody ceases to take one away, the files that are
\* needed are there.
LEMMA FilesStay ==
  ASSUME FileIsThere, NEW p \in Procs, Hands, NEW h, h \in Hand \cup {Missing}, Now(p, h),
         urlOps' \subseteq urlOps, UNCHANGED <<archives, clashed>>, parted \subseteq parted',
         ~Fetching(p)', Busy(p, "unlinked") => hand[p].op \notin urlOps' \/ hand[p].op.archive \in parted'
  PROVE  FileIsThere'
  <1>1. \A q \in Procs : q # p =>
          /\ hand'[q] = hand[q] /\ (Fetching(q)' <=> Fetching(q))
          /\ (Busy(q, "unlinked")' <=> Busy(q, "unlinked"))
    BY OneMoves
  <1>2. ASSUME NEW op \in urlOps'
        PROVE  Exists(op)' \/ op.archive \in clashed' \cup parted' \/ Taking(op)'
    <2>1. CASE Exists(op) \/ op.archive \in clashed \cup parted
      BY <2>1 DEF Exists
    <2>2. CASE Taking(op)
      BY <1>1, <2>2 DEF Taking
    <2>. QED BY <2>1, <2>2 DEF FileIsThere
  <1>. QED BY <1>1, <1>2 DEF FileIsThere

LEMMA TickKeeps ==
  ASSUME UrlInv, Tick
  PROVE  UrlInv'
  <1>1. UNCHANGED <<archives, urlOps, nextUrlOp, hand, serving, known, urlMods, asked, clashed, parted>>
        /\ second' \in Seconds
    BY UrlAssumption DEF Tick, UrlInv, UrlTypeOK, Seconds
  <1>2. KnownOps' = KnownOps /\ \A p \in Procs : Fetching(p)' <=> Fetching(p)
    BY <1>1 DEF KnownOps, InHand, Fetching, Applying, Busy
  <1>3. UrlTypeOK' /\ Hands' /\ ModsAsAsked' /\ Stopped'
    BY <1>1 DEF UrlInv, UrlTypeOK, Hands, ModsAsAsked, Stopped
  <1>4. Users' /\ FileIsThere'
    BY <1>1, <1>2 DEF UrlInv, Users, UsedWasAsked, OneUser, FileIsUsers, FileIsThere, Taking, Exists, Busy
  <1>. QED BY <1>3, <1>4 DEF UrlInv

LEMMA RequestKeeps ==
  ASSUME UrlInv, NEW p \in Procs, NEW u \in Urls, Request(p, u)
  PROVE  UrlInv'
  <1>. DEFINE n == ArchiveName(u)
              f == [url |-> u, by |-> p, state |-> "partial"]
              h == [at |-> "fetching", url |-> u, archive |-> n]
  <1>1. /\ UNCHANGED <<second, urlOps, nextUrlOp, serving, known, urlMods, parted>>
        /\ Ready(p) /\ archives' = [archives EXCEPT ![n] = f] /\ Now(p, h)
        /\ clashed' = (IF n \in asked THEN clashed \cup {n} ELSE clashed)
        /\ asked' = asked \cup {n}
    BY DEF Request, ArchiveName
  <1>2. n \in ArchiveNames
    BY UrlAssumption DEF UrlInv, UrlTypeOK, ArchiveName, ArchiveNames
  <1>3. f \in File /\ f # Missing /\ f.url = u
    BY UrlAssumption DEF File
  <1>4. h \in Hand /\ h # Missing /\ h.at = "fetching" /\ h.url = u /\ h.archive = n
    BY <1>2, UrlAssumption DEF Hand
  <1>. HIDE DEF n, f, h
  <1>5. /\ archives' \in [ArchiveNames -> File \cup {Missing}] /\ archives'[n] = f
        /\ \A m \in ArchiveNames : m # n => archives'[m] = archives[m]
    BY <1>1, <1>2, <1>3 DEF UrlInv, UrlTypeOK
  <1>6. /\ Hands' /\ hand'[p] = h
        /\ \A q \in Procs : q # p =>
              /\ hand'[q] = hand[q] /\ InHand(q)' = InHand(q)
              /\ Fetching(q)' <=> Fetching(q)
              /\ \A at : Busy(q, at)' <=> Busy(q, at)
    BY <1>1, <1>4, OneMoves DEF UrlInv
  <1>7. Fetching(p)' /\ InHand(p)' = {} /\ InHand(p) = {} /\ ~Busy(p, "unlinked")
    BY <1>1, <1>4, <1>6 DEF Fetching, InHand, Applying, Busy, Ready
  <1>8. KnownOps' = KnownOps
    BY <1>1, <1>6, <1>7 DEF KnownOps
  <1>9. UrlTypeOK' /\ Stopped' /\ ModsAsAsked'
    <2>1. UrlTypeOK'
      BY <1>1, <1>2, <1>5, <1>6 DEF UrlInv, UrlTypeOK, Hands
    <2>2. Stopped'
      BY <1>1, <1>6 DEF UrlInv, Stopped, Ready, Procs
    <2>3. ModsAsAsked'
      BY <1>1 DEF UrlInv, ModsAsAsked
    <2>. QED BY <2>1, <2>2, <2>3
  <1>10. UsedWasAsked'
    <2>1. \A op \in KnownOps' : op \in UrlOp /\ op.archive \in asked'
      BY <1>1, <1>8 DEF UrlInv, Users, UsedWasAsked
    <2>2. \A q \in Procs : Fetching(q)' => hand'[q].archive \in asked'
      BY <1>1, <1>4, <1>6 DEF UrlInv, Users, UsedWasAsked
    <2>3. \A m \in ArchiveNames : archives'[m] # Missing => m \in asked'
      BY <1>1, <1>5 DEF UrlInv, Users, UsedWasAsked
    <2>. QED BY <2>1, <2>2, <2>3 DEF UsedWasAsked
  \* Who used the name before has a clash now.
  <1>11. /\ \A op \in KnownOps : op.archive = n => n \in clashed'
         /\ \A q \in Procs : q # p /\ Fetching(q) /\ hand[q].archive = n => n \in clashed'
    BY <1>1 DEF UrlInv, Users, UsedWasAsked
  <1>12. clashed \subseteq clashed'
    BY <1>1
  <1>13. OneUser'
    <2>1. \A q, r \in Procs : Fetching(q)' /\ Fetching(r)' /\ hand'[q].archive = hand'[r].archive
            /\ hand'[q].archive \notin clashed' => q = r
      BY <1>4, <1>6, <1>11, <1>12 DEF UrlInv, Users, OneUser
    <2>2. \A q \in Procs : \A op \in KnownOps' :
            Fetching(q)' /\ hand'[q].archive \notin clashed' => op.archive # hand'[q].archive
      BY <1>4, <1>6, <1>8, <1>11, <1>12 DEF UrlInv, Users, OneUser
    <2>3. \A o, op \in KnownOps' : o.archive = op.archive /\ op.archive \notin clashed' => o = op
      BY <1>8, <1>12 DEF UrlInv, Users, OneUser
    <2>. QED BY <2>1, <2>2, <2>3 DEF OneUser
  <1>14. \A q \in Procs : Fetching(q) => hand[q].archive \in ArchiveNames
    BY HandParts DEF UrlInv, Fetching, Busy
  <1>15. \A op \in KnownOps : op.archive \in ArchiveNames
    BY DEF UrlInv, Users, UsedWasAsked, UrlOp
  <1>16. FileIsUsers'
    <2>1. \A q \in Procs : Fetching(q)' /\ hand'[q].archive \notin clashed'
            /\ archives'[hand'[q].archive] # Missing => archives'[hand'[q].archive].url = hand'[q].url
      BY <1>3, <1>4, <1>5, <1>6, <1>11, <1>12, <1>14 DEF UrlInv, Users, FileIsUsers
    <2>2. \A op \in KnownOps' : op.archive \notin clashed' /\ archives'[op.archive] # Missing
            => archives'[op.archive].url = op.url
      BY <1>5, <1>8, <1>11, <1>12, <1>15 DEF UrlInv, Users, FileIsUsers
    <2>. QED BY <2>1, <2>2 DEF FileIsUsers
  <1>17. FileIsThere'
    <2>1. \A m \in ArchiveNames : archives[m] # Missing => archives'[m] # Missing
      BY <1>3, <1>5
    <2>2. ASSUME NEW op \in urlOps'
          PROVE  Exists(op)' \/ op.archive \in clashed' \cup parted' \/ Taking(op)'
      <3>1. op \in urlOps /\ op.archive \in ArchiveNames
        BY <1>1, <1>15 DEF KnownOps
      <3>2. CASE Exists(op) \/ op.archive \in clashed \cup parted
        BY <1>1, <1>12, <2>1, <3>1, <3>2 DEF Exists
      <3>3. CASE Taking(op)
        BY <1>6, <1>7, <3>3 DEF Taking
      <3>. QED BY <3>1, <3>2, <3>3 DEF UrlInv, FileIsThere
    <2>3. \A q \in Procs : Fetching(q)' =>
            archives'[hand'[q].archive] # Missing \/ hand'[q].archive \in clashed' \cup parted'
      BY <1>1, <1>3, <1>4, <1>5, <1>6, <1>12, <1>14, <2>1 DEF UrlInv, FileIsThere
    <2>. QED BY <2>2, <2>3 DEF FileIsThere
  <1>. QED BY <1>6, <1>9, <1>10, <1>13, <1>16, <1>17 DEF UrlInv, Users

\* Steps of one process that request nothing and take no archive away.
LEMMA HandStepKeeps ==
  ASSUME UrlInv, NEW p \in Procs, NEW h, h \in Hand \cup {Missing}, Now(p, h),
         UNCHANGED <<second, nextUrlOp, serving, known, asked, clashed, archives>>,
         urlOps' \subseteq urlOps, parted \subseteq parted', parted' \subseteq ArchiveNames,
         InHand(p)' \subseteq KnownOps, ~Fetching(p)',
         hand[p] # Missing \/ p \notin Handlers \/ serving = "up",
         Busy(p, "unlinked") => hand[p].op \notin urlOps' \/ hand[p].op.archive \in parted'
  PROVE  /\ Hands' /\ Users' /\ FileIsThere' /\ Stopped'
         /\ UNCHANGED urlMods => UrlInv'
  <1>1. /\ Hands' /\ hand'[p] = h
        /\ \A q \in Procs : q # p =>
              /\ hand'[q] = hand[q] /\ InHand(q)' = InHand(q)
              /\ Fetching(q)' <=> Fetching(q)
              /\ \A at : Busy(q, at)' <=> Busy(q, at)
    BY OneMoves DEF UrlInv
  <1>2. urlOps' \subseteq KnownOps
    BY DEF KnownOps
  <1>3. KnownOps' \subseteq KnownOps
    BY <1>2, KnownShrinks DEF UrlInv
  <1>4. \A q \in Procs : Fetching(q) => hand[q].archive \in ArchiveNames
    BY HandParts DEF UrlInv, Fetching, Busy
  <1>5. Users'
    <2>1. \A q \in Procs : Fetching(q)' =>
           Fetching(q) /\ hand'[q].archive = hand[q].archive /\ hand'[q].url = hand[q].url
      BY <1>1
    <2>. QED BY <1>3, <1>4, <2>1, NothingNew DEF UrlInv
  <1>6. FileIsThere'
    BY FilesStay DEF UrlInv
  <1>7. Stopped'
    BY <1>1 DEF UrlInv, Stopped, Procs
  <1>8. UNCHANGED urlMods => UrlTypeOK' /\ ModsAsAsked'
    BY <1>1 DEF UrlInv, UrlTypeOK, Hands, ModsAsAsked
  <1>. QED BY <1>1, <1>5, <1>6, <1>7, <1>8 DEF UrlInv

LEMMA DrainKeeps ==
  ASSUME UrlInv, NEW p \in Procs,
         FetchFails(p) \/ ListOps(p) \/ InstallFails(p) \/ DeleteOp(p) \/ EndDrain(p) \/ KillCommand(p)
  PROVE  UrlInv'
  <1>1. \A at : hand[p] = Missing => ~Busy(p, at)
    BY DEF Busy
  <1>2. InHand(p) \subseteq KnownOps /\ urlOps \subseteq KnownOps /\ KnownOps \subseteq UrlOp
    BY DEF KnownOps, UrlInv, Users, UsedWasAsked
  <1>3. Hands /\ parted \subseteq ArchiveNames
    BY DEF UrlInv, UrlTypeOK
  <1>4. CASE FetchFails(p) \/ EndDrain(p)
    <2>1. Now(p, Missing) /\ hand[p] # Missing /\ ~Busy(p, "unlinked")
          /\ UNCHANGED <<second, archives, urlOps, nextUrlOp, serving, known, urlMods, asked, clashed, parted>>
      BY <1>4 DEF FetchFails, EndDrain, Busy
    <2>2. hand'[p] = Missing
      BY <1>3, <2>1, OneMoves
    <2>3. ~Fetching(p)' /\ InHand(p)' = {}
      BY <2>2 DEF Fetching, InHand, Applying, Busy
    <2>. QED BY <1>3, <2>1, <2>3, HandStepKeeps
  <1>5. CASE ListOps(p)
    <2>. DEFINE h == [at |-> "draining", todo |-> urlOps]
    <2>1. Ready(p) /\ Now(p, h)
          /\ UNCHANGED <<second, archives, urlOps, nextUrlOp, serving, known, urlMods, asked, clashed, parted>>
      BY <1>5 DEF ListOps
    <2>2. h \in Hand /\ h.at = "draining" /\ h.todo = urlOps
      BY DEF UrlInv, UrlTypeOK, Hand
    <2>. HIDE DEF h
    <2>3. hand'[p] = h
      BY <1>3, <2>1, <2>2, OneMoves
    <2>4. ~Fetching(p)' /\ InHand(p)' \subseteq urlOps
      BY <2>2, <2>3 DEF Fetching, InHand, Applying, Busy
    <2>. QED BY <1>1, <1>2, <1>3, <2>1, <2>2, <2>4, HandStepKeeps DEF Ready
  <1>6. CASE InstallFails(p)
    <2>1. Draining(p) /\ UNCHANGED <<second, archives, nextUrlOp, serving, known, urlMods, asked, clashed, parted>>
      BY <1>6 DEF InstallFails, Left
    <2>2. hand[p] \in [at : {"draining"}, todo : SUBSET UrlOp] /\ ~Busy(p, "unlinked") /\ hand[p] # Missing
      BY <1>3, <2>1, HandParts DEF Draining, Busy
    <2>. DEFINE h == [hand[p] EXCEPT !.todo = Rest(p)]
    <2>3. h \in Hand /\ h.at = "draining" /\ h.todo \subseteq hand[p].todo
      BY <2>2 DEF Rest, Hand
    <2>4. hand[p].todo \subseteq InHand(p)
      BY <2>1 DEF InHand, Draining
    <2>5. PICK g \in {h, Missing} : Now(p, g)
      BY <1>6 DEF InstallFails
    <2>6. urlOps' \subseteq urlOps
      BY <1>6 DEF InstallFails
    <2>. HIDE DEF h
    <2>7. g \in Hand \cup {Missing}
      BY <2>3
    <2>8. hand'[p] = g
      BY <1>3, <2>5, <2>7, OneMoves
    <2>9. ~Fetching(p)' /\ InHand(p)' \subseteq hand[p].todo
      BY <2>3, <2>8 DEF Fetching, InHand, Applying, Busy
    <2>10. InHand(p)' \subseteq KnownOps
      BY <1>2, <2>4, <2>9
    <2>. QED BY <1>3, <2>1, <2>2, <2>5, <2>6, <2>7, <2>9, <2>10, HandStepKeeps
  <1>7. CASE DeleteOp(p)
    <2>. DEFINE h == [at |-> "draining", todo |-> hand[p].todo]
    <2>1. Busy(p, "unlinked") /\ urlOps' = urlOps \ {hand[p].op} /\ Now(p, h)
          /\ UNCHANGED <<second, archives, nextUrlOp, serving, known, urlMods, asked, clashed, parted>>
      BY <1>7 DEF DeleteOp
    <2>2. hand[p] \in [at : {"installed", "unlinked"}, op : UrlOp, todo : SUBSET UrlOp] /\ hand[p] # Missing
      BY <1>3, <2>1, HandParts DEF Applying, Busy
    <2>3. h \in Hand /\ h.at = "draining" /\ h.todo = hand[p].todo
      BY <2>2 DEF Hand
    <2>. HIDE DEF h
    <2>4. hand'[p] = h
      BY <1>3, <2>1, <2>3, OneMoves
    <2>5. ~Fetching(p)' /\ InHand(p)' \subseteq InHand(p)
      BY <2>1, <2>3, <2>4 DEF Fetching, InHand, Applying, Busy
    <2>. QED BY <1>2, <1>3, <2>1, <2>2, <2>3, <2>5, HandStepKeeps
  <1>8. CASE KillCommand(p)
    <2>1. hand[p] # Missing /\ Now(p, Missing) /\ parted' = parted \cup Taken(p)
          /\ UNCHANGED <<second, archives, urlOps, nextUrlOp, serving, known, urlMods, asked, clashed>>
      BY <1>8 DEF KillCommand
    <2>2. hand'[p] = Missing
      BY <1>3, <2>1, OneMoves
    <2>3. ~Fetching(p)' /\ InHand(p)' = {}
      BY <2>2 DEF Fetching, InHand, Applying, Busy
    <2>4. Busy(p, "unlinked") => hand[p].op.archive \in parted'
      BY <2>1 DEF Taken
    <2>5. Busy(p, "unlinked") => hand[p].op \in UrlOp
      BY <1>2 DEF InHand, Applying
    <2>6. parted' \subseteq ArchiveNames
      BY <1>3, <2>1, <2>5 DEF Taken, UrlOp
    <2>. QED BY <1>3, <2>1, <2>3, <2>4, <2>6, HandStepKeeps
  <1>. QED BY <1>4, <1>5, <1>6, <1>7, <1>8

\* What was there stays whose it was.
LEMMA FetchedKeeps ==
  ASSUME UrlInv, NEW p \in Procs, Fetched(p)
  PROVE  UrlInv'
  <1>. DEFINE n == hand[p].archive
              h == [hand[p] EXCEPT !.at = "fetched"]
  <1>1. /\ UNCHANGED <<second, urlOps, nextUrlOp, serving, known, urlMods, asked, clashed, parted>>
        /\ Busy(p, "fetching") /\ Now(p, h)
    BY DEF Fetched
  <1>2. hand[p] \in [at : {"fetching", "fetched"}, url : Urls, archive : ArchiveNames] /\ hand[p] # Missing
    BY <1>1, HandParts DEF UrlInv, Fetching, Busy
  <1>3. h \in Hand /\ h # Missing /\ h.at = "fetched" /\ h.url = hand[p].url /\ h.archive = n
    BY <1>2, UrlAssumption DEF Hand
  <1>4. n \in ArchiveNames
    BY <1>2
  <1>5. /\ archives' \in [ArchiveNames -> File \cup {Missing}]
        /\ \A m \in ArchiveNames : /\ archives'[m] # Missing <=> archives[m] # Missing
                                   /\ archives'[m] # Missing => archives'[m].url = archives[m].url
    <2>1. CASE archives[n] = Missing
      BY <1>4, <2>1 DEF Fetched, UrlInv, UrlTypeOK
    <2>2. CASE archives[n] # Missing
      <3>1. PICK st \in {"whole", "garbled"} : archives' = [archives EXCEPT ![n].state = st]
        BY <2>2 DEF Fetched
      <3>. DEFINE f == [archives[n] EXCEPT !.state = st]
      <3>2. archives[n] \in File
        BY <1>4, <2>2 DEF UrlInv, UrlTypeOK
      <3>3. f \in File /\ f # Missing /\ f.url = archives[n].url
        BY <3>2, UrlAssumption DEF File
      <3>4. archives' = [archives EXCEPT ![n] = f]
        BY <3>1
      <3>. HIDE DEF f
      <3>. QED BY <1>4, <2>2, <3>3, <3>4 DEF UrlInv, UrlTypeOK
    <2>. QED BY <2>1, <2>2
  <1>. HIDE DEF h, n
  <1>6. /\ Hands' /\ hand'[p] = h
        /\ \A q \in Procs : q # p =>
              /\ hand'[q] = hand[q] /\ InHand(q)' = InHand(q)
              /\ Fetching(q)' <=> Fetching(q)
              /\ \A at : Busy(q, at)' <=> Busy(q, at)
    BY <1>1, <1>3, OneMoves DEF UrlInv
  <1>7. Fetching(p)' /\ Fetching(p) /\ InHand(p)' = {} /\ ~Busy(p, "unlinked")
    BY <1>1, <1>3, <1>6 DEF Fetching, InHand, Applying, Busy
  <1>8. KnownOps' \subseteq KnownOps
    BY <1>1, <1>3, <1>7, KnownShrinks DEF UrlInv, KnownOps
  <1>9. \A q \in Procs : Fetching(q)' =>
           Fetching(q) /\ hand'[q].archive = hand[q].archive /\ hand'[q].url = hand[q].url
    BY <1>3, <1>6, <1>7 DEF n
  <1>10. \A q \in Procs : Fetching(q) => hand[q].archive \in ArchiveNames
    BY HandParts DEF UrlInv, Fetching, Busy
  <1>11. Users'
    BY <1>1, <1>5, <1>8, <1>9, <1>10, NothingNew DEF UrlInv
  <1>12. FileIsThere'
    <2>1. ASSUME NEW op \in urlOps'
          PROVE  Exists(op)' \/ op.archive \in clashed' \cup parted' \/ Taking(op)'
      <3>1. op.archive \in ArchiveNames
        BY <1>1 DEF UrlInv, UrlTypeOK, UrlOp
      <3>2. CASE Exists(op) \/ op.archive \in clashed \cup parted
        BY <1>1, <1>5, <3>1, <3>2 DEF Exists
      <3>3. CASE Taking(op)
        BY <1>6, <1>7, <3>3 DEF Taking
      <3>. QED BY <1>1, <3>2, <3>3 DEF UrlInv, FileIsThere
    <2>. QED BY <1>1, <1>5, <1>9, <1>10, <2>1 DEF UrlInv, FileIsThere
  <1>13. UrlTypeOK' /\ ModsAsAsked' /\ Stopped'
    <2>1. UrlTypeOK'
      BY <1>1, <1>5, <1>6 DEF UrlInv, UrlTypeOK, Hands
    <2>2. Stopped'
      BY <1>1, <1>2, <1>6 DEF UrlInv, Stopped, Procs
    <2>. QED BY <1>1, <2>1, <2>2 DEF UrlInv, ModsAsAsked
  <1>. QED BY <1>6, <1>11, <1>12, <1>13 DEF UrlInv

\* The name passes from the process to the operation.
LEMMA RecordKeeps ==
  ASSUME UrlInv, NEW p \in Procs, RecordOp(p)
  PROVE  UrlInv'
  <1>. DEFINE op == [id |-> nextUrlOp, url |-> hand[p].url, archive |-> hand[p].archive]
  <1>1. /\ UNCHANGED <<second, archives, serving, known, urlMods, asked, clashed, parted>>
        /\ Busy(p, "fetched") /\ nextUrlOp <= MaxUrlOps /\ Now(p, Missing)
        /\ urlOps' = urlOps \cup {op} /\ nextUrlOp' = nextUrlOp + 1
    BY DEF RecordOp
  <1>2. hand[p] \in [at : {"fetching", "fetched"}, url : Urls, archive : ArchiveNames] /\ hand[p] # Missing
        /\ Fetching(p) /\ ~Busy(p, "unlinked")
    BY <1>1, HandParts DEF UrlInv, Fetching, Busy
  <1>3. nextUrlOp \in 1..MaxUrlOps /\ nextUrlOp' \in 1..(MaxUrlOps + 1)
    BY <1>1, UrlAssumption DEF UrlInv, UrlTypeOK
  <1>4. op \in UrlOp /\ op.url = hand[p].url /\ op.archive = hand[p].archive
    BY <1>2, <1>3 DEF UrlOp
  <1>. HIDE DEF op
  <1>5. /\ Hands' /\ hand'[p] = Missing
        /\ \A q \in Procs : q # p =>
              /\ hand'[q] = hand[q] /\ InHand(q)' = InHand(q)
              /\ Fetching(q)' <=> Fetching(q)
              /\ \A at : Busy(q, at)' <=> Busy(q, at)
    BY <1>1, OneMoves DEF UrlInv
  <1>6. ~Fetching(p)' /\ InHand(p)' = {}
    BY <1>5 DEF Fetching, InHand, Applying, Busy
  <1>7. KnownOps' \subseteq KnownOps \cup {op}
    BY <1>1, <1>5, <1>6 DEF KnownOps
  <1>8. UrlTypeOK' /\ ModsAsAsked' /\ Stopped'
    <2>1. UrlTypeOK'
      BY <1>1, <1>3, <1>4, <1>5 DEF UrlInv, UrlTypeOK, Hands
    <2>2. Stopped'
      BY <1>1, <1>2, <1>5 DEF UrlInv, Stopped, Procs
    <2>. QED BY <1>1, <2>1, <2>2 DEF UrlInv, ModsAsAsked
  <1>9. UsedWasAsked'
    BY <1>1, <1>2, <1>4, <1>5, <1>6, <1>7 DEF UrlInv, Users, UsedWasAsked
  <1>10. OneUser'
    <2>1. \A q, r \in Procs : Fetching(q)' /\ Fetching(r)' /\ hand'[q].archive = hand'[r].archive
            /\ hand'[q].archive \notin clashed' => q = r
      BY <1>1, <1>5, <1>6 DEF UrlInv, Users, OneUser
    <2>2. \A q \in Procs : \A o \in KnownOps' :
            Fetching(q)' /\ hand'[q].archive \notin clashed' => o.archive # hand'[q].archive
      BY <1>1, <1>2, <1>4, <1>5, <1>6, <1>7 DEF UrlInv, Users, OneUser
    <2>3. \A x, o \in KnownOps' : x.archive = o.archive /\ o.archive \notin clashed' => x = o
      BY <1>1, <1>2, <1>4, <1>7 DEF UrlInv, Users, OneUser
    <2>. QED BY <2>1, <2>2, <2>3 DEF OneUser
  <1>11. FileIsUsers'
    BY <1>1, <1>2, <1>4, <1>5, <1>6, <1>7 DEF UrlInv, Users, FileIsUsers
  <1>12. FileIsThere'
    <2>1. ASSUME NEW o \in urlOps'
          PROVE  Exists(o)' \/ o.archive \in clashed' \cup parted' \/ Taking(o)'
      <3>1. CASE o = op
        BY <1>1, <1>2, <1>4, <3>1 DEF UrlInv, FileIsThere, Exists
      <3>2. CASE o \in urlOps /\ (Exists(o) \/ o.archive \in clashed \cup parted)
        BY <1>1, <3>2 DEF Exists
      <3>3. CASE o \in urlOps /\ Taking(o)
        BY <1>2, <1>5, <3>3 DEF Taking
      <3>. QED BY <1>1, <3>1, <3>2, <3>3 DEF UrlInv, FileIsThere
    <2>. QED BY <1>1, <1>5, <1>6, <2>1 DEF UrlInv, FileIsThere
  <1>. QED BY <1>5, <1>8, <1>9, <1>10, <1>11, <1>12 DEF UrlInv, Users

\* What is installed is what was asked for: the file is the operation's.
LEMMA InstallKeeps ==
  ASSUME UrlInv, NEW p \in Procs, InstallArchive(p)
  PROVE  UrlInv'
  <1>. DEFINE op == Oldest(hand[p].todo)
              h == [at |-> "installed", op |-> op, todo |-> Rest(p)]
              i0 == [asked |-> op.url, got |-> archives[op.archive].url, archive |-> op.archive]
  <1>1. /\ Draining(p) /\ Installable(op) /\ Now(p, h) /\ urlMods' = urlMods \cup {i0}
        /\ UNCHANGED <<second, archives, urlOps, nextUrlOp, serving, known, asked, clashed, parted>>
    BY DEF InstallArchive
  <1>2. hand[p] \in [at : {"draining"}, todo : SUBSET UrlOp] /\ hand[p] # Missing
        /\ ~Busy(p, "unlinked") /\ hand[p].todo \subseteq InHand(p)
    BY <1>1, HandParts DEF UrlInv, Draining, Busy, InHand
  <1>3. op \in hand[p].todo
    BY <1>1, <1>2, OldestIn DEF Draining
  <1>4. op \in UrlOp /\ op \in KnownOps /\ InHand(p) \subseteq KnownOps
    BY <1>2, <1>3 DEF KnownOps
  <1>. HIDE DEF op
  <1>5. h \in Hand /\ h # Missing /\ h.at = "installed" /\ h.op = op /\ h.todo \subseteq hand[p].todo
    BY <1>2, <1>4, UrlAssumption DEF Hand, Rest
  <1>6. archives[op.archive] # Missing /\ \A i \in urlMods : i.got # archives[op.archive].url
    BY <1>1 DEF Installable, Exists
  <1>7. archives[op.archive] \in File
    BY <1>4, <1>6 DEF UrlInv, UrlTypeOK, UrlOp
  <1>8. op.archive \notin clashed => archives[op.archive].url = op.url
    BY <1>4, <1>6 DEF UrlInv, Users, FileIsUsers
  <1>9. /\ i0 \in [asked : Urls, got : Urls, archive : ArchiveNames]
        /\ i0.asked = op.url /\ i0.got = archives[op.archive].url /\ i0.archive = op.archive
    BY <1>4, <1>7 DEF UrlOp, File
  <1>. HIDE DEF h, i0
  <1>10. hand'[p] = h
    BY <1>1, <1>5, OneMoves DEF UrlInv
  <1>11. ~Fetching(p)' /\ InHand(p)' \subseteq KnownOps
    BY <1>2, <1>3, <1>4, <1>5, <1>10 DEF Fetching, InHand, Applying, Busy
  <1>12. Hands' /\ Users' /\ FileIsThere' /\ Stopped'
    BY <1>1, <1>2, <1>5, <1>11, HandStepKeeps DEF UrlInv, UrlTypeOK
  <1>13. ModsAsAsked'
    BY <1>1, <1>6, <1>8, <1>9 DEF UrlInv, ModsAsAsked
  <1>14. UrlTypeOK'
    BY <1>1, <1>9, <1>12 DEF UrlInv, UrlTypeOK, Hands
  <1>. QED BY <1>12, <1>13, <1>14 DEF UrlInv

\* A file that goes is that of one operation, which is going too.
LEMMA UnlinkKeeps ==
  ASSUME UrlInv, NEW p \in Procs, Unlink(p) \/ Cancel(p)
  PROVE  UrlInv'
  <1>1. \E op \in KnownOps, h \in Hand :
          /\ Now(p, h) /\ h # Missing /\ h.at = "unlinked" /\ h.op = op
          /\ h.todo \subseteq InHand(p)
          /\ ~Busy(p, "unlinked") /\ ~Fetching(p) /\ archives' = Cleaned(op)
          /\ hand[p] # Missing \/ p \notin Handlers \/ serving = "up"
    <2>1. CASE Unlink(p)
      <3>. DEFINE h == [hand[p] EXCEPT !.at = "unlinked"]
      <3>1. hand[p] \in [at : {"installed", "unlinked"}, op : UrlOp, todo : SUBSET UrlOp]
            /\ Busy(p, "installed") /\ hand[p] # Missing
        BY <2>1, HandParts DEF UrlInv, Unlink, Applying, Busy
      <3>2. h \in Hand /\ h # Missing /\ h.at = "unlinked" /\ h.op = hand[p].op /\ h.todo = hand[p].todo
        BY <3>1, UrlAssumption DEF Hand
      <3>3. ~Busy(p, "unlinked") /\ ~Fetching(p) /\ hand[p].op \in InHand(p) /\ hand[p].todo \subseteq InHand(p)
        BY <3>1 DEF Busy, Fetching, InHand, Applying
      <3>4. hand[p].op \in KnownOps
        BY <3>3 DEF KnownOps
      <3>5. Now(p, h) /\ archives' = Cleaned(hand[p].op)
        BY <2>1 DEF Unlink
      <3>. HIDE DEF h
      <3>. QED BY <3>1, <3>2, <3>3, <3>4, <3>5
    <2>2. CASE Cancel(p)
      <3>1. PICK op \in urlOps : archives' = Cleaned(op)
                                 /\ Now(p, [at |-> "unlinked", op |-> op, todo |-> {}])
        BY <2>2 DEF Cancel
      <3>. DEFINE h == [at |-> "unlinked", op |-> op, todo |-> {}]
      <3>2. op \in UrlOp /\ op \in KnownOps
        BY DEF UrlInv, UrlTypeOK, KnownOps
      <3>3. h \in Hand /\ h # Missing /\ h.at = "unlinked" /\ h.op = op /\ h.todo = {}
        BY <3>2, UrlAssumption DEF Hand
      <3>4. hand[p] = Missing /\ serving = "up"
        BY <2>2 DEF Cancel, Ready
      <3>5. ~Busy(p, "unlinked") /\ ~Fetching(p)
        BY <3>4 DEF Busy, Fetching
      <3>. HIDE DEF h
      <3>6. Now(p, h)
        BY <3>1 DEF h
      <3>. QED BY <3>1, <3>2, <3>3, <3>4, <3>5, <3>6
    <2>. QED BY <2>1, <2>2
  <1>2. PICK op \in KnownOps, h \in Hand :
          /\ Now(p, h) /\ h # Missing /\ h.at = "unlinked" /\ h.op = op
          /\ h.todo \subseteq InHand(p)
          /\ ~Busy(p, "unlinked") /\ ~Fetching(p) /\ archives' = Cleaned(op)
          /\ hand[p] # Missing \/ p \notin Handlers \/ serving = "up"
    BY <1>1
  <1>3. UNCHANGED <<second, urlOps, nextUrlOp, serving, known, urlMods, asked, clashed, parted>>
    BY DEF Unlink, Cancel
  <1>4. op \in UrlOp /\ op.archive \in ArchiveNames /\ InHand(p) \subseteq KnownOps
    BY DEF UrlInv, Users, UsedWasAsked, UrlOp, KnownOps
  <1>5. /\ archives' \in [ArchiveNames -> File \cup {Missing}]
        /\ \A m \in ArchiveNames : archives'[m] # Missing => archives'[m] = archives[m]
        /\ \A m \in ArchiveNames : m # op.archive => archives'[m] = archives[m]
    BY <1>2, <1>4 DEF Cleaned, UrlInv, UrlTypeOK
  <1>6. /\ Hands' /\ hand'[p] = h
        /\ \A q \in Procs : q # p =>
              /\ hand'[q] = hand[q] /\ InHand(q)' = InHand(q)
              /\ Fetching(q)' <=> Fetching(q)
              /\ \A at : Busy(q, at)' <=> Busy(q, at)
    BY <1>2, OneMoves DEF UrlInv
  <1>7. ~Fetching(p)' /\ InHand(p)' \subseteq KnownOps /\ Busy(p, "unlinked")'
    BY <1>2, <1>4, <1>6 DEF Fetching, InHand, Applying, Busy
  <1>8. KnownOps' \subseteq KnownOps
    BY <1>2, <1>3, <1>7, KnownShrinks DEF UrlInv, KnownOps
  <1>9. \A q \in Procs : Fetching(q) => hand[q].archive \in ArchiveNames
    BY HandParts DEF UrlInv, Fetching, Busy
  <1>10. Users'
    <2>1. \A q \in Procs : Fetching(q)' =>
           Fetching(q) /\ hand'[q].archive = hand[q].archive /\ hand'[q].url = hand[q].url
      BY <1>6, <1>7
    <2>2. \A m \in ArchiveNames : archives'[m] # Missing =>
           archives[m] # Missing /\ archives'[m].url = archives[m].url
      BY <1>5
    <2>. QED BY <1>3, <1>8, <1>9, <2>1, <2>2, NothingNew DEF UrlInv
  <1>11. FileIsThere'
    <2>1. ASSUME NEW o \in urlOps'
          PROVE  Exists(o)' \/ o.archive \in clashed' \cup parted' \/ Taking(o)'
      <3>1. o \in urlOps /\ o \in KnownOps /\ o.archive \in ArchiveNames
        BY <1>3 DEF UrlInv, UrlTypeOK, UrlOp, KnownOps
      <3>2. CASE o.archive \in clashed \cup parted
        BY <1>3, <3>2
      <3>3. CASE o.archive \notin clashed /\ o.archive = op.archive
        <4>1. o = op
          BY <3>1, <3>3 DEF UrlInv, Users, OneUser
        <4>. QED BY <1>2, <1>6, <1>7, <4>1 DEF Taking
      <3>4. CASE o.archive # op.archive /\ Exists(o)
        BY <1>5, <3>1, <3>4 DEF Exists
      <3>5. CASE Taking(o)
        BY <1>2, <1>6, <3>5 DEF Taking
      <3>. QED BY <3>1, <3>2, <3>3, <3>4, <3>5 DEF UrlInv, FileIsThere
    <2>2. ASSUME NEW q \in Procs, Fetching(q)'
          PROVE  archives'[hand'[q].archive] # Missing \/ hand'[q].archive \in clashed' \cup parted'
      <3>1. Fetching(q) /\ hand'[q] = hand[q] /\ hand[q].archive \in ArchiveNames
        BY <1>6, <1>7, <1>9, <2>2
      <3>2. hand[q].archive \notin clashed => op.archive # hand[q].archive
        BY <3>1 DEF UrlInv, Users, OneUser
      <3>. QED BY <1>3, <1>5, <3>1, <3>2 DEF UrlInv, FileIsThere
    <2>. QED BY <2>1, <2>2 DEF FileIsThere
  <1>12. UrlTypeOK' /\ ModsAsAsked' /\ Stopped'
    <2>1. UrlTypeOK'
      BY <1>3, <1>5, <1>6 DEF UrlInv, UrlTypeOK, Hands
    <2>2. Stopped'
      BY <1>2, <1>3, <1>6 DEF UrlInv, Stopped, Procs
    <2>. QED BY <1>3, <2>1, <2>2 DEF UrlInv, ModsAsAsked
  <1>. QED BY <1>6, <1>10, <1>11, <1>12 DEF UrlInv

\* The dashboard goes, and with it what its handlers had at hand.
LEMMA StopKeeps ==
  ASSUME UrlInv, StopDashboard
  PROVE  UrlInv'
  <1>1. /\ UNCHANGED <<second, archives, urlOps, nextUrlOp, urlMods, asked, clashed>>
        /\ serving' = "down" /\ known' = {}
        /\ parted' = parted \cup UNION {Taken(p) : p \in Handlers}
        /\ hand' = [p \in Procs |-> IF p \in Handlers THEN Missing ELSE hand[p]]
    BY DEF StopDashboard
  <1>2. /\ Hands' /\ Stopped'
        /\ \A p \in Handlers : hand'[p] = Missing
        /\ \A p \in Procs \ Handlers : hand'[p] = hand[p]
    BY <1>1 DEF UrlInv, Hands, Stopped, Procs
  <1>3. \A p \in Procs : (Fetching(p)' => Fetching(p) /\ p \notin Handlers /\ hand'[p] = hand[p])
                         /\ InHand(p)' \subseteq InHand(p)
    BY <1>2 DEF Fetching, InHand, Applying, Busy
  <1>4. KnownOps' \subseteq KnownOps
    BY <1>1, <1>3 DEF KnownOps
  <1>5. \A p \in Procs : Fetching(p) => hand[p].archive \in ArchiveNames
    BY HandParts DEF UrlInv, Fetching, Busy
  <1>6. Users'
    BY <1>1, <1>3, <1>4, <1>5, NothingNew DEF UrlInv
  <1>7. \A p \in Handlers : Busy(p, "unlinked") => hand[p].op \in UrlOp /\ hand[p].op.archive \in parted'
    <2>1. ASSUME NEW p \in Handlers, Busy(p, "unlinked")
          PROVE  hand[p].op \in UrlOp /\ hand[p].op.archive \in parted'
      <3>1. hand[p].op \in UrlOp
        BY <2>1, HandParts DEF UrlInv, Applying, Busy, Procs
      <3>2. Taken(p) = {hand[p].op.archive}
        BY <2>1 DEF Taken
      <3>. QED BY <1>1, <3>1, <3>2
    <2>. QED BY <2>1
  <1>8. parted' \subseteq ArchiveNames
    <2>1. \A p \in Handlers : Taken(p) \subseteq ArchiveNames
      BY <1>7 DEF Taken, UrlOp
    <2>. QED BY <1>1, <2>1 DEF UrlInv, UrlTypeOK
  <1>9. FileIsThere'
    <2>1. ASSUME NEW op \in urlOps'
          PROVE  Exists(op)' \/ op.archive \in clashed' \cup parted' \/ Taking(op)'
      <3>1. CASE Exists(op) \/ op.archive \in clashed \cup parted
        BY <1>1, <3>1 DEF Exists
      <3>2. CASE \E p \in Handlers : Busy(p, "unlinked") /\ hand[p].op = op
        BY <1>7, <3>2
      <3>3. CASE \E p \in Procs \ Handlers : Busy(p, "unlinked") /\ hand[p].op = op
        BY <1>2, <3>3 DEF Taking, Busy
      <3>. QED BY <1>1, <3>1, <3>2, <3>3 DEF UrlInv, FileIsThere, Taking
    <2>2. parted \subseteq parted'
      BY <1>1
    <2>. QED BY <1>1, <1>3, <2>1, <2>2 DEF UrlInv, FileIsThere
  <1>10. UrlTypeOK' /\ ModsAsAsked'
    BY <1>1, <1>2, <1>8 DEF UrlInv, UrlTypeOK, Hands, ModsAsAsked
  <1>. QED BY <1>2, <1>6, <1>9, <1>10 DEF UrlInv

\* The start of the dashboard takes away what no operation named when it looked.
LEMMA SweepKeeps ==
  ASSUME UrlInv, StartSweep \/ Sweep
  PROVE  UrlInv'
  <1>1. /\ UNCHANGED <<second, urlOps, nextUrlOp, hand, urlMods, asked, clashed>>
        /\ parted \subseteq parted'
    BY DEF StartSweep, Sweep
  <1>2. KnownOps' = KnownOps /\ \A p \in Procs : Fetching(p)' <=> Fetching(p)
    BY <1>1 DEF KnownOps, InHand, Fetching, Applying, Busy
  <1>3. \A p \in Procs : Fetching(p) => hand[p].archive \in ArchiveNames
    BY HandParts DEF UrlInv, Fetching, Busy
  <1>4. \A op \in urlOps : op.archive \in ArchiveNames /\ op.archive \in Referenced
    BY DEF UrlInv, UrlTypeOK, UrlOp, Referenced
  <1>5. \A p \in Procs : Fetching(p) /\ serving # "up" => p \in Commands
    BY DEF UrlInv, Stopped, Fetching, Busy, Procs
  <1>6. /\ \A n \in ArchiveNames : archives'[n] # Missing => archives'[n] = archives[n]
        /\ archives' \in [ArchiveNames -> File \cup {Missing}]
        /\ \A op \in urlOps : archives'[op.archive] = archives[op.archive] \/ op.archive \in parted'
        /\ \A p \in Procs : Fetching(p) =>
             archives'[hand[p].archive] = archives[hand[p].archive] \/ hand[p].archive \in parted'
        /\ parted' \subseteq ArchiveNames /\ known' \subseteq ArchiveNames
        /\ serving' \in {"up", "down", "sweeping"} /\ (serving' # "up" => serving # "up")
    <2>1. CASE StartSweep
      BY <1>4, <2>1 DEF StartSweep, Referenced, UrlInv, UrlTypeOK
    <2>2. CASE Sweep
      <3>1. /\ serving = "sweeping" /\ serving' = "up" /\ known' = {}
            /\ archives' = [n \in ArchiveNames |-> IF n \in known THEN archives[n] ELSE Missing]
            /\ parted' = parted \cup (Referenced \ known)
                 \cup {hand[p].archive : p \in {q \in Commands : Busy(q, "fetching") \/ Busy(q, "fetched")}}
        BY <2>2 DEF Sweep
      <3>2. archives' \in [ArchiveNames -> File \cup {Missing}]
            /\ \A n \in ArchiveNames : archives'[n] # Missing => archives'[n] = archives[n]
        BY <3>1 DEF UrlInv, UrlTypeOK
      <3>3. \A op \in urlOps : archives'[op.archive] = archives[op.archive] \/ op.archive \in parted'
        BY <1>4, <3>1
      <3>4. \A p \in Procs : Fetching(p) => hand[p].archive \in parted'
        BY <1>5, <3>1 DEF Fetching
      <3>5. parted' \subseteq ArchiveNames
        <4>1. \A q \in Commands : Busy(q, "fetching") \/ Busy(q, "fetched") => hand[q].archive \in ArchiveNames
          BY <1>3 DEF Fetching, Procs
        <4>2. Referenced \subseteq ArchiveNames
          BY <1>4 DEF Referenced
        <4>. QED BY <3>1, <4>1, <4>2 DEF UrlInv, UrlTypeOK
      <3>. QED BY <3>1, <3>2, <3>3, <3>4, <3>5
    <2>. QED BY <2>1, <2>2
  <1>7. Users'
    BY <1>1, <1>2, <1>3, <1>6, NothingNew DEF UrlInv
  <1>8. FileIsThere'
    <2>1. ASSUME NEW op \in urlOps'
          PROVE  Exists(op)' \/ op.archive \in clashed' \cup parted' \/ Taking(op)'
      <3>1. CASE Exists(op) \/ op.archive \in clashed \cup parted
        BY <1>1, <1>6, <3>1 DEF Exists
      <3>2. CASE Taking(op)
        BY <1>1, <3>2 DEF Taking, Busy
      <3>. QED BY <1>1, <3>1, <3>2 DEF UrlInv, FileIsThere
    <2>. QED BY <1>1, <1>2, <1>6, <2>1 DEF UrlInv, FileIsThere
  <1>9. UrlTypeOK' /\ Hands' /\ ModsAsAsked' /\ Stopped'
    BY <1>1, <1>6 DEF UrlInv, UrlTypeOK, Hands, ModsAsAsked, Stopped
  <1>. QED BY <1>7, <1>8, <1>9 DEF UrlInv

LEMMA UrlNextInv == UrlInv /\ [UrlNext]_urlVars => UrlInv'
  <1>. SUFFICES ASSUME UrlInv, [UrlNext]_urlVars PROVE UrlInv'
    OBVIOUS
  <1>1. CASE UNCHANGED urlVars
    <2>1. UNCHANGED <<second, archives, urlOps, nextUrlOp, hand, serving, known, urlMods, asked, clashed, parted>>
      BY <1>1 DEF urlVars
    <2>2. UrlTypeOK' /\ Hands' /\ ModsAsAsked' /\ Stopped'
      BY <2>1 DEF UrlInv, UrlTypeOK, Hands, ModsAsAsked, Stopped
    <2>3. KnownOps' = KnownOps /\ \A p \in Procs : Fetching(p)' <=> Fetching(p)
      BY <2>1 DEF KnownOps, InHand, Fetching, Applying, Busy
    <2>4. Users' /\ FileIsThere'
      BY <2>1, <2>3 DEF UrlInv, Users, UsedWasAsked, OneUser, FileIsUsers, FileIsThere, Taking, Exists, Busy
    <2>. QED BY <2>2, <2>4 DEF UrlInv
  <1>2. CASE UrlNext
    <2>1. CASE Tick \/ StopDashboard \/ StartSweep \/ Sweep
      BY <2>1, TickKeeps, StopKeeps, SweepKeeps
    <2>2. ASSUME NEW p \in Procs,
                 \/ \E u \in Urls : Request(p, u)
                 \/ Fetched(p) \/ FetchFails(p) \/ RecordOp(p)
                 \/ ListOps(p) \/ InstallArchive(p) \/ InstallFails(p) \/ Unlink(p) \/ DeleteOp(p)
                 \/ EndDrain(p)
                 \/ Cancel(p) \/ KillCommand(p)
          PROVE  UrlInv'
      BY <2>2, RequestKeeps, FetchedKeeps, RecordKeeps, InstallKeeps, UnlinkKeeps, DrainKeeps
    <2>. QED BY <1>2, <2>1, <2>2 DEF UrlNext
  <1>. QED BY <1>1, <1>2

\* A queued operation finds its archive, however drains, cancellations, sweeps and kills
\* met; what is installed is what was asked for, and no archive is installed twice.
THEOREM QueuedArchivesServe == UrlSpec => []ArchivesServe
  BY UrlInvServes, UrlInitInv, UrlNextInv, PTL DEF UrlSpec

------------------------------------------------------------------------------
(* Sync groups on disk                                                     *)

\* Layouts, and those whose rows say where the files are.
LayoutTyped(L) ==
  /\ L.slot \in [Parts -> Slot \cup {Nowhere}] /\ L.file \in [Parts -> Spot \cup {Nowhere}]
  /\ L.mislaid \subseteq Parts
Follows(L) ==
  \A i \in Parts : L.slot[i] # Nowhere /\ i \notin L.mislaid =>
    L.file[i] = [place |-> L.slot[i].place, stashed |-> L.slot[i].disabled]

\* An addon has its mod, and where the two have folders of their own it never moves.
WithMods(s) ==
  \A i \in Extras : s[i] # Nowhere =>
    /\ s[ParentMod[i]] # Nowhere
    /\ folderOf[i] # folderOf[ParentMod[i]] => s[i].place = Ungrouped

Sound(L) == LayoutTyped(L) /\ Follows(L) /\ WithMods(L.slot)

LEMMA NowhereIsApart ==
  /\ \A x \in Slot : x # Nowhere
  /\ \A x \in Spot : x # Nowhere
  /\ \A x \in [Plugins -> Places] : x # Nowhere
  BY LayoutAssumption

LEMMA ParentIsMod == \A i \in Extras : i \in Parts /\ i \notin Plugins /\ ParentMod[i] \in Plugins
                                       /\ ParentMod[i] \in Parts /\ ModOf(i) = ParentMod[i]
  BY LayoutAssumption DEF Parts, ModOf

\* What a move does, row by row and file by file.
MovedTo(L, m, g, N) ==
  /\ LayoutTyped(N) /\ L.slot[m] # Nowhere
  /\ N.mislaid = L.mislaid \cup Parted(L, m)
  /\ \A i \in Parts :
       /\ N.slot[i] # Nowhere <=> L.slot[i] # Nowhere
       /\ L.slot[i] # Nowhere =>
            /\ N.slot[i].disabled = L.slot[i].disabled
            /\ N.slot[i].place = IF i \in Reprefixed(L, m) THEN g ELSE L.slot[i].place
       /\ N.file[i] = IF i \in Inside(L, m) THEN [place |-> g, stashed |-> FALSE] ELSE L.file[i]

LEMMA LaidMoves ==
  ASSUME NEW L, LayoutTyped(L), NEW group \in [Plugins -> Places], NEW m \in Plugins, Moves(L, group, m)
  PROVE  MovedTo(L, m, group[m], Laid(L, group, m))
  <1>. DEFINE N == Laid(L, group, m)
              rows == Reprefixed(L, m)
              moved == Inside(L, m)
              g == group[m]
              s == [i \in Parts |-> IF i \in rows THEN [L.slot[i] EXCEPT !.place = g] ELSE L.slot[i]]
              f == [i \in Parts |-> IF i \in moved THEN [place |-> g, stashed |-> FALSE] ELSE L.file[i]]
  <1>1. g \in Places
    OBVIOUS
  <1>2. N.slot = s /\ N.file = f /\ N.mislaid = L.mislaid \cup Parted(L, m)
    BY DEF Laid, MoveFiles
  <1>3. \A i \in rows : i \in Parts /\ L.slot[i] \in Slot
    BY DEF Reprefixed, RowsIn, Present, LayoutTyped
  <1>4. Parted(L, m) \subseteq Parts /\ L.slot[m] # Nowhere
    BY DEF Parted, RowsIn, Inside, Present, Moves
  <1>. HIDE DEF rows, moved, g, N
  <1>5. \A i \in rows : s[i] \in Slot /\ s[i].place = g /\ s[i].disabled = L.slot[i].disabled
    BY <1>1, <1>3 DEF Slot
  <1>6. \A i \in Parts : i \notin rows => s[i] = L.slot[i]
    OBVIOUS
  <1>7. \A i \in Parts : f[i] = IF i \in moved THEN [place |-> g, stashed |-> FALSE] ELSE L.file[i]
    OBVIOUS
  <1>8. [place |-> g, stashed |-> FALSE] \in Spot
    BY <1>1 DEF Spot
  <1>9. s \in [Parts -> Slot \cup {Nowhere}]
    <2>1. \A i \in Parts : L.slot[i] \in Slot \cup {Nowhere}
      BY DEF LayoutTyped
    <2>2. \A i \in Parts : s[i] \in Slot \cup {Nowhere}
      BY <1>5, <1>6, <2>1
    <2>. QED BY <2>2
  <1>10. f \in [Parts -> Spot \cup {Nowhere}]
    <2>1. \A i \in Parts : L.file[i] \in Spot \cup {Nowhere}
      BY DEF LayoutTyped
    <2>. QED BY <1>8, <2>1
  <1>. HIDE DEF s, f
  <1>11. LayoutTyped(N)
    BY <1>2, <1>4, <1>9, <1>10 DEF LayoutTyped
  <1>12. \A i \in Parts : N.slot[i] # Nowhere <=> L.slot[i] # Nowhere
    BY <1>2, <1>3, <1>5, <1>6, NowhereIsApart
  <1>13. \A i \in Parts : L.slot[i] # Nowhere =>
           /\ N.slot[i].disabled = L.slot[i].disabled
           /\ N.slot[i].place = IF i \in rows THEN g ELSE L.slot[i].place
    BY <1>2, <1>5, <1>6
  <1>. QED BY <1>2, <1>4, <1>7, <1>11, <1>12, <1>13 DEF rows, moved, g, N, MovedTo

\* A folder that moves takes its rows along, or they are known to be parted from it.
LEMMA LaidKeeps ==
  ASSUME NEW L, Sound(L), NEW group \in [Plugins -> Places], NEW m \in Plugins
  PROVE  Sound(Laid(L, group, m))
  <1>1. CASE ~Moves(L, group, m)
    BY <1>1 DEF Laid
  <1>2. CASE Moves(L, group, m)
    <2>. DEFINE N == Laid(L, group, m)
    <2>1. MovedTo(L, m, group[m], N)
      BY <1>2, LaidMoves DEF Sound
    <2>. HIDE DEF N
    <2>2. ASSUME NEW i \in Parts, N.slot[i] # Nowhere, i \notin N.mislaid
          PROVE  N.file[i] = [place |-> N.slot[i].place, stashed |-> N.slot[i].disabled]
      <3>1. L.slot[i] # Nowhere /\ i \notin L.mislaid /\ i \notin Parted(L, m)
        BY <2>1, <2>2 DEF MovedTo
      <3>2. L.file[i] = [place |-> L.slot[i].place, stashed |-> L.slot[i].disabled]
        BY <3>1 DEF Sound, Follows
      <3>3. CASE i \in Reprefixed(L, m)
        <4>1. i \in RowsIn(L, m) /\ L.slot[i].disabled = FALSE
          BY <3>1, <3>3 DEF Reprefixed, Parted, Sound, LayoutTyped, Slot
        <4>2. L.file[i] = [place |-> L.slot[m].place, stashed |-> FALSE] /\ folderOf[i] = folderOf[m]
          BY <3>2, <4>1 DEF RowsIn
        <4>3. L.file[i] # Nowhere
          <5>1. L.slot[m] \in Slot
            BY <2>1 DEF Sound, LayoutTyped, Parts, MovedTo
          <5>2. [place |-> L.slot[m].place, stashed |-> FALSE] \in Spot
            BY <5>1 DEF Slot, Spot
          <5>. QED BY <4>2, <5>2, NowhereIsApart
        <4>4. i \in Inside(L, m)
          BY <4>2, <4>3 DEF Inside, Present
        <4>. QED BY <2>1, <3>1, <3>3, <4>1, <4>4 DEF MovedTo
      <3>4. CASE i \notin Reprefixed(L, m)
        <4>1. i \notin Inside(L, m)
          BY <3>1, <3>4 DEF Parted, Reprefixed
        <4>. QED BY <2>1, <3>1, <3>2, <3>4, <4>1 DEF MovedTo
      <3>. QED BY <3>3, <3>4
    <2>3. WithMods(N.slot)
      <3>1. ASSUME NEW i \in Extras, N.slot[i] # Nowhere
            PROVE  /\ N.slot[ParentMod[i]] # Nowhere
                   /\ folderOf[i] # folderOf[ParentMod[i]] => N.slot[i].place = Ungrouped
        <4>1. i \in Parts /\ ParentMod[i] \in Plugins /\ ParentMod[i] \in Parts /\ i \notin Plugins
          BY ParentIsMod
        <4>2. L.slot[i] # Nowhere
          BY <2>1, <3>1, <4>1 DEF MovedTo
        <4>3. N.slot[ParentMod[i]] # Nowhere
          BY <2>1, <4>1, <4>2 DEF Sound, WithMods, MovedTo
        <4>4. i \in Reprefixed(L, m) => folderOf[i] = folderOf[ParentMod[i]]
          BY <4>1 DEF Reprefixed, RowsIn, Sharers, ModOf
        <4>. QED BY <2>1, <4>1, <4>2, <4>3, <4>4 DEF Sound, WithMods, MovedTo
      <3>. QED BY <3>1 DEF WithMods
    <2>. QED BY <2>1, <2>2, <2>3 DEF Sound, Follows, N, MovedTo
  <1>. QED BY <1>1, <1>2

\* The layouts after each of the mods: the recursion of AllLaid has a solution.
Layouts(L, group, k, f) ==
  f = [n \in 0..k |-> IF n = 0 THEN L ELSE Laid(f[n - 1], group, ModOrder[n])]

LaidInTurn(L, group, k, f) ==
  f[0] = L /\ \A n \in 1..k : n - 1 \in 0..k /\ f[n] = Laid(f[n - 1], group, ModOrder[n])

LEMMA LayoutsExist ==
  ASSUME NEW L, NEW group, NEW k \in Nat
  PROVE  \E f : Layouts(L, group, k, f)
  <1>. DEFINE Bad == {n \in Nat : ~(\E f : Layouts(L, group, n, f))}
  <1>1. ASSUME Bad # {} PROVE FALSE
    <2>1. PICK n \in Bad : \A m \in Bad : n <= m
      BY <1>1, LeastNat
    <2>2. n # 0
      <3>. DEFINE f == [m \in 0..0 |-> L]
      <3>1. \A m \in 0..0 : m = 0
        OBVIOUS
      <3>2. f = [m \in 0..0 |-> IF m = 0 THEN L ELSE Laid(f[m - 1], group, ModOrder[m])]
        BY <3>1
      <3>3. Layouts(L, group, 0, f)
        BY <3>2 DEF Layouts
      <3>. QED BY <3>3
    <2>3. n \in Nat /\ n - 1 \in Nat
      BY <2>2
    <2>4. n - 1 \notin Bad
      BY <2>1, <2>3
    <2>5. PICK g : Layouts(L, group, n - 1, g)
      BY <2>3, <2>4
    <2>. DEFINE f == [m \in 0..n |-> IF m = 0 THEN L ELSE Laid(g[m - 1], group, ModOrder[m])]
    <2>6. \A m \in 0..(n - 1) : f[m] = g[m]
      <3>1. g = [m \in 0..(n - 1) |-> IF m = 0 THEN L ELSE Laid(g[m - 1], group, ModOrder[m])]
        BY <2>5 DEF Layouts
      <3>2. \A m \in 0..(n - 1) : g[m] = IF m = 0 THEN L ELSE Laid(g[m - 1], group, ModOrder[m])
        BY <3>1, Zenon
      <3>3. \A m \in 0..(n - 1) : m \in 0..n
        BY <2>3
      <3>. QED BY <3>2, <3>3
    <2>7. \A m \in 0..n : m # 0 => m - 1 \in 0..(n - 1)
      BY <2>3
    <2>8. f = [m \in 0..n |-> IF m = 0 THEN L ELSE Laid(f[m - 1], group, ModOrder[m])]
      BY <2>6, <2>7
    <2>9. Layouts(L, group, n, f)
      BY <2>8 DEF Layouts
    <2>. QED BY <2>1, <2>9
  <1>. QED BY <1>1

LEMMA OrderIsMods ==
  /\ Len(ModOrder) \in Nat
  /\ \A n \in 1..Len(ModOrder) : ModOrder[n] \in Plugins
  /\ \A m \in Plugins : \E n \in 1..Len(ModOrder) : ModOrder[n] = m
  <1>1. Len(ModOrder) \in Nat /\ DOMAIN ModOrder = 1..Len(ModOrder)
    BY LayoutAssumption
  <1>. QED BY <1>1 DEF Plugins

LEMMA LayoutsStep ==
  ASSUME NEW L, NEW group, NEW k \in Nat, NEW f, Layouts(L, group, k, f)
  PROVE  LaidInTurn(L, group, k, f)
  <1>1. f = [n \in 0..k |-> IF n = 0 THEN L ELSE Laid(f[n - 1], group, ModOrder[n])]
    BY DEF Layouts
  <1>2. \A n \in 0..k : f[n] = IF n = 0 THEN L ELSE Laid(f[n - 1], group, ModOrder[n])
    BY <1>1, Zenon
  <1>3. 0 \in 0..k /\ \A n \in 1..k : n \in 0..k /\ n # 0 /\ n - 1 \in 0..k
    OBVIOUS
  <1>. QED BY <1>2, <1>3 DEF LaidInTurn

LEMMA AllLaidIsOne ==
  ASSUME NEW L, NEW group
  PROVE  \E f : Layouts(L, group, Len(ModOrder), f) /\ AllLaid(L, group) = f[Len(ModOrder)]
  <1>. DEFINE N == Len(ModOrder)
  <1>1. N \in Nat
    BY OrderIsMods
  <1>. DEFINE g == CHOOSE f : f = [n \in 0..N |-> IF n = 0 THEN L ELSE Laid(f[n - 1], group, ModOrder[n])]
  <1>2. Layouts(L, group, N, g)
    <2>1. \E f : Layouts(L, group, N, f)
      BY <1>1, LayoutsExist
    <2>2. \E f : f = [n \in 0..N |-> IF n = 0 THEN L ELSE Laid(f[n - 1], group, ModOrder[n])]
      BY <2>1 DEF Layouts
    <2>3. g = [n \in 0..N |-> IF n = 0 THEN L ELSE Laid(g[n - 1], group, ModOrder[n])]
      BY <2>2, Zenon
    <2>. QED BY <2>3 DEF Layouts
  <1>3. AllLaid(L, group) = g[N]
    BY DEF AllLaid
  <1>. QED BY <1>2, <1>3

\* It is laid out mod by mod.
LEMMA AllLaidIsLast ==
  ASSUME NEW L, NEW group
  PROVE  \E f : LaidInTurn(L, group, Len(ModOrder), f) /\ AllLaid(L, group) = f[Len(ModOrder)]
  BY AllLaidIsOne, OrderIsMods, LayoutsStep

\* An item is where its mod is, or in the plain place.
Near(L, i) == L.slot[i].place \in {Ungrouped, L.slot[ModOf(i)].place}

\* It is where the clients look for it, unless its folder is torn between two groups.
Home(L, group, i) ==
  \/ i \in L.mislaid \/ L.slot[i].place = Ungrouped
  \/ L.slot[i].place = group[ModOf(i)] /\ L.slot[ModOf(i)].place = group[ModOf(i)]
  \/ Torn(L.slot, group, ModOf(i))

LEMMA ModOfMod == \A i \in Parts : ModOf(i) \in Plugins /\ ModOf(i) \in Parts /\ ModOf(ModOf(i)) = ModOf(i)
  BY ParentIsMod DEF Parts, ModOf

\* Who is beside its mod moves with it, and only with it.
LEMMA TogetherOnly ==
  ASSUME NEW L, Sound(L), NEW x \in Plugins, NEW i \in Parts, L.slot[i] # Nowhere
  PROVE  /\ L.slot[ModOf(i)] # Nowhere
         /\ i \in Reprefixed(L, x) => ModOf(i) \in Reprefixed(L, x) /\ ModOf(i) \in Sharers(L, x)
         /\ ModOf(i) \in Reprefixed(L, x) /\ L.slot[i].place = L.slot[ModOf(i)].place
              => i \in Reprefixed(L, x) \/ L.slot[i].place = Ungrouped
         /\ folderOf[i] = folderOf[ModOf(i)] \/ L.slot[i].place = Ungrouped
  <1>. DEFINE m == ModOf(i)
  <1>1. m \in Plugins /\ m \in Parts /\ ModOf(m) = m /\ (i \in Plugins => m = i)
    BY ModOfMod DEF ModOf
  <1>2. i \notin Plugins => i \in Extras /\ m = ParentMod[i]
    BY DEF Parts, ModOf
  <1>3. L.slot[m] # Nowhere /\ (folderOf[i] = folderOf[m] \/ L.slot[i].place = Ungrouped)
    BY <1>1, <1>2 DEF Sound, WithMods
  <1>4. i \in Reprefixed(L, x) => m \in Reprefixed(L, x) /\ m \in Sharers(L, x)
    BY <1>1 DEF Reprefixed, Sharers
  <1>5. m \in Reprefixed(L, x) /\ L.slot[i].place = L.slot[m].place
          => i \in Reprefixed(L, x) \/ L.slot[i].place = Ungrouped
    BY <1>1, <1>3 DEF Reprefixed, Sharers, RowsIn, Present
  <1>. QED BY <1>3, <1>4, <1>5

LEMMA SharersAgree ==
  ASSUME NEW L, NEW group, NEW x, Moves(L, group, x), NEW o \in Sharers(L, x)
  PROVE  group[o] = group[x]
  BY DEF Moves

LEMMA NearStays ==
  ASSUME NEW L, Sound(L), NEW group \in [Plugins -> Places], NEW x \in Plugins,
         NEW i \in Parts, L.slot[i] # Nowhere, Near(L, i), Moves(L, group, x),
         NEW N, MovedTo(L, x, group[x], N)
  PROVE  Near(N, i)
  <1>. DEFINE m == ModOf(i)
  <1>1. m \in Parts /\ L.slot[m] # Nowhere
    BY ModOfMod, TogetherOnly
  <1>2. /\ N.slot[i].place = IF i \in Reprefixed(L, x) THEN group[x] ELSE L.slot[i].place
        /\ N.slot[m].place = IF m \in Reprefixed(L, x) THEN group[x] ELSE L.slot[m].place
    BY <1>1 DEF MovedTo
  <1>3. i \in Reprefixed(L, x) => m \in Reprefixed(L, x)
    BY TogetherOnly
  <1>4. m \in Reprefixed(L, x) /\ L.slot[i].place = L.slot[m].place
          => i \in Reprefixed(L, x) \/ L.slot[i].place = Ungrouped
    BY TogetherOnly
  <1>. QED BY <1>2, <1>3, <1>4 DEF Near

\* The move of any folder leaves at home who is at home.
LEMMA HomeStays ==
  ASSUME NEW L, Sound(L), NEW group \in [Plugins -> Places], NEW x \in Plugins,
         NEW i \in Parts, L.slot[i] # Nowhere, Home(L, group, i), Moves(L, group, x),
         NEW N, MovedTo(L, x, group[x], N)
  PROVE  Home(N, group, i)
  <1>. DEFINE m == ModOf(i)
  <1>1. m \in Parts /\ m \in Plugins /\ ModOf(m) = m /\ L.slot[m] # Nowhere
    BY ModOfMod, TogetherOnly
  <1>2. /\ N.slot[i].place = IF i \in Reprefixed(L, x) THEN group[x] ELSE L.slot[i].place
        /\ N.slot[m].place = IF m \in Reprefixed(L, x) THEN group[x] ELSE L.slot[m].place
        /\ L.mislaid \subseteq N.mislaid
    BY <1>1 DEF MovedTo
  <1>3. i \in Reprefixed(L, x) => m \in Reprefixed(L, x) /\ m \in Sharers(L, x)
    BY TogetherOnly
  <1>4. m \in Reprefixed(L, x) /\ L.slot[i].place = L.slot[m].place
          => i \in Reprefixed(L, x) \/ L.slot[i].place = Ungrouped
    BY TogetherOnly
  <1>5. m \in Sharers(L, x) => group[m] = group[x]
    BY SharersAgree
  <1>6. CASE i \in L.mislaid
    BY <1>2, <1>6 DEF Home
  <1>7. CASE L.slot[i].place = Ungrouped
    BY <1>2, <1>3, <1>5, <1>7 DEF Home
  <1>8. CASE L.slot[i].place = group[m] /\ L.slot[m].place = group[m]
    BY <1>2, <1>3, <1>4, <1>5, <1>8 DEF Home
  <1>9. CASE Torn(L.slot, group, m)
    <2>1. PICK o \in Present(L.slot) \cap Plugins :
            folderOf[o] = folderOf[m] /\ L.slot[o].place = L.slot[m].place /\ group[o] # group[m]
      BY <1>9 DEF Torn
    <2>2. o \in Parts /\ ModOf(o) = o /\ L.slot[o] # Nowhere
      BY <2>1 DEF Present, ModOf
    <2>3. m \in RowsIn(L, x) <=> o \in RowsIn(L, x)
      BY <1>1, <2>1, <2>2 DEF RowsIn, Present
    <2>4. m \notin RowsIn(L, x)
      <3>1. SUFFICES ASSUME m \in RowsIn(L, x) PROVE FALSE
        OBVIOUS
      <3>2. m \in Sharers(L, x) /\ o \in Sharers(L, x)
        BY <1>1, <2>1, <2>3, <3>1 DEF Sharers
      <3>. QED BY <2>1, <3>2, SharersAgree
    <2>5. m \notin Reprefixed(L, x) /\ o \notin Reprefixed(L, x)
      BY <2>3, <2>4 DEF Reprefixed
    <2>6. N.slot[m].place = L.slot[m].place /\ N.slot[o].place = L.slot[o].place /\ N.slot[o] # Nowhere
      BY <1>2, <2>2, <2>5 DEF MovedTo
    <2>7. Torn(N.slot, group, m)
      BY <2>1, <2>2, <2>6 DEF Torn, Present
    <2>. QED BY <2>7 DEF Home
  <1>. QED BY <1>6, <1>7, <1>8, <1>9 DEF Home

\* The turn of its own mod brings an enabled item home, if anything can.
LEMMA HomeComes ==
  ASSUME NEW L, Sound(L), NEW group \in [Plugins -> Places],
         NEW i \in Parts, L.slot[i] # Nowhere, ~L.slot[i].disabled, ~L.slot[ModOf(i)].disabled, Near(L, i)
  PROVE  Home(Laid(L, group, ModOf(i)), group, i)
  <1>. DEFINE m == ModOf(i)
              N == Laid(L, group, m)
  <1>1. m \in Parts /\ m \in Plugins /\ ModOf(m) = m /\ L.slot[m] # Nowhere
        /\ (folderOf[i] = folderOf[m] \/ L.slot[i].place = Ungrouped)
    BY ModOfMod, TogetherOnly
  <1>2. CASE Moves(L, group, m)
    <2>1. MovedTo(L, m, group[m], N)
      BY <1>1, <1>2, LaidMoves DEF Sound
    <2>2. m \in Reprefixed(L, m)
      BY <1>1 DEF Reprefixed, Sharers, RowsIn, Present
    <2>3. N.slot[m].place = group[m]
      BY <1>1, <2>1, <2>2 DEF MovedTo
    <2>4. Near(N, i)
      BY <1>1, <1>2, <2>1, NearStays
    <2>. HIDE DEF N
    <2>. QED BY <2>3, <2>4 DEF Near, Home, N
  <1>3. CASE ~Moves(L, group, m)
    <2>1. N = L
      BY <1>3 DEF Laid
    <2>. HIDE DEF N
    <2>2. SUFFICES ASSUME i \notin L.mislaid, L.slot[i].place # Ungrouped,
                          L.slot[m].place # group[m]
                   PROVE  Torn(L.slot, group, m)
      BY <2>1 DEF Home, Near, N
    <2>3. L.slot[i].place = L.slot[m].place /\ folderOf[i] = folderOf[m]
      BY <1>1, <2>2 DEF Near
    <2>4. L.slot[i] \in Slot /\ L.slot[i].disabled = FALSE
      BY DEF Sound, LayoutTyped, Slot
    <2>5. L.file[i] = [place |-> L.slot[m].place, stashed |-> FALSE]
      BY <2>2, <2>3, <2>4 DEF Sound, Follows
    <2>6. [place |-> L.slot[m].place, stashed |-> FALSE] \in Spot
      BY <2>3, <2>4 DEF Slot, Spot
    <2>7. i \in Inside(L, m)
      BY <2>3, <2>5, <2>6, NowhereIsApart DEF Inside, Present
    <2>8. PICK o \in Sharers(L, m) : group[o] # group[m]
      BY <1>1, <1>3, <2>2, <2>7 DEF Moves
    <2>. QED BY <2>8 DEF Sharers, RowsIn, Torn
  <1>. QED BY <1>2, <1>3

\* All moves together, layout by layout: everything stays sound, and whoever was near
\* its mod when the moves began is home from the turn of its mod on.
Stage(L, i) ==
  /\ Sound(L) /\ L.slot[i] # Nowhere /\ ~L.slot[i].disabled /\ ~L.slot[ModOf(i)].disabled
  /\ Near(L, i)

LEMMA StageStays ==
  ASSUME NEW L, NEW i \in Parts, Stage(L, i), NEW group \in [Plugins -> Places], NEW x \in Plugins
  PROVE  /\ Stage(Laid(L, group, x), i)
         /\ Home(L, group, i) \/ x = ModOf(i) => Home(Laid(L, group, x), group, i)
  <1>1. Sound(L) /\ L.slot[i] # Nowhere /\ ~L.slot[i].disabled /\ ~L.slot[ModOf(i)].disabled /\ Near(L, i)
    BY DEF Stage
  <1>2. x = ModOf(i) => Home(Laid(L, group, x), group, i)
    BY <1>1, HomeComes
  <1>3. CASE ~Moves(L, group, x)
    <2>1. Laid(L, group, x) = L
      BY <1>3 DEF Laid
    <2>. QED BY <1>2, <2>1
  <1>4. CASE Moves(L, group, x)
    <2>1. MovedTo(L, x, group[x], Laid(L, group, x)) /\ Sound(Laid(L, group, x))
      BY <1>1, <1>4, LaidMoves, LaidKeeps DEF Sound
    <2>2. Near(Laid(L, group, x), i) /\ (Home(L, group, i) => Home(Laid(L, group, x), group, i))
      BY <1>1, <1>4, <2>1, NearStays, HomeStays
    <2>3. ModOf(i) \in Parts /\ L.slot[ModOf(i)] # Nowhere
      BY <1>1, ModOfMod, TogetherOnly
    <2>4. /\ Laid(L, group, x).slot[i] # Nowhere /\ ~Laid(L, group, x).slot[i].disabled
          /\ ~Laid(L, group, x).slot[ModOf(i)].disabled
      BY <1>1, <2>1, <2>3 DEF MovedTo
    <2>. QED BY <1>2, <2>1, <2>2, <2>4 DEF Stage
  <1>. QED BY <1>3, <1>4

LEMMA AllLaidKeeps ==
  ASSUME NEW L, Sound(L), NEW group \in [Plugins -> Places]
  PROVE  Sound(AllLaid(L, group))
  <1>. DEFINE N == Len(ModOrder)
  <1>1. PICK f : LaidInTurn(L, group, N, f) /\ AllLaid(L, group) = f[N]
    BY AllLaidIsLast
  <1>2. f[0] = L /\ \A n \in 1..N : n - 1 \in 0..N /\ f[n] = Laid(f[n - 1], group, ModOrder[n])
    BY <1>1 DEF LaidInTurn
  <1>. DEFINE Bad == {n \in 0..N : ~Sound(f[n])}
  <1>3. ASSUME Bad # {} PROVE FALSE
    <2>1. PICK n \in Bad : \A m \in Bad : n <= m
      <3>1. Bad \subseteq Nat
        BY OrderIsMods
      <3>. HIDE DEF Bad
      <3>. QED BY <1>3, <3>1, LeastNat
    <2>2. n \in 1..N /\ n - 1 \notin Bad
      BY <1>2, <2>1, OrderIsMods
    <2>3. Sound(f[n - 1]) /\ f[n] = Laid(f[n - 1], group, ModOrder[n]) /\ ModOrder[n] \in Plugins
      BY <1>2, <2>2, OrderIsMods
    <2>4. Sound(f[n])
      BY <2>3, LaidKeeps
    <2>. QED BY <2>1, <2>4
  <1>. QED BY <1>1, <1>3, OrderIsMods

LEMMA AllLaidBringsHome ==
  ASSUME NEW L, NEW i \in Parts, Stage(L, i), NEW group \in [Plugins -> Places]
  PROVE  Stage(AllLaid(L, group), i) /\ Home(AllLaid(L, group), group, i)
  <1>. DEFINE N == Len(ModOrder)
  <1>1. PICK f : LaidInTurn(L, group, N, f) /\ AllLaid(L, group) = f[N]
    BY AllLaidIsLast
  <1>2. f[0] = L /\ \A n \in 1..N : n - 1 \in 0..N /\ f[n] = Laid(f[n - 1], group, ModOrder[n])
    BY <1>1 DEF LaidInTurn
  <1>3. PICK k \in 1..N : ModOrder[k] = ModOf(i)
    BY ModOfMod, OrderIsMods
  <1>. DEFINE Bad == {n \in 0..N : ~(Stage(f[n], i) /\ (n >= k => Home(f[n], group, i)))}
  <1>4. ASSUME Bad # {} PROVE FALSE
    <2>1. PICK n \in Bad : \A m \in Bad : n <= m
      <3>1. Bad \subseteq Nat
        BY OrderIsMods
      <3>. HIDE DEF Bad
      <3>. QED BY <1>4, <3>1, LeastNat
    <2>2. n \in 1..N /\ n - 1 \notin Bad /\ n \in Nat
      BY <1>2, <1>3, <2>1, OrderIsMods
    <2>3. f[n] = Laid(f[n - 1], group, ModOrder[n]) /\ ModOrder[n] \in Plugins
      BY <1>2, <2>2, OrderIsMods
    <2>4. Stage(f[n - 1], i) /\ (n - 1 >= k => Home(f[n - 1], group, i))
      BY <1>2, <2>2
    <2>5. Stage(f[n], i) /\ (Home(f[n - 1], group, i) \/ ModOrder[n] = ModOf(i) => Home(f[n], group, i))
      BY <2>3, <2>4, StageStays
    <2>6. n >= k => n - 1 >= k \/ n = k
      BY <2>2, OrderIsMods
    <2>7. n >= k => Home(f[n], group, i)
      BY <1>3, <2>4, <2>5, <2>6
    <2>. QED BY <2>1, <2>5, <2>7
  <1>5. N \in 0..N /\ N >= k
    BY <1>3, OrderIsMods
  <1>. QED BY <1>1, <1>4, <1>5

\* The state: what is said of layouts holds of the rows and files.
LayoutInv == LayoutTypeOK /\ Sound(Layout)

LEMMA LayoutIsState == Layout.slot = slot /\ Layout.file = fileAt /\ Layout.mislaid = mislaid
  BY DEF Layout

LEMMA BecomesSound ==
  ASSUME NEW N, Sound(N), Becomes(N), UNCHANGED folderOf
  PROVE  /\ Sound(Layout)'
         /\ slot' \in [Parts -> Slot \cup {Nowhere}] /\ fileAt' \in [Parts -> Spot \cup {Nowhere}]
         /\ mislaid' \subseteq Parts
  <1>1. slot' = N.slot /\ fileAt' = N.file /\ mislaid' = N.mislaid
    BY DEF Becomes
  <1>2. Layout'.slot = slot' /\ Layout'.file = fileAt' /\ Layout'.mislaid = mislaid'
    BY DEF Layout
  <1>3. LayoutTyped(Layout)' /\ Follows(Layout)' /\ WithMods(Layout.slot)'
    BY <1>1, <1>2 DEF Sound, LayoutTyped, Follows, WithMods
  <1>. QED BY <1>1, <1>3 DEF Sound, LayoutTyped

LEMMA StateSound ==
  ASSUME LayoutInv
  PROVE  /\ Sound(Layout) /\ LayoutTyped(Layout)
         /\ \A i \in Parts : slot[i] # Nowhere =>
              /\ slot[i] \in Slot
              /\ i \notin mislaid => fileAt[i] = [place |-> slot[i].place, stashed |-> slot[i].disabled]
         /\ \A i \in Extras : slot[i] # Nowhere =>
              /\ slot[ParentMod[i]] # Nowhere
              /\ folderOf[i] # folderOf[ParentMod[i]] => slot[i].place = Ungrouped
  BY LayoutIsState DEF LayoutInv, LayoutTypeOK, Sound, Follows, WithMods, LayoutTyped

\* New files lie where their row says.
LEMMA PutAtSound ==
  ASSUME LayoutInv, NEW i \in Parts, NEW disabled \in BOOLEAN,
         i \in Extras => slot[ParentMod[i]] # Nowhere
  PROVE  Sound(PutAt(i, disabled))
  <1>. DEFINE r == [place |-> Ungrouped, disabled |-> disabled]
              p == [place |-> Ungrouped, stashed |-> disabled]
              N == PutAt(i, disabled)
  <1>1. r \in Slot /\ p \in Spot /\ r # Nowhere /\ r.place = Ungrouped /\ r.disabled = disabled
    BY NowhereIsApart DEF Slot, Spot, Places
  <1>2. N.slot = [slot EXCEPT ![i] = r] /\ N.file = [fileAt EXCEPT ![i] = p] /\ N.mislaid = mislaid \ {i}
    BY DEF PutAt
  <1>3. p = [place |-> r.place, stashed |-> r.disabled]
    OBVIOUS
  <1>. HIDE DEF r, p, N
  <1>4. LayoutTyped(N)
    BY <1>1, <1>2 DEF LayoutTyped, LayoutInv, LayoutTypeOK
  <1>5. /\ N.slot[i] = r /\ N.file[i] = p
        /\ \A j \in Parts : j # i => N.slot[j] = slot[j] /\ N.file[j] = fileAt[j]
    BY <1>2 DEF LayoutInv, LayoutTypeOK
  <1>6. Follows(N)
    <2>1. ASSUME NEW j \in Parts, N.slot[j] # Nowhere, j \notin N.mislaid
          PROVE  N.file[j] = [place |-> N.slot[j].place, stashed |-> N.slot[j].disabled]
      <3>1. CASE j = i
        BY <1>3, <1>5, <3>1
      <3>2. CASE j # i
        BY <1>2, <1>5, <2>1, <3>2, StateSound
      <3>. QED BY <3>1, <3>2
    <2>. QED BY <2>1 DEF Follows
  <1>7. WithMods(N.slot)
    <2>1. ASSUME NEW j \in Extras, N.slot[j] # Nowhere
          PROVE  /\ N.slot[ParentMod[j]] # Nowhere
                 /\ folderOf[j] # folderOf[ParentMod[j]] => N.slot[j].place = Ungrouped
      <3>1. j \in Parts /\ ParentMod[j] \in Parts
        BY ParentIsMod
      <3>2. slot[ParentMod[j]] # Nowhere
        BY <1>5, <2>1, <3>1, StateSound
      <3>. QED BY <1>1, <1>5, <2>1, <3>1, <3>2, StateSound
    <2>. QED BY <2>1 DEF WithMods
  <1>. QED BY <1>4, <1>6, <1>7 DEF Sound, N

\* config.yaml names groups, and the plain place.
LEMMA GeneratedTyped ==
  ASSUME NEW s, NEW group \in [Plugins -> Places], Generated(s, group)
  PROVE  served' \subseteq Places
  <1>1. \A i \in Parts : group[ModOf(i)] \in Places
    BY ModOfMod
  <1>2. GroupsOf(s, group) \subseteq Places
    BY <1>1 DEF GroupsOf, Present
  <1>. QED BY <1>2 DEF Generated, SyncPaths, Places

LEMMA LayoutInitInv == LayoutInit => LayoutInv
  <1>. SUFFICES ASSUME LayoutInit PROVE LayoutInv
    OBVIOUS
  <1>1. LayoutTypeOK
    BY LayoutAssumption DEF LayoutInit, LayoutTypeOK, Places
  <1>2. Sound(Layout)
    <2>1. \A i \in Parts : slot[i] = Nowhere
      BY DEF LayoutInit
    <2>2. LayoutTyped(Layout)
      BY <1>1, LayoutIsState DEF LayoutTyped, LayoutTypeOK
    <2>3. Follows(Layout) /\ WithMods(Layout.slot)
      BY <2>1, LayoutIsState DEF Follows, WithMods, Parts
    <2>. QED BY <2>2, <2>3 DEF Sound
  <1>. QED BY <1>1, <1>2 DEF LayoutInv

LEMMA ItemKeeps ==
  ASSUME LayoutInv, NEW i \in Parts,
         InstallItem(i) \/ \E async \in BOOLEAN : UpdateItem(i, async)
  PROVE  LayoutInv'
  <1>1. member \in [Plugins -> Places] /\ UNCHANGED <<folderOf, member, stripped, regen>>
    BY DEF LayoutInv, LayoutTypeOK, InstallItem, UpdateItem
  <1>2. i \in Extras => ModOf(i) = ParentMod[i]
    BY ParentIsMod
  <1>3. PICK disabled \in BOOLEAN :
          /\ Sound(PutAt(i, disabled))
          /\ Becomes(PutAt(i, disabled)) \/ (i \in Plugins /\ Becomes(Laid(PutAt(i, disabled), member, i)))
          /\ UNCHANGED served \/ Generated(PutAt(i, disabled).slot, member)
    <2>1. CASE InstallItem(i)
      <3>1. Sound(PutAt(i, FALSE))
        <4>1. (i \in Extras => slot[ParentMod[i]] # Nowhere) /\ FALSE \in BOOLEAN
          BY <1>2, <2>1 DEF InstallItem
        <4>. QED BY <4>1, PutAtSound
      <3>. QED BY <2>1, <3>1 DEF InstallItem
    <2>2. ASSUME NEW async \in BOOLEAN, UpdateItem(i, async)
          PROVE  \E disabled \in BOOLEAN :
            /\ Sound(PutAt(i, disabled))
            /\ Becomes(PutAt(i, disabled)) \/ (i \in Plugins /\ Becomes(Laid(PutAt(i, disabled), member, i)))
            /\ UNCHANGED served \/ Generated(PutAt(i, disabled).slot, member)
      <3>1. slot[i].disabled \in BOOLEAN
        BY <2>2, StateSound DEF UpdateItem, Slot
      <3>2. Sound(PutAt(i, slot[i].disabled))
        BY <2>2, <3>1, PutAtSound, StateSound DEF UpdateItem
      <3>. QED BY <2>2, <3>1, <3>2 DEF UpdateItem
    <2>. QED BY <2>1, <2>2
  <1>4. \E N : Sound(N) /\ Becomes(N)
    BY <1>1, <1>3, LaidKeeps
  <1>5. served' \subseteq Places
    BY <1>1, <1>3, GeneratedTyped DEF LayoutInv, LayoutTypeOK
  <1>. QED BY <1>1, <1>4, <1>5, BecomesSound DEF LayoutInv, LayoutTypeOK

LEMMA UninstallKeeps ==
  ASSUME LayoutInv, NEW i \in Parts, UninstallItem(i)
  PROVE  LayoutInv'
  <1>. DEFINE S == {j \in Parts : j = i \/ (i \in Plugins /\ ModOf(j) = i)}
              s == [j \in Parts |-> IF j \in S THEN Nowhere ELSE slot[j]]
              f == [j \in Parts |-> IF j \in S /\ AtRow(j) THEN Nowhere ELSE fileAt[j]]
              N == [slot |-> s, file |-> f, mislaid |-> mislaid \ S]
  <1>1. /\ slot' = s /\ fileAt' = f /\ mislaid' = mislaid \ S
        /\ stripped' = stripped \cup {m \in S \cap Plugins : member[m] # Ungrouped}
        /\ Generated(s, member) /\ UNCHANGED <<folderOf, member, regen>>
    BY DEF UninstallItem
  <1>2. N.slot = s /\ N.file = f /\ N.mislaid = mislaid \ S /\ Becomes(N)
    BY <1>1 DEF Becomes
  <1>3. \A j \in Extras : j \notin S => ParentMod[j] \notin S
    BY ParentIsMod, ModOfMod
  <1>. HIDE DEF N
  <1>4. /\ \A j \in Parts : j \in S => s[j] = Nowhere
        /\ \A j \in Parts : j \notin S => s[j] = slot[j] /\ f[j] = fileAt[j]
    OBVIOUS
  <1>5. s \in [Parts -> Slot \cup {Nowhere}] /\ f \in [Parts -> Spot \cup {Nowhere}]
    BY DEF LayoutInv, LayoutTypeOK
  <1>6. mislaid \ S \subseteq Parts /\ stripped' \subseteq Plugins
    BY <1>1 DEF LayoutInv, LayoutTypeOK
  <1>. HIDE DEF s, f, S
  <1>7. Sound(N)
    <2>1. LayoutTyped(N)
      BY <1>2, <1>5, <1>6 DEF LayoutTyped
    <2>2. Follows(N)
      BY <1>2, <1>4, StateSound DEF Follows
    <2>3. WithMods(N.slot)
      BY <1>2, <1>3, <1>4, StateSound, ParentIsMod DEF WithMods
    <2>. QED BY <2>1, <2>2, <2>3 DEF Sound
  <1>8. served' \subseteq Places
    BY <1>1, GeneratedTyped DEF LayoutInv, LayoutTypeOK
  <1>. QED BY <1>1, <1>2, <1>6, <1>7, <1>8, BecomesSound DEF LayoutInv, LayoutTypeOK

LEMMA ToggleKeeps ==
  ASSUME LayoutInv, NEW i \in Parts, ToggleItem(i)
  PROVE  LayoutInv'
  <1>. DEFINE r == [slot[i] EXCEPT !.disabled = ~@]
              p == [fileAt[i] EXCEPT !.stashed = ~@]
              s == [slot EXCEPT ![i] = r]
              f == IF AtRow(i) THEN [fileAt EXCEPT ![i] = p] ELSE fileAt
              N == [slot |-> s, file |-> f, mislaid |-> mislaid]
  <1>1. UNCHANGED <<folderOf, member, stripped, served, regen>> /\ slot[i] # Nowhere
    BY DEF ToggleItem
  <1>2. slot[i] \in Slot
    BY <1>1, StateSound
  <1>3. r \in Slot /\ r # Nowhere /\ r.place = slot[i].place /\ r.disabled = ~slot[i].disabled
    BY <1>2, NowhereIsApart DEF Slot
  <1>4. AtRow(i) => p \in Spot /\ p = [place |-> r.place, stashed |-> r.disabled]
    <2>1. SUFFICES ASSUME AtRow(i) PROVE p \in Spot /\ p = [place |-> r.place, stashed |-> r.disabled]
      OBVIOUS
    <2>2. fileAt[i] = [place |-> slot[i].place, stashed |-> slot[i].disabled]
      BY <2>1 DEF AtRow
    <2>3. p = [place |-> slot[i].place, stashed |-> ~slot[i].disabled]
      BY <2>2
    <2>4. slot[i].place \in Places /\ (~slot[i].disabled) \in BOOLEAN
      BY <1>2 DEF Slot
    <2>. HIDE DEF p
    <2>5. p \in Spot
      BY <2>3, <2>4 DEF Spot
    <2>. QED BY <1>3, <2>3, <2>5
  <1>5. Becomes(N) \/ (i \in Plugins /\ Becomes(Laid(N, member, i)))
    BY DEF ToggleItem
  <1>6. N.slot = s /\ N.file = f /\ N.mislaid = mislaid
    OBVIOUS
  <1>. HIDE DEF r, p, N
  <1>7. s \in [Parts -> Slot \cup {Nowhere}] /\ s[i] = r /\ \A j \in Parts : j # i => s[j] = slot[j]
    BY <1>3 DEF LayoutInv, LayoutTypeOK
  <1>8. /\ f \in [Parts -> Spot \cup {Nowhere}]
        /\ AtRow(i) => f[i] = p
        /\ \A j \in Parts : j # i => f[j] = fileAt[j]
    BY <1>4 DEF LayoutInv, LayoutTypeOK
  <1>. HIDE DEF s, f
  <1>9. Sound(N)
    <2>1. LayoutTyped(N)
      BY <1>6, <1>7, <1>8 DEF LayoutTyped, LayoutInv, LayoutTypeOK
    <2>2. ASSUME NEW j \in Parts, N.slot[j] # Nowhere, j \notin N.mislaid
          PROVE  N.file[j] = [place |-> N.slot[j].place, stashed |-> N.slot[j].disabled]
      <3>1. CASE j = i
        <4>1. AtRow(i)
          BY <1>1, <1>6, <2>2, <3>1, StateSound DEF AtRow
        <4>. QED BY <1>4, <1>6, <1>7, <1>8, <3>1, <4>1
      <3>2. CASE j # i
        BY <1>6, <1>7, <1>8, <2>2, <3>2, StateSound
      <3>. QED BY <3>1, <3>2
    <2>3. ASSUME NEW j \in Extras, N.slot[j] # Nowhere
          PROVE  /\ N.slot[ParentMod[j]] # Nowhere
                 /\ folderOf[j] # folderOf[ParentMod[j]] => N.slot[j].place = Ungrouped
      <3>1. j \in Parts /\ ParentMod[j] \in Parts
        BY ParentIsMod
      <3>2. slot[j] # Nowhere /\ N.slot[j].place = slot[j].place
        BY <1>1, <1>3, <1>6, <1>7, <2>3, <3>1
      <3>. QED BY <1>1, <1>3, <1>6, <1>7, <3>1, <3>2, StateSound
    <2>. QED BY <2>1, <2>2, <2>3 DEF Sound, Follows, WithMods
  <1>10. \E M : Sound(M) /\ Becomes(M)
    BY <1>5, <1>9, LaidKeeps DEF LayoutInv, LayoutTypeOK
  <1>. QED BY <1>1, <1>10, BecomesSound DEF LayoutInv, LayoutTypeOK

\* Groups are saved, read again, and read by a request.
LEMMA GroupsKeep ==
  ASSUME LayoutInv,
         \/ \E group \in [Plugins -> Places] : SaveGroups(group)
         \/ ReloadGroups \/ \E h \in Regens : RegenAsks(h)
  PROVE  LayoutInv'
  <1>1. UNCHANGED <<folderOf, slot, fileAt, served, mislaid>>
    BY DEF SaveGroups, ReloadGroups, RegenAsks
  <1>2. Sound(Layout)'
    BY <1>1 DEF LayoutInv, Layout, Sound, LayoutTyped, Follows, WithMods
  <1>3. member' \in [Plugins -> Places] /\ stripped' \subseteq Plugins
    BY DEF SaveGroups, ReloadGroups, RegenAsks, LayoutInv, LayoutTypeOK, Places
  <1>4. regen' \in [Regens -> [Plugins -> Places] \cup {Nowhere}]
    BY DEF SaveGroups, ReloadGroups, RegenAsks, LayoutInv, LayoutTypeOK
  <1>. QED BY <1>1, <1>2, <1>3, <1>4 DEF LayoutInv, LayoutTypeOK

\* All mods are laid out.
LEMMA RegenKeeps ==
  ASSUME LayoutInv, LayoutRestart \/ \E h \in Regens : RegenRuns(h)
  PROVE  LayoutInv'
  <1>1. PICK group \in [Plugins -> Places] : Becomes(AllLaid(Layout, group))
    <2>1. CASE LayoutRestart
      BY <2>1 DEF LayoutRestart, LayoutInv, LayoutTypeOK, Places
    <2>2. ASSUME NEW h \in Regens, RegenRuns(h)
          PROVE  \E group \in [Plugins -> Places] : Becomes(AllLaid(Layout, group))
      <3>1. regen[h] \in [Plugins -> Places]
        BY <2>2 DEF RegenRuns, LayoutInv, LayoutTypeOK
      <3>. QED BY <2>2, <3>1 DEF RegenRuns
    <2>. QED BY <2>1, <2>2
  <1>2. Sound(AllLaid(Layout, group))
    BY AllLaidKeeps DEF LayoutInv
  <1>3. UNCHANGED folderOf
    BY DEF LayoutRestart, RegenRuns
  <1>4. member' \in [Plugins -> Places] /\ stripped' \subseteq Plugins
    BY DEF LayoutRestart, RegenRuns, LayoutInv, LayoutTypeOK, Places
  <1>5. regen' \in [Regens -> [Plugins -> Places] \cup {Nowhere}]
    BY DEF LayoutRestart, RegenRuns, LayoutInv, LayoutTypeOK
  <1>6. served' \subseteq Places
    <2>1. \E s, g : g \in [Plugins -> Places] /\ Generated(s, g)
      BY <1>4 DEF LayoutRestart, RegenRuns, LayoutInv, LayoutTypeOK
    <2>. QED BY <2>1, GeneratedTyped
  <1>. QED BY <1>1, <1>2, <1>3, <1>4, <1>5, <1>6, BecomesSound DEF LayoutInv, LayoutTypeOK

\* The folder is there and its rows are not: they are known to be parted.
LEMMA MoveCrashKeeps ==
  ASSUME LayoutInv, NEW m \in Plugins, MoveCrash(m)
  PROVE  LayoutInv'
  <1>. DEFINE f == MoveFiles(Layout, member, m)
              N == [slot |-> slot, file |-> f, mislaid |-> mislaid \cup Inside(Layout, m)]
  <1>1. /\ fileAt' = f /\ mislaid' = mislaid \cup Inside(Layout, m)
        /\ regen' = [h \in Regens |-> Nowhere]
        /\ UNCHANGED <<folderOf, slot, member, stripped, served>>
    BY DEF MoveCrash
  <1>2. N.slot = slot /\ N.file = f /\ N.mislaid = mislaid \cup Inside(Layout, m) /\ Becomes(N)
    BY <1>1 DEF Becomes
  <1>3. member[m] \in Places /\ Inside(Layout, m) \subseteq Parts
    BY DEF LayoutInv, LayoutTypeOK, Inside, Present
  <1>4. \A i \in Parts : f[i] = IF i \in Inside(Layout, m) THEN [place |-> member[m], stashed |-> FALSE] ELSE fileAt[i]
    BY LayoutIsState DEF MoveFiles
  <1>5. [place |-> member[m], stashed |-> FALSE] \in Spot
    BY <1>3 DEF Spot
  <1>6. f \in [Parts -> Spot \cup {Nowhere}]
    <2>1. \A i \in Parts : f[i] \in Spot \cup {Nowhere}
      BY <1>4, <1>5 DEF LayoutInv, LayoutTypeOK
    <2>. QED BY <2>1 DEF MoveFiles
  <1>. HIDE DEF N, f
  <1>7. Sound(N)
    <2>1. LayoutTyped(N)
      BY <1>2, <1>3, <1>6 DEF LayoutTyped, LayoutInv, LayoutTypeOK
    <2>2. Follows(N)
      BY <1>2, <1>4, StateSound DEF Follows
    <2>3. WithMods(N.slot)
      BY <1>2, StateSound DEF WithMods
    <2>. QED BY <2>1, <2>2, <2>3 DEF Sound
  <1>. QED BY <1>1, <1>2, <1>7, BecomesSound DEF LayoutInv, LayoutTypeOK

LEMMA LayoutNextInv == LayoutInv /\ [LayoutNext]_layoutVars => LayoutInv'
  <1>. SUFFICES ASSUME LayoutInv, [LayoutNext]_layoutVars PROVE LayoutInv'
    OBVIOUS
  <1>1. CASE UNCHANGED layoutVars
    BY <1>1 DEF layoutVars, LayoutInv, LayoutTypeOK, Layout, Sound, LayoutTyped, Follows, WithMods
  <1>2. CASE LayoutNext
    <2>1. CASE \E i \in Parts : \/ InstallItem(i) \/ UninstallItem(i) \/ ToggleItem(i)
                                \/ \E async \in BOOLEAN : UpdateItem(i, async)
      BY <2>1, ItemKeeps, UninstallKeeps, ToggleKeeps
    <2>2. CASE \/ \E group \in [Plugins -> Places] : SaveGroups(group)
               \/ ReloadGroups \/ \E h \in Regens : RegenAsks(h)
      BY <2>2, GroupsKeep
    <2>3. CASE LayoutRestart \/ \E h \in Regens : RegenRuns(h)
      BY <2>3, RegenKeeps
    <2>4. CASE \E m \in Plugins : MoveCrash(m)
      BY <2>4, MoveCrashKeeps
    <2>. QED BY <1>2, <2>1, <2>2, <2>3, <2>4 DEF LayoutNext
  <1>. QED BY <1>1, <1>2

LEMMA SoundRowsFollow == LayoutInv => RowsFollowFolders
  BY StateSound DEF RowsFollowFolders, Present, AtRow

\* A regeneration with the current groups: what it leaves in place is served.
LEMMA RegenServes ==
  ASSUME LayoutInv
  PROVE  EnabledIsServed
  <1>. SUFFICES ASSUME NEW h \in Regens, regen[h] = member, RegenRuns(h),
                       NEW i \in Present(slot) \ mislaid', ~slot[i].disabled,
                       ~slot[ModOf(i)].disabled, WithMod(i), ~Torn(slot', member, ModOf(i))
                PROVE  slot'[i].place \in served'
    BY DEF EnabledIsServed
  <1>. DEFINE N == AllLaid(Layout, member)
  <1>1. slot' = N.slot /\ mislaid' = N.mislaid /\ served' = SyncPaths(slot', member)
    BY DEF RegenRuns, Becomes, Generated
  <1>2. UNCHANGED folderOf
    BY DEF RegenRuns
  <1>3. member \in [Plugins -> Places] /\ i \in Parts
    BY DEF LayoutInv, LayoutTypeOK, Present
  <1>4. Stage(Layout, i)
    BY LayoutIsState DEF LayoutInv, Stage, Near, WithMod, Present
  <1>. HIDE DEF N
  <1>5. Stage(N, i) /\ Home(N, member, i)
    BY <1>3, <1>4, AllLaidBringsHome DEF N
  <1>6. /\ slot'[i] # Nowhere /\ ~slot'[i].disabled /\ ~slot'[ModOf(i)].disabled
        /\ slot'[i].place \in {Ungrouped, member[ModOf(i)]}
    BY <1>1, <1>5 DEF Stage, Home
  <1>7. member[ModOf(i)] \in GroupsOf(slot', member)
    BY <1>3, <1>6 DEF GroupsOf, Present
  <1>. QED BY <1>1, <1>6, <1>7 DEF SyncPaths

\* Rows follow the folders of their files from one sync group to another, and after a
\* regeneration the clients load every enabled plugin that can be in one place
\* (src/src/modsync.rs).
THEOREM FoldersServe == LayoutSpec => LayoutServes
  <1>1. LayoutInv => RowsFollowFolders /\ EnabledIsServed
    BY SoundRowsFollow, RegenServes
  <1>2. LayoutInv /\ [LayoutNext]_layoutVars => LayoutInv'
    BY LayoutNextInv
  <1>3. LayoutInit => LayoutInv
    BY LayoutInitInv
  <1>4. LayoutInv /\ LayoutInv' /\ [LayoutNext]_layoutVars => [RowsFollowFolders' /\ EnabledIsServed]_layoutVars
    <2>1. LayoutInv' => RowsFollowFolders'
      BY SoundRowsFollow, PTL
    <2>. QED BY <1>1, <2>1
  <1>. QED BY <1>2, <1>3, <1>4, PTL DEF LayoutSpec, LayoutServes

------------------------------------------------------------------------------
(* All of them                                                             *)

\* The tracker hands out tasks of the right form, whoever dismisses them.
LEMMA TrackerTyped ==
  /\ Init => TypeOK
  /\ TypeOK /\ [Next]_vars => TypeOK'
  <1>1. Init => TypeOK
    BY TrackerAssumption DEF Init, TypeOK
  <1>2. ASSUME TypeOK, [Next]_vars PROVE TypeOK'
    <2>1. CASE UNCHANGED vars
      BY <1>2, <2>1 DEF vars, TypeOK
    <2>2. ASSUME NEW id \in Ids, NEW bulk \in BOOLEAN, Start(id, bulk) PROVE TypeOK'
      <3>1. nextId \in 1..MaxTasks /\ nextId + 1 \in 1..(MaxTasks + 1)
        BY <1>2, <2>2, TrackerAssumption DEF TypeOK, Start
      <3>2. /\ [task |-> nextId, id |-> id, status |-> "running"] \in TaskInfo
            /\ [task |-> nextId, id |-> id, bulk |-> bulk] \in Worker
        BY <3>1 DEF TaskInfo, Worker, Statuses
      <3>. QED BY <1>2, <2>2, <3>1, <3>2 DEF TypeOK, Start
    <2>3. ASSUME NEW w \in workers, NEW status \in Statuses, Finish(w, status) PROVE TypeOK'
      <3>. DEFINE ended == {IF t.task = w.task THEN [t EXCEPT !.status = status] ELSE t : t \in tasks}
      <3>1. ended \subseteq TaskInfo
        BY <1>2, <2>3 DEF TypeOK, TaskInfo
      <3>2. Pruned(ended) \subseteq ended
        BY PrunedKeepsRunning
      <3>. HIDE DEF ended
      <3>3. tasks' = Pruned(ended) /\ workers' = workers \ {w} /\ nextId' = nextId
        BY <2>3 DEF Finish, ended
      <3>. QED BY <1>2, <3>1, <3>2, <3>3 DEF TypeOK
    <2>4. ASSUME NEW t \in tasks, Dismiss(t) PROVE TypeOK'
      BY <1>2, <2>4 DEF TypeOK, Dismiss
    <2>5. "completed" \in Statuses /\ "failed" \in Statuses /\ Zero \in Ids
      BY TrackerAssumption DEF Statuses
    <2>6. CASE Next
      BY <2>2, <2>3, <2>4, <2>5, <2>6 DEF Next, StartIfNotRunning, StartIfNoActive, Complete, Fail
    <2>. QED BY <1>2, <2>1, <2>6
  <1>. QED BY <1>1, <1>2

\* Whichever runs, each component keeps its invariant: the others are at rest.
BackgroundInv ==
  /\ part \in {"tasks", "raids", "integrity", "news", "layout", "urls"}
  /\ TypeOK /\ RaidsInv /\ IntegrityInv /\ NewsInv /\ LayoutInv /\ UrlInv

LEMMA BackgroundInitInv == BackgroundInit => BackgroundInv
  BY TrackerTyped, RaidsInitInv, IntegrityInitInv, NewsInitInv, LayoutInitInv, UrlInitInv
     DEF BackgroundInit, BackgroundInv

LEMMA BackgroundNextInv ==
  BackgroundInv
    /\ [BackgroundNext]_<<part, vars, raidVars, integrityVars, newsVars, layoutVars, urlVars>>
    => BackgroundInv'
  <1>. SUFFICES ASSUME BackgroundInv,
                       [BackgroundNext]_<<part, vars, raidVars, integrityVars, newsVars, layoutVars, urlVars>>
                PROVE  BackgroundInv'
    OBVIOUS
  <1>1. /\ UNCHANGED part /\ [Next]_vars /\ [RaidsNext]_raidVars
        /\ [IntegrityNext]_integrityVars /\ [NewsNext]_newsVars
        /\ [LayoutNext]_layoutVars /\ [UrlNext]_urlVars
    BY DEF BackgroundNext
  <1>. QED BY <1>1, TrackerTyped, RaidsNextInv, IntegrityNextInv, NewsNextInv, LayoutNextInv, UrlNextInv
           DEF BackgroundInv

\* Every component keeps the types of its state, whichever of them runs.
THEOREM BackgroundTyped == BackgroundSpec => []BackgroundTypeOK
  <1>1. BackgroundInv => BackgroundTypeOK
    BY DEF BackgroundInv, BackgroundTypeOK, RaidsInv, IntegrityInv, NewsInv, LayoutInv, UrlInv
  <1>. QED BY <1>1, BackgroundInitInv, BackgroundNextInv, PTL DEF BackgroundSpec

\* Neither cache of the mods page shows what an operation, once heard of, has made
\* untrue: not the integrity report, not the list of updates.
THEOREM CachesTrue == BackgroundSpec => []CachesAreTrue
  <1>1. BackgroundInv => CachesAreTrue
    BY ReportIsTrue DEF BackgroundInv, NewsInv, CachesAreTrue
  <1>. QED BY <1>1, BackgroundInitInv, BackgroundNextInv, PTL DEF BackgroundSpec

\* A component at rest takes no step, so that a behaviour of the whole is one of each.
LEMMA BackgroundParts ==
  BackgroundSpec => Spec /\ RaidsSpec /\ LayoutSpec /\ UrlSpec
  <1>1. BackgroundInit => Init /\ RaidsInit /\ LayoutInit /\ UrlInit
    BY DEF BackgroundInit
  <1>2. [BackgroundNext]_<<part, vars, raidVars, integrityVars, newsVars, layoutVars, urlVars>>
        => [Next]_vars /\ [RaidsNext]_raidVars /\ [LayoutNext]_layoutVars /\ [UrlNext]_urlVars
    BY DEF BackgroundNext
  <1>. QED BY <1>1, <1>2, PTL DEF BackgroundSpec, Spec, RaidsSpec, LayoutSpec, UrlSpec

\* What the work in the background promises, for any values of all constants: an operation
\* is shown once, if the button dismisses only what has ended (src/src/web/tasks.rs);
\* the pages about raids agree (src/src/db/raids.rs); the caches are true; the folders
\* serve what the groups say (src/src/modsync.rs); a queued archive serves.
THEOREM BackgroundHolds ==
  BackgroundSpec =>
    /\ ~DismissAny => []ShownOnce
    /\ [](RaidsAreTrue /\ CachesAreTrue /\ ArchivesServe)
    /\ LayoutServes
  <1>1. BackgroundSpec => (~DismissAny => []ShownOnce)
    BY BackgroundParts, OnceShown
  <1>2. BackgroundSpec => [](RaidsAreTrue /\ CachesAreTrue /\ ArchivesServe)
    BY BackgroundParts, RaidsTrue, CachesTrue, QueuedArchivesServe, PTL
  <1>3. BackgroundSpec => LayoutServes
    BY BackgroundParts, FoldersServe
  <1>. QED BY <1>1, <1>2, <1>3
=============================================================================
