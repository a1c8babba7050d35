------------------------- MODULE ModZipCacheProofs -------------------------
(***************************************************************************)
(* Proofs about ModZipCache: one rebuild at a time, what a stale archive   *)
(* implies, and that archives only get newer.                              *)
(***************************************************************************)
EXTENDS ModZipCache, TLAPS

\* Somebody is on the way to a rebuild, or will find the flag that asks for one.
Promise ==
  \/ \E c \in Callers : caller[c] # "idle"
  \/ dirty
  \/ \E w \in Workers : worker[w] \in {"invalidate", "mark"}

\* With no rebuild running, a stale archive is promised a rebuild, or one failed.
RestInv == ~rebuilding /\ ~failed /\ ~Fresh => Promise

\* A file list that is about to be published is up to date, or a rebuild is promised.
ListInv == \A w \in Workers : worker[w] = "write" => listed[w] = content \/ Promise

\* Neither a list nor the archive is ahead of the content, nor the archive ahead of
\* a list about to be published.
OrderInv ==
  /\ zip # NoZip => zip <= content
  /\ \A w \in Workers : worker[w] = "write" =>
       listed[w] <= content /\ (zip # NoZip => zip <= listed[w])

IInv == TypeOK /\ OneBuilder /\ RestInv /\ ListInv /\ OrderInv

\* Nothing is installed and nobody is at work.
LEMMA InitInv == Init => IInv
<1> SUFFICES ASSUME Init PROVE IInv
  OBVIOUS
<1>1. TypeOK
  <2>1. content \in Content /\ restarts \in 0..MaxRestarts
    BY CacheAssumption DEF Init, Content
  <2>2. caller \in [Callers -> CallerPhases] /\ worker \in [Workers -> WorkerPhases]
    BY DEF Init, CallerPhases, WorkerPhases
  <2>3. listed \in [Workers -> Content]
    BY <2>1 DEF Init
  <2> QED BY <2>1, <2>2, <2>3 DEF Init, TypeOK
<1>2. OneBuilder
  BY DEF Init, OneBuilder, Building
<1>3. Fresh
  BY CacheAssumption DEF Init, Fresh, Image
<1>4. RestInv /\ ListInv /\ OrderInv
  BY <1>3 DEF Init, RestInv, ListInv, OrderInv
<1> QED BY <1>1, <1>2, <1>4 DEF IInv

\* What is published is not ahead of what it was listed from.
LEMMA ImageOrder ==
  ASSUME NEW v \in Content
  PROVE  Image(v) \in Content \cup {NoZip} /\ (Image(v) # NoZip => Image(v) = v)
  BY DEF Image, Content

\* Every step keeps the types.
LEMMA TypeStep == TypeOK /\ [Next]_vars => TypeOK'
<1> SUFFICES ASSUME TypeOK, [Next]_vars PROVE TypeOK'
  OBVIOUS
<1> USE CacheAssumption DEF TypeOK, Content, CallerPhases, WorkerPhases
<1>1. CASE UNCHANGED vars
  BY <1>1 DEF vars
<1>2. ASSUME NEW c \in Callers, Change(c) \/ CallerStep(c) PROVE TypeOK'
  <2>1. CASE Change(c)
    BY <2>1 DEF Change
  <2>2. CASE CallerStarts(c)
    BY <2>2 DEF CallerStarts, Acquire
  <2>3. CASE CallerFindsRebuild(c) \/ CallerMarks(c)
    BY <2>3 DEF CallerFindsRebuild, CallerMarks, Marked
  <2> QED BY <1>2, <2>1, <2>2, <2>3 DEF CallerStep
<1>3. ASSUME NEW w \in Workers, WorkerStep(w) PROVE TypeOK'
  <2>1. CASE Publish(w)
    <3>1. Image(listed[w]) \in Content \cup {NoZip}
      BY ImageOrder
    <3> QED BY <2>1, <3>1 DEF Publish, Goto
  <2>2. CASE ClearDirty(w) \/ ListFiles(w)
    BY <2>2 DEF ClearDirty, ListFiles, Goto
  <2>3. CASE BuildFails(w) \/ BuildPanics(w)
    BY <2>3 DEF BuildFails, BuildPanics, Goto
  <2>4. CASE SwapDirty(w)
    BY <2>4 DEF SwapDirty, Follow, Goto
  <2>5. CASE WorkerStarts(w) \/ WorkerFindsRebuild(w) \/ WorkerMarks(w)
    BY <2>5 DEF WorkerStarts, WorkerFindsRebuild, WorkerMarks, Acquire, Marked, Goto
  <2> QED BY <1>3, <2>1, <2>2, <2>3, <2>4, <2>5 DEF WorkerStep
<1>4. CASE Restart
  <2>1. restarts' \in 0..MaxRestarts
    BY <1>4 DEF Restart
  <2>2. content' \in Content
    BY <1>4 DEF Restart
  <2>3. caller' \in [Callers -> CallerPhases] /\ worker' \in [Workers -> WorkerPhases]
    BY <1>4 DEF Restart
  <2> QED BY <1>4, <2>1, <2>2, <2>3 DEF Restart
<1> QED BY <1>1, <1>2, <1>3, <1>4 DEF Next

\* The exchange lets one task in, and the guard is dropped by that task only.
LEMMA BuilderStep == TypeOK /\ OneBuilder /\ [Next]_vars => OneBuilder'
<1> SUFFICES ASSUME TypeOK, OneBuilder, [Next]_vars PROVE OneBuilder'
  OBVIOUS
<1> USE DEF TypeOK, OneBuilder, Building
<1>1. CASE UNCHANGED vars
  BY <1>1 DEF vars
<1>2. ASSUME NEW c \in Callers, Change(c) \/ CallerStep(c) PROVE OneBuilder'
  <2>1. CASE CallerStarts(c)
    BY <2>1 DEF CallerStarts, Acquire
  <2>2. CASE Change(c) \/ CallerFindsRebuild(c) \/ CallerMarks(c)
    BY <2>2 DEF Change, CallerFindsRebuild, CallerMarks
  <2> QED BY <1>2, <2>1, <2>2 DEF CallerStep
<1>3. ASSUME NEW w \in Workers, WorkerStep(w) PROVE OneBuilder'
  <2>1. CASE ClearDirty(w) \/ ListFiles(w)
    BY <2>1 DEF ClearDirty, ListFiles, Goto
  <2>2. CASE Publish(w) \/ BuildFails(w) \/ BuildPanics(w)
    BY <2>2 DEF Publish, BuildFails, BuildPanics, Goto
  <2>3. CASE SwapDirty(w) \/ WorkerFindsRebuild(w) \/ WorkerMarks(w)
    BY <2>3 DEF SwapDirty, WorkerFindsRebuild, WorkerMarks, Follow, Goto
  <2>4. CASE WorkerStarts(w)
    BY <2>4 DEF WorkerStarts, Acquire, Goto
  <2> QED BY <1>3, <2>1, <2>2, <2>3, <2>4 DEF WorkerStep
<1>4. CASE Restart
  BY <1>4 DEF Restart
<1> QED BY <1>1, <1>2, <1>3, <1>4 DEF Next

\* A stale archive stays promised a rebuild.  The promise is consumed only by a step
\* that starts a rebuild or by a rebuild that has yet to read its list.
LEMMA PromiseStep ==
  TypeOK /\ OneBuilder /\ RestInv /\ ListInv /\ [Next]_vars => RestInv' /\ ListInv'
<1> SUFFICES ASSUME TypeOK, OneBuilder, RestInv, ListInv, [Next]_vars
             PROVE  RestInv' /\ ListInv'
  OBVIOUS
<1> USE DEF TypeOK, OneBuilder, Building, RestInv, ListInv, Promise, Fresh
<1>1. CASE UNCHANGED vars
  BY <1>1 DEF vars, Image
<1>2. ASSUME NEW c \in Callers, Change(c) \/ CallerStep(c) PROVE RestInv' /\ ListInv'
  <2>1. CASE Change(c) \/ CallerFindsRebuild(c)
    BY <2>1 DEF Change, CallerFindsRebuild
  <2>2. CASE CallerMarks(c)
    BY <2>2 DEF CallerMarks, Marked
  <2>3. CASE CallerStarts(c)
    BY <2>3 DEF CallerStarts, Acquire
  <2> QED BY <1>2, <2>1, <2>2, <2>3 DEF CallerStep
<1>3. ASSUME NEW w \in Workers, WorkerStep(w) PROVE RestInv' /\ ListInv'
  <2>1. CASE ClearDirty(w)
    BY <2>1 DEF ClearDirty, Goto
  <2>2. CASE ListFiles(w)
    BY <2>2 DEF ListFiles, Goto
  <2>3. CASE Publish(w)
    <3>1. \A x \in Workers : worker'[x] # "write"
      BY <2>3 DEF Publish, Goto
    <3>2. listed[w] = content => Fresh'
      BY <2>3 DEF Publish, Image
    <3>3. Promise => Promise'
      BY <2>3 DEF Publish, Goto
    <3> QED BY <2>3, <3>1, <3>2, <3>3 DEF Publish
  <2>4. CASE BuildFails(w) \/ BuildPanics(w)
    BY <2>4 DEF BuildFails, BuildPanics, Goto
  <2>5. CASE SwapDirty(w)
    <3>1. Promise => Promise'
      BY <2>5 DEF SwapDirty, Follow, Goto
    <3>2. \A x \in Workers : worker'[x] = "write" => worker[x] = "write"
      BY <2>5 DEF SwapDirty, Follow, Goto
    <3> QED BY <2>5, <3>1, <3>2 DEF SwapDirty, Image
  <2>6. CASE WorkerStarts(w)
    BY <2>6 DEF WorkerStarts, Acquire, Goto
  <2>7. CASE WorkerFindsRebuild(w) \/ WorkerMarks(w)
    BY <2>7 DEF WorkerFindsRebuild, WorkerMarks, Marked, Goto
  <2> QED BY <1>3, <2>1, <2>2, <2>3, <2>4, <2>5, <2>6, <2>7 DEF WorkerStep
<1>4. CASE Restart
  BY <1>4 DEF Restart
<1> QED BY <1>1, <1>2, <1>3, <1>4 DEF Next

\* Lists are read from the content and the archive is written from lists, one at a time.
LEMMA OrderStep == TypeOK /\ OneBuilder /\ OrderInv /\ [Next]_vars => OrderInv'
<1> SUFFICES ASSUME TypeOK, OneBuilder, OrderInv, [Next]_vars PROVE OrderInv'
  OBVIOUS
<1> USE CacheAssumption DEF TypeOK, OneBuilder, Building, OrderInv, Content
<1>1. CASE UNCHANGED vars
  BY <1>1 DEF vars
<1>2. ASSUME NEW c \in Callers, Change(c) \/ CallerStep(c) PROVE OrderInv'
  BY <1>2 DEF Change, CallerStep, CallerStarts, CallerFindsRebuild, CallerMarks
<1>3. ASSUME NEW w \in Workers, WorkerStep(w) PROVE OrderInv'
  <2>1. CASE Publish(w)
    <3>1. zip' # NoZip => zip' = listed[w]
      BY <2>1, ImageOrder DEF Publish
    <3>2. \A x \in Workers : worker'[x] # "write"
      BY <2>1 DEF Publish, Goto
    <3> QED BY <2>1, <3>1, <3>2 DEF Publish
  <2>2. CASE ListFiles(w)
    BY <2>2 DEF ListFiles, Goto
  <2>3. CASE ~Publish(w) /\ ~ListFiles(w)
    <3>1. UNCHANGED <<zip, content, listed>>
      BY <1>3, <2>3 DEF WorkerStep, ClearDirty, BuildFails, BuildPanics, SwapDirty,
        WorkerStarts, WorkerFindsRebuild, WorkerMarks
    <3>2. \A x \in Workers : worker'[x] = "write" => worker[x] = "write"
      BY <1>3, <2>3 DEF WorkerStep, ClearDirty, BuildFails, BuildPanics, SwapDirty,
        WorkerStarts, WorkerFindsRebuild, WorkerMarks, Goto, Follow
    <3> QED BY <3>1, <3>2
  <2> QED BY <2>1, <2>2, <2>3
<1>4. CASE Restart
  BY <1>4 DEF Restart
<1> QED BY <1>1, <1>2, <1>3, <1>4 DEF Next

\* The conjuncts together are inductive.
LEMMA Inductive == Spec => []IInv
<1>1. IInv /\ [Next]_vars => IInv'
  BY TypeStep, BuilderStep, PromiseStep, OrderStep DEF IInv
<1> QED BY <1>1, InitInv, PTL DEF Spec

\* At most one task writes the temporary file, and the flag says whether one does,
\* for every number of callers and tasks (compare_exchange and the drop guard).
THEOREM Exclusive == Spec => []OneBuilder
  BY Inductive, PTL DEF IInv

\* At rest, a stale archive means that the last rebuild failed or that the dirty flag
\* was left up: the lost wake-up is the only other way.
THEOREM Traced == Spec => []StaleLeavesTrace
<1>1. IInv => StaleLeavesTrace
  BY DEF IInv, StaleLeavesTrace, Quiet, RestInv, Promise, OneBuilder, Building
<1> QED BY <1>1, Inductive, PTL

\* Rebuilds never put back an older archive, whatever runs at the same time.
THEOREM Newer == Spec => NeverOlder
<1> DEFINE A == zip # NoZip /\ zip' # NoZip => zip' >= zip
<1>1. IInv /\ [Next]_vars => [A]_vars
  <2> SUFFICES ASSUME IInv, Next PROVE A
    BY DEF vars
  <2> USE CacheAssumption DEF IInv, TypeOK, Content
  <2>1. ASSUME NEW w \in Workers, Publish(w) PROVE A
    BY <2>1, ImageOrder DEF Publish, OrderInv
  <2>2. CASE \A w \in Workers : ~Publish(w)
    <3>1. zip' = zip
      BY <2>2 DEF Next, Change, CallerStep, CallerStarts, CallerFindsRebuild, CallerMarks,
        WorkerStep, ClearDirty, ListFiles, BuildFails, BuildPanics, SwapDirty, WorkerStarts,
        WorkerFindsRebuild, WorkerMarks, Restart
    <3> QED BY <3>1
  <2> QED BY <2>1, <2>2
<1> QED BY <1>1, Inductive, PTL DEF Spec, NeverOlder
=============================================================================
