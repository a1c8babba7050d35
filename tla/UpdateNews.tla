----------------------------- MODULE UpdateNews -----------------------------
(***************************************************************************)
(* What the dashboard knows of newer versions: UpdateCache                 *)
(* (src/src/web/update_cache.rs), the mods page that fills it              *)
(* (src/src/web/handlers/mods.rs), the operations that invalidate it, and  *)
(* the poller that fills it too and tells Discord (src/src/notify.rs).     *)
(* Both read the installed versions, ask the Forge with no lock held and   *)
(* store the answer when it comes, over whatever happened meanwhile.       *)
(***************************************************************************)
EXTENDS Naturals, FiniteSets

CONSTANTS
  Mods,        \* Forge mods
  MaxVersion,  \* bound on their versions
  Pages,       \* requests for the mods page
  Poller,      \* the task of notify.rs
  NoNews       \* no data, no question under way

ASSUME NewsAssumption == MaxVersion \in Nat \ {0} /\ Poller \notin Pages

VARIABLES
  installed,  \* mod -> version, 0 when it is not installed
  offered,    \* mod -> the newest version of the Forge
  cache,      \* the answer in the cache, or NoNews
  asking,     \* asker -> the installed versions it asks for, or NoNews
  seeking,    \* what the poll found, before it filters, or NoNews
  told,       \* the pairs <<mod, version>> announced on Discord
  noted,      \* those that update_notifications names
  overtaken   \* a version changed unheard, or an answer passed an invalidation

newsVars == <<installed, offered, cache, asking, seeking, told, noted, overtaken>>

Versions == 0..MaxVersion
Askers == Pages \cup {Poller}
Answer == [for : [Mods -> Versions], newest : [Mods -> Versions]]

Question == [for : [Mods -> Versions], sent : BOOLEAN]

\* The updates in an answer.
News(a) == {<<m, a.newest[m]>> : m \in {n \in Mods : a.for[n] # 0 /\ a.newest[n] > a.for[n]}}

\* The scripts that Database::open runs; update_notifications is in the fifteenth.
SchemaVersion == 14
HasNotifications == SchemaVersion >= 15

NewsInit ==
  /\ installed = [m \in Mods |-> 0] /\ offered = [m \in Mods |-> 1]
  /\ cache = NoNews
  /\ asking = [a \in Askers |-> NoNews]
  /\ seeking = NoNews /\ told = {} /\ noted = {} /\ overtaken = FALSE

Release(m) ==
  /\ offered[m] < MaxVersion
  /\ offered' = [offered EXCEPT ![m] = @ + 1]
  /\ UNCHANGED <<installed, cache, asking, seeking, told, noted, overtaken>>

\* An install, an update or a removal made by the dashboard invalidates at its end;
\* an answer under way will then be stored all the same.
Kept == cache  \* mutant: the operation forgets to invalidate
Cleared == NoNews
ChangeMod(m) ==
  /\ installed' = [installed EXCEPT ![m] = IF @ # offered[m] THEN offered[m] ELSE 0]
  /\ cache' = Cleared
  /\ overtaken' = (\E a \in Askers : asking[a] # NoNews)
  /\ UNCHANGED <<offered, asking, seeking, told, noted>>

\* Applying the queue, and a command, changes versions and leaves the cache alone.
ChangeUnheard(m) ==
  /\ installed' = [installed EXCEPT ![m] = IF @ # offered[m] THEN offered[m] ELSE 0]
  /\ overtaken' = TRUE
  /\ UNCHANGED <<offered, cache, asking, seeking, told, noted>>

\* get: the data are dropped when their time is over.
Expires ==
  /\ cache # NoNews /\ cache' = NoNews
  /\ overtaken' = (\E a \in Askers : asking[a] # NoNews)
  /\ UNCHANGED <<installed, offered, asking, seeking, told, noted>>

\* The page and the poller list the installed mods,
Look(a) ==
  /\ asking[a] = NoNews
  /\ a = Poller => seeking = NoNews /\ \E m \in Mods : installed[m] # 0
  /\ asking' = [asking EXCEPT ![a] = [for |-> installed, sent |-> FALSE]]
  /\ UNCHANGED <<installed, offered, cache, seeking, told, noted, overtaken>>

\* and ask about them, the page only when the cache has nothing.
Ask(a) ==
  /\ asking[a] # NoNews /\ ~asking[a].sent
  /\ asking' = [asking EXCEPT ![a] =
       IF a \in Pages /\ cache # NoNews THEN NoNews ELSE [@ EXCEPT !.sent = TRUE]]
  /\ UNCHANGED <<installed, offered, cache, seeking, told, noted, overtaken>>

\* The answer comes, and is stored.
Stored(a) == [for |-> asking[a].for, newest |-> offered]
Hear(a) ==
  /\ asking[a] # NoNews /\ asking[a].sent
  /\ cache' = Stored(a)
  /\ seeking' = IF a = Poller THEN News(Stored(a)) ELSE seeking
  /\ asking' = [asking EXCEPT ![a] = NoNews]
  /\ UNCHANGED <<installed, offered, told, noted, overtaken>>

\* The Forge does not answer.
HearNothing(a) ==
  /\ asking[a] # NoNews /\ asking[a].sent
  /\ asking' = [asking EXCEPT ![a] = NoNews]
  /\ UNCHANGED <<installed, offered, cache, seeking, told, noted, overtaken>>

\* The poll drops what the table names; a look-up that fails counts as announced.
\* Then it posts one message per update, ends at the first that fails, and notes
\* them when all are sent.
Unannounced == IF HasNotifications THEN seeking \ noted ELSE {}
Post(sent) ==
  /\ seeking # NoNews
  /\ told' = told \cup sent
  /\ noted' = IF sent = Unannounced THEN noted \cup sent ELSE noted
  /\ seeking' = NoNews
  /\ UNCHANGED <<installed, offered, cache, asking, overtaken>>
Announce == seeking # NoNews /\ \E sent \in SUBSET Unannounced : Post(sent)

NewsNext ==
  \/ \E m \in Mods : Release(m) \/ ChangeMod(m) \/ ChangeUnheard(m)
  \/ Expires
  \/ \E a \in Askers : Look(a) \/ Ask(a) \/ Hear(a) \/ HearNothing(a)
  \/ Announce

NewsSpec == NewsInit /\ [][NewsNext]_newsVars
  \* The ticker does not stop; the Forge and Discord answer the poller now and then.
  /\ WF_newsVars(Look(Poller)) /\ WF_newsVars(Ask(Poller))
  /\ SF_newsVars(Hear(Poller)) /\ SF_newsVars(Post(Unannounced))

------------------------------------------------------------------------------
NewsTypeOK ==
  /\ installed \in [Mods -> Versions] /\ offered \in [Mods -> Versions]
  /\ cache = NoNews \/ cache \in Answer
  /\ asking \in [Askers -> Question \cup {NoNews}]
  /\ seeking = NoNews \/ seeking \subseteq Mods \X Versions
  /\ told \subseteq Mods \X Versions /\ noted \subseteq told /\ overtaken \in BOOLEAN

\* The page shows updates for the versions that are installed, unless an answer was
\* stored over an invalidation, or the versions changed without one.
CachedForInstalled == cache # NoNews /\ ~overtaken => cache.for = installed

\* "so admins hear about updates without watching the dashboard": an update that
\* stays available is announced at some time.
UpdatesAreHeardOf ==
  \A m \in Mods :
    <>[](installed[m] # 0 /\ offered[m] > installed[m]) => <>(\E p \in told : p[1] = m)
=============================================================================
