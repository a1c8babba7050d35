----------------------------- MODULE GameServer -----------------------------
(***************************************************************************)
(* The containers of the game server and of its headless client, as the    *)
(* dashboard and the command line control them (src/src/container.rs,      *)
(* src/src/web/handlers/server.rs and clients.rs, src/src/cli/server.rs,   *)
(* src/src/cli/serve.rs), and the presets of the SVM mod that the server   *)
(* reads when it starts (src/src/svm/mod.rs, src/src/web/handlers/svm.rs). *)
(* A preset has sections the dashboard edits and keys it does not know.    *)
(***************************************************************************)
EXTENDS Naturals, FiniteSets

CONSTANTS
  Presets,     \* names of presets
  FirstPreset, \* the one that is active at first; it has an unknown key
  SvmSections, \* sections of a preset
  SvmValues,   \* what a section may hold
  SvmDefault,  \* what it holds in a new preset
  Unreadable,  \* presets put there by hand that do not deserialize; they have a key too
  Handlers,    \* requests of the dashboard
  OnExit,      \* on_exit: "nothing", "stop", "remove"
  MaxEdits,    \* bound on the requests ever made
  NoFile       \* no preset; no request

VARIABLES
  box,        \* container -> up, down, gone
  transition, \* what the dashboard shows the server to be doing
  request,    \* handler -> what it is doing, or NoFile
  dashboard,  \* off, on
  presetFile, \* preset -> [conf, extra, reads], or NoFile
  loader,     \* CurrentlySelectedPreset in loader.json
  svm,        \* SvmManager: [active, conf, extra, listed, dirty]
  given,      \* preset -> the unknown keys it was given
  imported,   \* memory holds an import under another name
  edits       \* how many requests were made

boxVars == <<box, transition>>
svmVars == <<presetFile, loader, svm, given, imported>>
serverVars == <<boxVars, request, dashboard, svmVars, edits>>

Boxes == {"server", "headless"}
Settled == "settled"
Conf == [SvmSections -> SvmValues]
DefaultConf == [s \in SvmSections |-> SvmDefault]
PresetFile == [conf : Conf, extra : SUBSET Presets, reads : BOOLEAN]
OnDisk == {p \in Presets : presetFile[p] # NoFile}

\* Requests that control a container, and saves of a section.
Control == [at : {"stop", "start", "started"}, box : Boxes, verb : {"start", "stop", "restart"}]
Save == [at : {"edit"}, section : SvmSections, value : SvmValues, copy : Conf]

ASSUME ServerAssumption ==
  /\ FirstPreset \in Presets \ Unreadable /\ SvmDefault \in SvmValues /\ Unreadable \subseteq Presets
  /\ OnExit \in {"nothing", "stop", "remove"} /\ MaxEdits \in Nat
  /\ NoFile \notin Presets /\ NoFile \notin PresetFile \cup Control \cup Save

ServerTypeOK ==
  /\ box \in [Boxes -> {"up", "down", "gone"}] /\ dashboard \in {"on", "off"}
  /\ transition \in {Settled, "starting", "stopping", "restarting"}
  /\ request \in [Handlers -> Control \cup Save \cup {NoFile}] /\ edits \in 0..MaxEdits
  /\ presetFile \in [Presets -> PresetFile \cup {NoFile}] /\ given \in [Presets -> SUBSET Presets]
  /\ svm \in [active : OnDisk, conf : Conf, extra : SUBSET Presets, listed : SUBSET Presets, dirty : BOOLEAN]
  /\ loader \in Presets /\ imported \in BOOLEAN

Ask(h, r) ==
  /\ dashboard = "on" /\ request[h] = NoFile
  /\ edits < MaxEdits /\ edits' = edits + 1
  /\ request' = [request EXCEPT ![h] = r]
Awaits(h, at) == request[h] # NoFile /\ request[h].at = at
Answer(h) == request' = [request EXCEPT ![h] = NoFile]
Lifecycle(at, b, verb) == [at |-> at, box |-> b, verb |-> verb]

------------------------------------------------------------------------------
(* The containers                                                          *)

Verbs == {"start", "stop", "restart"}
Showing == [start |-> "starting", stop |-> "stopping", restart |-> "restarting"]

\* start_server, stop_server, restart_server; the headless shows no transition.
AskServer(h, verb) ==
  /\ Ask(h, Lifecycle(IF verb = "start" THEN "start" ELSE "stop", "server", verb))
  /\ transition' = Showing[verb]
  /\ UNCHANGED <<box, dashboard, svmVars>>

HeadlessLifecycle(h, verb) ==
  /\ Ask(h, Lifecycle(IF verb = "start" THEN "start" ELSE "stop", "headless", verb))
  /\ UNCHANGED <<boxVars, dashboard, svmVars>>

\* What is running stays so, what is stopped too; a container that is gone fails.
StartBox(b) == box' = [box EXCEPT ![b] = "up"]
StopBox(b) == box' = [box EXCEPT ![b] = "down"]

\* At its end a handler of the server takes the transition back, on every path.
EndTransition(h) == transition' = IF request[h].box = "server" THEN Settled ELSE transition

\* A restart whose stop fails is over; its drain is in ChangeQueue.
HandlerStops(h) ==
  LET r == request[h] IN
  /\ Awaits(h, "stop")
  /\ \/ /\ box[r.box] # "gone" /\ StopBox(r.box)
        /\ IF r.verb = "restart"
           THEN request' = [request EXCEPT ![h].at = "start"] /\ UNCHANGED transition
           ELSE Answer(h) /\ EndTransition(h)
     \/ UNCHANGED box /\ Answer(h) /\ EndTransition(h)
  /\ UNCHANGED <<dashboard, svmVars, edits>>

\* The container runs before the handler hears of it; saves may come between.
HandlerStarts(h) ==
  LET r == request[h] IN
  /\ Awaits(h, "start")
  /\ \/ /\ box[r.box] # "gone" /\ StartBox(r.box)
        /\ request' = [request EXCEPT ![h].at = "started"] /\ UNCHANGED transition
     \/ UNCHANGED box /\ Answer(h) /\ EndTransition(h)
  /\ UNCHANGED <<dashboard, svmVars, edits>>

HandlerEnds(h) ==
  /\ Awaits(h, "started") /\ Answer(h) /\ EndTransition(h)
  /\ svm' = IF request[h].box = "server" THEN [svm EXCEPT !.dirty = FALSE] ELSE svm
  /\ UNCHANGED <<box, dashboard, presetFile, loader, given, imported, edits>>

\* quma server start, stop and restart, each call on its own; Fika that restarts
\* its headless; Docker.
FromOutside ==
  /\ \E b \in Boxes : box[b] # "gone" /\ (StartBox(b) \/ StopBox(b))
  /\ UNCHANGED <<transition, request, dashboard, svmVars, edits>>

\* Before it exits, serve stops or removes what it labelled, each or not.
TearDown ==
  /\ dashboard = "on" /\ dashboard' = "off"
  /\ request' = [h \in Handlers |-> NoFile] /\ transition' = Settled
  /\ \E taken \in SUBSET {b \in Boxes : OnExit # "nothing" /\ box[b] # "gone"} :
       box' = [b \in Boxes |-> IF b \notin taken THEN box[b] ELSE IF OnExit = "stop" THEN "down" ELSE "gone"]
  /\ UNCHANGED <<svmVars, edits>>

------------------------------------------------------------------------------
(* The presets                                                             *)

Loads(p) == p \in OnDisk /\ presetFile[p].reads
Loaded(p, listed, dirty) ==
  [active |-> p, conf |-> presetFile[p].conf, extra |-> presetFile[p].extra, listed |-> listed, dirty |-> dirty]

ServerInit ==
  /\ box = [b \in Boxes |-> "down"] /\ transition = Settled
  /\ request = [h \in Handlers |-> NoFile] /\ dashboard = "on"
  /\ presetFile = [p \in Presets |->
       IF p \in {FirstPreset} \cup Unreadable
       THEN [conf |-> DefaultConf, extra |-> {p}, reads |-> p \notin Unreadable] ELSE NoFile]
  /\ given = [p \in Presets |-> IF p \in {FirstPreset} \cup Unreadable THEN {p} ELSE {}]
  /\ loader = FirstPreset /\ imported = FALSE /\ edits = 0
  /\ svm = [active |-> FirstPreset, conf |-> DefaultConf, extra |-> {FirstPreset},
            listed |-> {FirstPreset} \cup Unreadable, dirty |-> FALSE]

\* detect, when the dashboard starts: without a preset that loads there is no SVM page.
\* auto_start_server starts the server too.
ServeStarts ==
  /\ dashboard = "off" /\ Loads(loader) /\ dashboard' = "on"
  /\ svm' = Loaded(loader, OnDisk, FALSE) /\ imported' = FALSE
  /\ \/ box["server"] # "gone" /\ StartBox("server")
     \/ UNCHANGED box
  /\ UNCHANGED <<transition, request, presetFile, loader, given, edits>>

\* Mutant: only what is known is written.
DeepMergeTyped(c) == [conf |-> c, extra |-> {}, reads |-> TRUE]

\* A whole preset is written, over the keys of the one in memory: deep_merge.
DeepMerge(c) == [conf |-> c, extra |-> svm.extra, reads |-> TRUE]
SavePreset(p, c) ==
  /\ presetFile' = [presetFile EXCEPT ![p] = DeepMerge(c)]
  /\ svm' = [svm EXCEPT !.conf = c, !.dirty = TRUE]

\* save_section: the configuration is copied, then edited without the lock, then
\* saved under the name that is active by then.
CopyConf(h, s, v) ==
  /\ Ask(h, [at |-> "edit", section |-> s, value |-> v, copy |-> svm.conf])
  /\ UNCHANGED <<boxVars, dashboard, svmVars>>

SaveSection(h) ==
  LET r == request[h] IN
  /\ Awaits(h, "edit") /\ Answer(h)
  /\ SavePreset(svm.active, [r.copy EXCEPT ![r.section] = r.value])
  /\ imported' = FALSE
  /\ UNCHANGED <<boxVars, dashboard, loader, given, edits>>

FailSave(h) ==
  /\ Awaits(h, "edit") /\ Answer(h)
  /\ UNCHANGED <<boxVars, dashboard, svmVars, edits>>

Edit == dashboard = "on" /\ edits < MaxEdits /\ edits' = edits + 1

\* set_active_preset: loader.json first, then the preset, which may not load.
SetActivePreset(p) ==
  /\ Edit /\ p \in svm.listed
  /\ loader' = p
  /\ IF Loads(p) THEN svm' = Loaded(p, svm.listed, svm.dirty) /\ imported' = FALSE
     ELSE UNCHANGED <<svm, imported>>
  /\ UNCHANGED <<boxVars, request, dashboard, presetFile, given>>

CreatePreset(p) ==
  /\ Edit /\ p \notin svm.listed
  /\ presetFile' = [presetFile EXCEPT ![p] = [conf |-> DefaultConf, extra |-> {}, reads |-> TRUE]]
  /\ given' = [given EXCEPT ![p] = {}]
  /\ svm' = [svm EXCEPT !.listed = @ \cup {p}]
  /\ UNCHANGED <<boxVars, request, dashboard, loader, imported>>

DuplicatePreset(p, q) ==
  /\ Edit /\ p \in svm.listed \cap OnDisk /\ q \notin svm.listed
  /\ presetFile' = [presetFile EXCEPT ![q] = presetFile[p]]
  /\ given' = [given EXCEPT ![q] = given[p]]
  /\ svm' = [svm EXCEPT !.listed = @ \cup {q}]
  /\ UNCHANGED <<boxVars, request, dashboard, loader, imported>>

\* Only the preset that is active in memory is kept, not the one in loader.json.
DeletePreset(p) ==
  /\ Edit /\ p \in OnDisk /\ p # svm.active
  /\ presetFile' = [presetFile EXCEPT ![p] = NoFile]
  /\ given' = [given EXCEPT ![p] = {}]
  /\ svm' = [svm EXCEPT !.listed = @ \ {p}]
  /\ UNCHANGED <<boxVars, request, dashboard, loader, imported>>

\* An import is a save under another name: neither listed nor active, and yet what
\* the pages show from then on.
ImportPreset(p, c) ==
  /\ Edit
  /\ SavePreset(p, c)
  /\ given' = [given EXCEPT ![p] = svm.extra]
  /\ imported' = (p # svm.active)
  /\ UNCHANGED <<boxVars, request, dashboard, loader>>

\* The list is renewed also when the preset does not load.
ReloadFromDisk ==
  /\ Edit
  /\ IF Loads(loader) THEN svm' = Loaded(loader, OnDisk, FALSE) /\ imported' = FALSE
     ELSE svm' = [svm EXCEPT !.listed = OnDisk] /\ UNCHANGED imported
  /\ UNCHANGED <<boxVars, request, dashboard, presetFile, loader, given>>

------------------------------------------------------------------------------
ServerNext ==
  \/ \E h \in Handlers :
       \/ \E verb \in Verbs : AskServer(h, verb) \/ HeadlessLifecycle(h, verb)
       \/ HandlerStops(h) \/ HandlerStarts(h) \/ HandlerEnds(h)
       \/ \E s \in SvmSections, v \in SvmValues : CopyConf(h, s, v)
       \/ SaveSection(h) \/ FailSave(h)
  \/ FromOutside \/ TearDown \/ ServeStarts \/ ReloadFromDisk
  \/ \E p \in Presets :
       \/ SetActivePreset(p) \/ CreatePreset(p) \/ DeletePreset(p)
       \/ \E q \in Presets : DuplicatePreset(p, q)
       \/ \E c \in Conf : ImportPreset(p, c)

ServerSpec == ServerInit /\ [][ServerNext]_serverVars

------------------------------------------------------------------------------
\* Whichever of the calls of a start, a stop or a restart fails, and whoever else
\* acts on the server: when no handler is at work, no transition is shown.
TransitionEnds ==
  (\A h \in Handlers : request[h] # NoFile => request[h].at = "edit" \/ request[h].box # "server")
    => transition = Settled

\* Whatever is saved meanwhile, a preset keeps the keys the dashboard does not know.
UnknownFieldsStay == \A p \in OnDisk : presetFile[p].extra = given[p]

\* Whatever is switched, saved, deleted, reloaded or fails meanwhile, the pages show
\* the active preset as it is on disk, until something is imported under another name.
ShownIsActive ==
  dashboard = "on" /\ ~imported =>
    [conf |-> svm.conf, extra |-> svm.extra, reads |-> TRUE] = presetFile[svm.active]

ServerPagesHold == TransitionEnds /\ UnknownFieldsStay /\ ShownIsActive
=============================================================================
