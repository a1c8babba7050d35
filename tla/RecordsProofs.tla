---------------------------- MODULE RecordsProofs ----------------------------
(* Theorems about the game server, addons, requests, backups and logs       *)
(* (GameServer, AddonChanges, RequestBoard, Backups, Logs), for any values  *)
(* of their constants; and about MCRecords, where all the records stand     *)
(* side by side: what was proved of each component holds of the whole.      *)
EXTENDS MCRecords, AdminProofs, FolderProofs

(***************************************************************************)
(* The game server and its presets                                         *)
(***************************************************************************)

\* The requests and the containers, and what is shown of them.
BoxInv ==
  /\ box \in [Boxes -> {"up", "down", "gone"}] /\ dashboard \in {"on", "off"}
  /\ transition \in {Settled, "starting", "stopping", "restarting"}
  /\ request \in [Handlers -> Control \cup Save \cup {NoFile}] /\ edits \in 0..MaxEdits
  /\ TransitionEnds

\* The presets: what memory has is listed, and the keys in memory are those that the
\* active preset was given, also while another import is shown.
PresetInv ==
  /\ presetFile \in [Presets -> PresetFile \cup {NoFile}] /\ given \in [Presets -> SUBSET Presets]
  /\ svm \in [active : OnDisk, conf : Conf, extra : SUBSET Presets, listed : SUBSET Presets, dirty : BOOLEAN]
  /\ loader \in Presets /\ imported \in BOOLEAN
  /\ svm.active \in svm.listed /\ svm.extra = given[svm.active]
  /\ UnknownFieldsStay /\ ShownIsActive

ServerInv == BoxInv /\ PresetInv

LEMMA ServerInitInv == ServerInit => ServerInv
  <1>. SUFFICES ASSUME ServerInit PROVE ServerInv
    OBVIOUS
  <1>. USE ServerAssumption DEF ServerInit
  <1>1. DefaultConf \in Conf
    BY DEF DefaultConf, Conf
  <1>2. BoxInv
    BY DEF BoxInv, TransitionEnds, Settled
  <1>3. \A p \in {FirstPreset} \cup Unreadable :
          /\ p \in Presets
          /\ presetFile[p] = [conf |-> DefaultConf, extra |-> {p}, reads |-> p \notin Unreadable]
          /\ presetFile[p] \in PresetFile
    BY <1>1 DEF PresetFile
  <1>4. \A p \in Presets : p \notin {FirstPreset} \cup Unreadable => presetFile[p] = NoFile
    OBVIOUS
  <1>5. /\ presetFile \in [Presets -> PresetFile \cup {NoFile}] /\ FirstPreset \in OnDisk
        /\ OnDisk = {FirstPreset} \cup Unreadable
    <2>1. \A p \in Presets : presetFile[p] \in PresetFile \cup {NoFile}
      BY <1>3, <1>4
    <2>2. presetFile \in [Presets -> PresetFile \cup {NoFile}]
      BY <2>1
    <2>3. OnDisk = {FirstPreset} \cup Unreadable
      <3>1. \A p \in Presets : p \in OnDisk <=> p \in {FirstPreset} \cup Unreadable
        BY ONLY <1>3, <1>4, ServerAssumption DEF OnDisk
      <3>. QED BY <3>1, <1>3 DEF OnDisk
    <2>. QED BY <2>2, <2>3
  <1>6. /\ given \in [Presets -> SUBSET Presets] /\ loader \in Presets /\ imported \in BOOLEAN
        /\ svm \in [active : OnDisk, conf : Conf, extra : SUBSET Presets, listed : SUBSET Presets, dirty : BOOLEAN]
    BY <1>1, <1>5
  <1>7. UnknownFieldsStay
    BY <1>3, <1>5 DEF UnknownFieldsStay
  <1>8. ShownIsActive
    BY <1>3 DEF ShownIsActive
  <1>9. svm.active \in svm.listed /\ svm.extra = given[svm.active]
    OBVIOUS
  <1>. QED BY <1>2, <1>5, <1>6, <1>7, <1>8, <1>9 DEF ServerInv, PresetInv

\* A step that leaves the presets alone keeps their part; the dashboard may stop.
LEMMA PresetsRest ==
  ASSUME PresetInv, UNCHANGED svmVars, dashboard' \in {dashboard, "off"}
  PROVE  PresetInv'
  BY DEF PresetInv, svmVars, OnDisk, UnknownFieldsStay, ShownIsActive

\* What a request is, by its record.
LEMMA RequestFields ==
  /\ \A x \in Save : x # NoFile /\ x.at = "edit" /\ x.section \in SvmSections /\ x.value \in SvmValues /\ x.copy \in Conf
  /\ \A x \in Control : x # NoFile /\ x.at \in {"stop", "start", "started"} /\ x.box \in Boxes /\ x.verb \in Verbs
  BY ServerAssumption DEF Save, Control, Verbs

\* A request that is about the server's container.
AtServer(x) == x # NoFile /\ x.at # "edit" /\ x.box = "server"

LEMMA TransitionEndsAlt == TransitionEnds <=> \/ transition = Settled
                                              \/ \E h \in Handlers : AtServer(request[h])
  BY DEF TransitionEnds, AtServer

\* A step in which saves at most come and go among the requests.
LEMMA BoxesRest ==
  ASSUME BoxInv, request' \in [Handlers -> Control \cup Save \cup {NoFile}],
         \A h \in Handlers : request'[h] = request[h] \/ request[h] \in Save \cup {NoFile},
         UNCHANGED <<boxVars, dashboard>>, edits' \in 0..MaxEdits
  PROVE  BoxInv'
  <1>1. \A h \in Handlers : AtServer(request[h]) => AtServer(request'[h])
    BY RequestFields DEF AtServer
  <1>2. TransitionEnds'
    BY <1>1, TransitionEndsAlt DEF BoxInv, TransitionEnds, AtServer, boxVars
  <1>. QED BY <1>2 DEF BoxInv, boxVars

\* A handler puts a new request down.
LEMMA AskKeeps ==
  ASSUME BoxInv, NEW h \in Handlers, NEW r \in Control \cup Save, Ask(h, r)
  PROVE  /\ request' \in [Handlers -> Control \cup Save \cup {NoFile}] /\ edits' \in 0..MaxEdits
         /\ request'[h] = r /\ request[h] = NoFile
         /\ \A g \in Handlers : g # h => request'[g] = request[g]
  BY ServerAssumption DEF Ask, BoxInv

LEMMA AskBoxKeeps ==
  ASSUME BoxInv, NEW h \in Handlers, NEW verb \in Verbs,
         AskServer(h, verb) \/ HeadlessLifecycle(h, verb)
  PROVE  BoxInv'
  <1>1. ASSUME NEW b \in Boxes
        PROVE  Lifecycle(IF verb = "start" THEN "start" ELSE "stop", b, verb) \in Control
    BY DEF Lifecycle, Control, Verbs
  <1>2. CASE AskServer(h, verb)
    <2>. DEFINE r == Lifecycle(IF verb = "start" THEN "start" ELSE "stop", "server", verb)
    <2>1. r \in Control /\ AtServer(r)
      BY <1>1, RequestFields DEF Boxes, AtServer, Lifecycle
    <2>2. Ask(h, r) /\ transition' = Showing[verb] /\ UNCHANGED <<box, dashboard>>
      BY <1>2 DEF AskServer
    <2>. HIDE DEF r
    <2>3. /\ request' \in [Handlers -> Control \cup Save \cup {NoFile}] /\ edits' \in 0..MaxEdits
          /\ request'[h] = r
      BY <2>1, <2>2, AskKeeps
    <2>4. transition' \in {"starting", "stopping", "restarting"}
      BY <2>2 DEF Showing, Verbs
    <2>5. TransitionEnds'
      BY <2>1, <2>3 DEF TransitionEnds, AtServer
    <2>. QED BY <2>2, <2>3, <2>4, <2>5 DEF BoxInv
  <1>3. CASE HeadlessLifecycle(h, verb)
    <2>. DEFINE r == Lifecycle(IF verb = "start" THEN "start" ELSE "stop", "headless", verb)
    <2>1. r \in Control
      BY <1>1 DEF Boxes
    <2>2. Ask(h, r) /\ UNCHANGED <<boxVars, dashboard>>
      BY <1>3 DEF HeadlessLifecycle
    <2>. HIDE DEF r
    <2>. QED BY <2>1, <2>2, AskKeeps, BoxesRest
  <1>. QED BY <1>2, <1>3

\* The end of a request: a handler of the server leaves nothing shown.
LEMMA EndKeeps ==
  ASSUME BoxInv, NEW h \in Handlers, request[h] # NoFile, Answer(h), EndTransition(h),
         box' \in [Boxes -> {"up", "down", "gone"}], UNCHANGED <<dashboard, edits>>
  PROVE  BoxInv'
  <1>1. /\ request' \in [Handlers -> Control \cup Save \cup {NoFile}]
        /\ \A g \in Handlers : g # h => request'[g] = request[g]
    BY DEF Answer, BoxInv
  <1>2. transition' \in {transition, Settled} /\ (AtServer(request[h]) => transition' = Settled)
    BY DEF EndTransition, AtServer
  <1>3. TransitionEnds'
    <2>1. CASE transition' = Settled
      BY <2>1 DEF TransitionEnds
    <2>2. CASE transition' # Settled
      <3>1. transition' = transition /\ ~AtServer(request[h])
        BY <1>2, <2>2
      <3>2. PICK g \in Handlers : AtServer(request[g])
        BY <2>2, <3>1, TransitionEndsAlt DEF BoxInv
      <3>. QED BY <1>1, <3>1, <3>2 DEF TransitionEnds, AtServer
    <2>. QED BY <2>1, <2>2
  <1>. QED BY <1>1, <1>2, <1>3 DEF BoxInv, Settled

\* A handler goes on with the same container: it stays at the server if it was.
LEMMA GoesOnKeeps ==
  ASSUME BoxInv, NEW h \in Handlers, request[h] \in Control, NEW at \in {"stop", "start", "started"},
         request' = [request EXCEPT ![h].at = at],
         box' \in [Boxes -> {"up", "down", "gone"}], UNCHANGED <<transition, dashboard, edits>>
  PROVE  BoxInv'
  <1>. DEFINE r == [request[h] EXCEPT !.at = at]
  <1>1. r \in Control /\ r.box = request[h].box /\ r.at # "edit"
    BY DEF Control
  <1>2. request' = [request EXCEPT ![h] = r]
    OBVIOUS
  <1>. HIDE DEF r
  <1>3. /\ request' \in [Handlers -> Control \cup Save \cup {NoFile}] /\ request'[h] = r
        /\ \A g \in Handlers : g # h => request'[g] = request[g]
    BY <1>1, <1>2 DEF BoxInv
  <1>4. AtServer(request[h]) => AtServer(r)
    BY <1>1, RequestFields DEF AtServer
  <1>5. TransitionEnds'
    BY <1>3, <1>4, TransitionEndsAlt DEF BoxInv, TransitionEnds, AtServer
  <1>. QED BY <1>3, <1>5 DEF BoxInv

\* Who is asked to stop or to start, or has started, is not a save.
LEMMA ControlOnly ==
  ASSUME BoxInv, NEW h \in Handlers, NEW at \in {"stop", "start", "started"}, Awaits(h, at)
  PROVE  request[h] \in Control /\ request[h] # NoFile /\ request[h].box \in Boxes
  BY RequestFields DEF BoxInv, Awaits

LEMMA HandlerKeeps ==
  ASSUME BoxInv, NEW h \in Handlers, HandlerStops(h) \/ HandlerStarts(h) \/ HandlerEnds(h)
  PROVE  BoxInv'
  <1>0. \A b \in Boxes : StartBox(b) \/ StopBox(b) => box' \in [Boxes -> {"up", "down", "gone"}]
    BY DEF BoxInv, StartBox, StopBox
  <1>1. CASE HandlerStops(h)
    <2>1. request[h] \in Control /\ request[h] # NoFile /\ request[h].box \in Boxes
      BY <1>1, ControlOnly DEF HandlerStops
    <2>2. box' \in [Boxes -> {"up", "down", "gone"}] /\ UNCHANGED <<dashboard, edits>>
      BY <1>0, <1>1, <2>1 DEF HandlerStops, BoxInv
    <2>3. \/ request' = [request EXCEPT ![h].at = "start"] /\ UNCHANGED transition
          \/ Answer(h) /\ EndTransition(h)
      BY <1>1 DEF HandlerStops
    <2>. QED BY <2>1, <2>2, <2>3, EndKeeps, GoesOnKeeps
  <1>2. CASE HandlerStarts(h)
    <2>1. request[h] \in Control /\ request[h] # NoFile /\ request[h].box \in Boxes
      BY <1>2, ControlOnly DEF HandlerStarts
    <2>2. box' \in [Boxes -> {"up", "down", "gone"}] /\ UNCHANGED <<dashboard, edits>>
      BY <1>0, <1>2, <2>1 DEF HandlerStarts, BoxInv
    <2>3. \/ request' = [request EXCEPT ![h].at = "started"] /\ UNCHANGED transition
          \/ Answer(h) /\ EndTransition(h)
      BY <1>2 DEF HandlerStarts
    <2>. QED BY <2>1, <2>2, <2>3, EndKeeps, GoesOnKeeps
  <1>3. CASE HandlerEnds(h)
    <2>1. request[h] # NoFile /\ Answer(h) /\ EndTransition(h) /\ UNCHANGED <<box, dashboard, edits>>
      BY <1>3 DEF HandlerEnds, Awaits
    <2>. QED BY <2>1, EndKeeps DEF BoxInv
  <1>. QED BY <1>1, <1>2, <1>3

\* Before the dashboard exits it forgets its requests; it may start again with what
\* the disk has.
LEMMA TearDownKeeps == ASSUME BoxInv, TearDown PROVE BoxInv'
  <1>1. request' = [h \in Handlers |-> NoFile] /\ transition' = Settled /\ dashboard' = "off" /\ edits' = edits
    BY DEF TearDown
  <1>2. box' \in [Boxes -> {"up", "down", "gone"}]
    BY DEF TearDown, BoxInv
  <1>. QED BY <1>1, <1>2 DEF BoxInv, TransitionEnds, Settled

LEMMA OutsideKeeps == ASSUME BoxInv, FromOutside PROVE BoxInv'
  BY DEF BoxInv, FromOutside, StartBox, StopBox, TransitionEnds

LEMMA ServeBoxKeeps == ASSUME BoxInv, ServeStarts PROVE BoxInv'
  <1>1. /\ box' \in [Boxes -> {"up", "down", "gone"}] /\ dashboard' \in {"on", "off"}
        /\ UNCHANGED <<request, transition, edits>>
    BY DEF BoxInv, ServeStarts, StartBox, Boxes
  <1>. QED BY <1>1 DEF BoxInv, TransitionEnds

------------------------------------------------------------------------------
(* Presets                                                                 *)

\* What is on disk, and what memory has of a preset that was loaded.
LEMMA DiskFields ==
  ASSUME PresetInv
  PROVE  /\ \A p \in OnDisk : p \in Presets /\ presetFile[p] \in PresetFile /\ presetFile[p].extra = given[p]
         /\ \A p \in Presets \ OnDisk : presetFile[p] = NoFile
         /\ svm.active \in OnDisk /\ svm.conf \in Conf /\ svm.extra \subseteq Presets /\ svm.listed \subseteq Presets
         /\ svm.dirty \in BOOLEAN
  BY DEF PresetInv, OnDisk, UnknownFieldsStay

\* What memory holds is replaced by a preset that loads, with whatever list names it.
LEMMA LoadKeeps ==
  ASSUME PresetInv, NEW p, Loads(p), NEW listed \in SUBSET Presets, p \in listed, NEW dirty \in BOOLEAN,
         svm' = Loaded(p, listed, dirty), imported' = FALSE, loader' \in Presets,
         UNCHANGED <<presetFile, given>>
  PROVE  PresetInv'
  <1>1. p \in OnDisk /\ presetFile[p] \in PresetFile /\ presetFile[p].extra = given[p] /\ presetFile[p].reads = TRUE
    BY DiskFields DEF Loads, PresetFile
  <1>2. /\ svm'.active = p /\ svm'.conf = presetFile[p].conf /\ svm'.extra = presetFile[p].extra
        /\ svm'.listed = listed
        /\ svm' \in [active : OnDisk, conf : Conf, extra : SUBSET Presets, listed : SUBSET Presets, dirty : BOOLEAN]
    BY <1>1 DEF Loaded, PresetFile
  <1>3. OnDisk' = OnDisk
    BY DEF OnDisk
  <1>4. ShownIsActive'
    <2>1. presetFile[p] = [conf |-> presetFile[p].conf, extra |-> presetFile[p].extra, reads |-> TRUE]
      BY <1>1 DEF PresetFile
    <2>. QED BY <1>2, <2>1 DEF ShownIsActive
  <1>. QED BY <1>1, <1>2, <1>3, <1>4 DEF PresetInv, UnknownFieldsStay

\* The list of presets changes, and files of presets that are not the active one.
LEMMA FileKeeps ==
  ASSUME PresetInv, NEW p \in Presets, p # svm.active,
         NEW f \in PresetFile \cup {NoFile}, NEW g \in SUBSET Presets, f # NoFile => f.extra = g,
         presetFile' = [presetFile EXCEPT ![p] = f], given' = [given EXCEPT ![p] = g],
         NEW listed \in SUBSET Presets, svm.active \in listed, svm' = [svm EXCEPT !.listed = listed],
         loader' \in Presets, UNCHANGED <<imported, dashboard>>
  PROVE  PresetInv'
  <1>1. /\ presetFile' \in [Presets -> PresetFile \cup {NoFile}] /\ given' \in [Presets -> SUBSET Presets]
        /\ presetFile'[p] = f /\ given'[p] = g
        /\ \A q \in Presets : q # p => presetFile'[q] = presetFile[q] /\ given'[q] = given[q]
    BY DEF PresetInv
  <1>2. \A q \in OnDisk' : presetFile'[q].extra = given'[q]
    BY <1>1, DiskFields DEF OnDisk
  <1>3. svm.active \in OnDisk'
    BY <1>1, DiskFields DEF OnDisk
  <1>4. /\ svm'.active = svm.active /\ svm'.conf = svm.conf /\ svm'.extra = svm.extra /\ svm'.listed = listed
        /\ svm' \in [active : OnDisk', conf : Conf, extra : SUBSET Presets, listed : SUBSET Presets, dirty : BOOLEAN]
    BY <1>3 DEF PresetInv
  <1>5. presetFile'[svm.active] = presetFile[svm.active] /\ given'[svm.active] = given[svm.active]
    BY <1>1, DiskFields
  <1>6. ShownIsActive'
    BY <1>4, <1>5 DEF ShownIsActive, PresetInv
  <1>. QED BY <1>1, <1>2, <1>4, <1>5, <1>6 DEF PresetInv, UnknownFieldsStay

\* A whole preset is written over the keys in memory: to the active preset, or to
\* another, which is then an import.
LEMMA SaveKeeps ==
  ASSUME PresetInv, NEW p \in Presets, NEW c \in Conf, SavePreset(p, c),
         given' = [given EXCEPT ![p] = svm.extra], imported' = (p # svm.active), loader' \in Presets
  PROVE  PresetInv'
  <1>. DEFINE f == DeepMerge(c)
  <1>1. /\ f \in PresetFile /\ f.extra = svm.extra
        /\ f = [conf |-> c, extra |-> svm.extra, reads |-> TRUE]
    BY DiskFields DEF DeepMerge, PresetFile
  <1>2. f # NoFile
    BY <1>1, ServerAssumption
  <1>3. /\ presetFile' = [presetFile EXCEPT ![p] = f]
        /\ svm' = [svm EXCEPT !.conf = c, !.dirty = TRUE]
    BY DEF SavePreset
  <1>. HIDE DEF f
  <1>4. /\ presetFile' \in [Presets -> PresetFile \cup {NoFile}] /\ given' \in [Presets -> SUBSET Presets]
        /\ presetFile'[p] = f /\ given'[p] = svm.extra
        /\ \A q \in Presets : q # p => presetFile'[q] = presetFile[q] /\ given'[q] = given[q]
    BY <1>1, <1>3, DiskFields DEF PresetInv
  <1>5. UnknownFieldsStay' /\ svm.active \in OnDisk'
    BY <1>1, <1>2, <1>4, DiskFields DEF OnDisk, UnknownFieldsStay
  <1>6. /\ svm'.active = svm.active /\ svm'.conf = c /\ svm'.extra = svm.extra /\ svm'.listed = svm.listed
        /\ svm' \in [active : OnDisk', conf : Conf, extra : SUBSET Presets, listed : SUBSET Presets, dirty : BOOLEAN]
    BY <1>3, <1>5 DEF PresetInv
  <1>7. svm'.extra = given'[svm'.active] /\ svm'.active \in svm'.listed
    BY <1>4, <1>6, DiskFields DEF PresetInv
  <1>8. ShownIsActive'
    BY <1>1, <1>4, <1>6 DEF ShownIsActive
  <1>. QED BY <1>4, <1>5, <1>6, <1>7, <1>8 DEF PresetInv

LEMMA SaveSectionKeeps ==
  ASSUME BoxInv, PresetInv, NEW h \in Handlers, SaveSection(h)
  PROVE  PresetInv'
  <1>1. request[h] \in Save
    BY RequestFields DEF SaveSection, Awaits, BoxInv
  <1>. DEFINE c == [request[h].copy EXCEPT ![request[h].section] = request[h].value]
  <1>2. c \in Conf
    BY <1>1, RequestFields DEF Conf
  <1>3. SavePreset(svm.active, c) /\ imported' = FALSE /\ given' = given /\ loader' = loader
    BY DEF SaveSection
  <1>. HIDE DEF c
  <1>4. given' = [given EXCEPT ![svm.active] = svm.extra]
    BY <1>3 DEF PresetInv
  <1>. QED BY <1>2, <1>3, <1>4, SaveKeeps, DiskFields DEF PresetInv

LEMMA EditPresetKeeps ==
  ASSUME PresetInv, NEW p \in Presets,
         SetActivePreset(p) \/ CreatePreset(p) \/ DeletePreset(p) \/ (\E q \in Presets : DuplicatePreset(p, q))
           \/ (\E c \in Conf : ImportPreset(p, c))
  PROVE  PresetInv'
  <1>1. CASE SetActivePreset(p)
    <2>1. loader' = p /\ p \in svm.listed /\ UNCHANGED <<presetFile, given, dashboard>>
      BY <1>1 DEF SetActivePreset
    <2>2. CASE Loads(p)
      <3>1. svm' = Loaded(p, svm.listed, svm.dirty) /\ imported' = FALSE
        BY <1>1, <2>2 DEF SetActivePreset
      <3>. QED BY <2>1, <2>2, <3>1, LoadKeeps, DiskFields
    <2>3. CASE ~Loads(p)
      <3>1. UNCHANGED <<svm, imported>>
        BY <1>1, <2>3 DEF SetActivePreset
      <3>. QED BY <2>1, <3>1 DEF PresetInv, OnDisk, UnknownFieldsStay, ShownIsActive
    <2>. QED BY <2>2, <2>3
  <1>2. CASE CreatePreset(p)
    <2>. DEFINE f == [conf |-> DefaultConf, extra |-> {}, reads |-> TRUE]
    <2>1. f \in PresetFile /\ f.extra = {}
      BY ServerAssumption DEF PresetFile, DefaultConf, Conf
    <2>2. /\ presetFile' = [presetFile EXCEPT ![p] = f] /\ given' = [given EXCEPT ![p] = {}]
          /\ svm' = [svm EXCEPT !.listed = svm.listed \cup {p}] /\ p \notin svm.listed
          /\ loader' = loader /\ UNCHANGED <<imported, dashboard>>
      BY <1>2 DEF CreatePreset
    <2>. HIDE DEF f
    <2>3. p # svm.active /\ svm.listed \cup {p} \in SUBSET Presets /\ svm.active \in svm.listed \cup {p}
          /\ loader' \in Presets
      BY <2>2, DiskFields DEF PresetInv
    <2>. QED BY <2>1, <2>2, <2>3, FileKeeps
  <1>3. CASE DeletePreset(p)
    <2>2. /\ presetFile' = [presetFile EXCEPT ![p] = NoFile] /\ given' = [given EXCEPT ![p] = {}]
          /\ svm' = [svm EXCEPT !.listed = svm.listed \ {p}] /\ p # svm.active
          /\ loader' = loader /\ UNCHANGED <<imported, dashboard>>
      BY <1>3 DEF DeletePreset
    <2>3. svm.listed \ {p} \in SUBSET Presets /\ svm.active \in svm.listed \ {p}
          /\ loader' \in Presets
      BY <2>2, DiskFields DEF PresetInv
    <2>. QED BY <2>2, <2>3, FileKeeps
  <1>4. ASSUME NEW q \in Presets, DuplicatePreset(p, q) PROVE PresetInv'
    <2>2. /\ presetFile' = [presetFile EXCEPT ![q] = presetFile[p]] /\ given' = [given EXCEPT ![q] = given[p]]
          /\ svm' = [svm EXCEPT !.listed = svm.listed \cup {q}] /\ q \notin svm.listed /\ p \in OnDisk
          /\ loader' = loader /\ UNCHANGED <<imported, dashboard>>
      BY <1>4 DEF DuplicatePreset
    <2>3. q # svm.active /\ svm.listed \cup {q} \in SUBSET Presets /\ svm.active \in svm.listed \cup {q}
          /\ loader' \in Presets /\ given[p] \in SUBSET Presets
      BY <2>2, DiskFields DEF PresetInv
    <2>4. presetFile[p] \in PresetFile \cup {NoFile} /\ presetFile[p].extra = given[p]
      BY <2>2, DiskFields
    <2>. QED BY <2>2, <2>3, <2>4, FileKeeps
  <1>5. ASSUME NEW c \in Conf, ImportPreset(p, c) PROVE PresetInv'
    BY <1>5, SaveKeeps DEF ImportPreset, PresetInv
  <1>. QED BY <1>1, <1>2, <1>3, <1>4, <1>5

\* What the disk has is loaded, or only listed.
LEMMA ReloadKeeps == ASSUME PresetInv, ReloadFromDisk PROVE PresetInv'
  <1>1. UNCHANGED <<dashboard, presetFile, loader, given>> /\ OnDisk \in SUBSET Presets /\ loader \in Presets
    BY DEF ReloadFromDisk, OnDisk, PresetInv
  <1>2. CASE Loads(loader)
    <2>1. svm' = Loaded(loader, OnDisk, FALSE) /\ imported' = FALSE /\ loader \in OnDisk
      BY <1>2 DEF ReloadFromDisk, Loads
    <2>. QED BY <1>1, <1>2, <2>1, LoadKeeps
  <1>3. CASE ~Loads(loader)
    <2>1. svm' = [svm EXCEPT !.listed = OnDisk] /\ imported' = imported
      BY <1>3 DEF ReloadFromDisk
    <2>2. /\ svm'.active = svm.active /\ svm'.conf = svm.conf /\ svm'.extra = svm.extra /\ svm'.listed = OnDisk
          /\ svm' \in [active : OnDisk, conf : Conf, extra : SUBSET Presets, listed : SUBSET Presets, dirty : BOOLEAN]
      BY <1>1, <2>1 DEF PresetInv
    <2>3. OnDisk' = OnDisk
      BY <1>1 DEF OnDisk
    <2>4. ShownIsActive'
      BY <1>1, <2>1, <2>2 DEF ShownIsActive, PresetInv
    <2>. QED BY <1>1, <2>1, <2>2, <2>3, <2>4, DiskFields DEF PresetInv, UnknownFieldsStay
  <1>. QED BY <1>2, <1>3

LEMMA ServeKeeps == ASSUME PresetInv, ServeStarts PROVE PresetInv'
  <1>1. /\ Loads(loader) /\ svm' = Loaded(loader, OnDisk, FALSE) /\ imported' = FALSE /\ loader \in OnDisk
        /\ OnDisk \in SUBSET Presets /\ UNCHANGED <<presetFile, loader, given>> /\ loader \in Presets
    BY DEF ServeStarts, OnDisk, PresetInv, Loads
  <1>. QED BY <1>1, LoadKeeps

------------------------------------------------------------------------------
LEMMA ServerNextInv == ServerInv /\ [ServerNext]_serverVars => ServerInv'
  <1>. SUFFICES ASSUME ServerInv, [ServerNext]_serverVars PROVE ServerInv'
    OBVIOUS
  <1>. USE DEF ServerInv
  <1>1. ASSUME NEW h \in Handlers, NEW verb \in Verbs, AskServer(h, verb) \/ HeadlessLifecycle(h, verb)
        PROVE  ServerInv'
    <2>1. UNCHANGED svmVars /\ dashboard' = dashboard
      BY <1>1 DEF AskServer, HeadlessLifecycle
    <2>. QED BY <1>1, <2>1, AskBoxKeeps, PresetsRest
  <1>2. ASSUME NEW h \in Handlers, HandlerStops(h) \/ HandlerStarts(h) PROVE ServerInv'
    <2>1. UNCHANGED svmVars /\ dashboard' = dashboard
      BY <1>2 DEF HandlerStops, HandlerStarts
    <2>. QED BY <1>2, <2>1, HandlerKeeps, PresetsRest
  <1>3. ASSUME NEW h \in Handlers, HandlerEnds(h) PROVE ServerInv'
    <2>1. UNCHANGED <<dashboard, presetFile, loader, given, imported>> /\ svm' \in {svm, [svm EXCEPT !.dirty = FALSE]}
      BY <1>3 DEF HandlerEnds
    <2>2. PresetInv'
      <3>1. /\ svm'.active = svm.active /\ svm'.conf = svm.conf /\ svm'.extra = svm.extra /\ svm'.listed = svm.listed
            /\ svm' \in [active : OnDisk, conf : Conf, extra : SUBSET Presets, listed : SUBSET Presets, dirty : BOOLEAN]
        BY <2>1 DEF PresetInv
      <3>2. OnDisk' = OnDisk
        BY <2>1 DEF OnDisk
      <3>. QED BY <2>1, <3>1, <3>2 DEF PresetInv, UnknownFieldsStay, ShownIsActive
    <2>. QED BY <1>3, <2>2, HandlerKeeps
  <1>4. ASSUME NEW h \in Handlers, NEW s \in SvmSections, NEW v \in SvmValues, CopyConf(h, s, v) PROVE ServerInv'
    <2>. DEFINE r == [at |-> "edit", section |-> s, value |-> v, copy |-> svm.conf]
    <2>1. r \in Save /\ Ask(h, r) /\ UNCHANGED <<boxVars, dashboard, svmVars>>
      BY <1>4, DiskFields DEF CopyConf, Save
    <2>. HIDE DEF r
    <2>. QED BY <2>1, AskKeeps, BoxesRest, PresetsRest
  <1>5. ASSUME NEW h \in Handlers, SaveSection(h) \/ FailSave(h) PROVE ServerInv'
    <2>1. /\ Awaits(h, "edit") /\ Answer(h) /\ UNCHANGED <<boxVars, dashboard, edits>>
          /\ FailSave(h) => UNCHANGED svmVars
      BY <1>5 DEF SaveSection, FailSave
    <2>2. /\ request[h] \in Save /\ request' \in [Handlers -> Control \cup Save \cup {NoFile}]
          /\ \A g \in Handlers : g # h => request'[g] = request[g]
      BY <2>1, RequestFields DEF Awaits, Answer, BoxInv
    <2>3. BoxInv'
      BY <2>1, <2>2, BoxesRest DEF BoxInv
    <2>. QED BY <1>5, <2>1, <2>3, PresetsRest, SaveSectionKeeps
  <1>6. ASSUME FromOutside \/ TearDown PROVE ServerInv'
    <2>1. UNCHANGED svmVars /\ dashboard' \in {dashboard, "off"}
      BY <1>6 DEF FromOutside, TearDown
    <2>. QED BY <1>6, <2>1, OutsideKeeps, TearDownKeeps, PresetsRest
  <1>7. ASSUME ServeStarts PROVE ServerInv'
    BY <1>7, ServeKeeps, ServeBoxKeeps
  <1>8. ASSUME Edit, UNCHANGED <<boxVars, request, dashboard>> PROVE BoxInv'
    BY <1>8, BoxesRest, ServerAssumption DEF Edit, BoxInv
  <1>9. ASSUME ReloadFromDisk PROVE ServerInv'
    BY <1>8, <1>9, ReloadKeeps DEF ReloadFromDisk
  <1>10. ASSUME NEW p \in Presets,
                SetActivePreset(p) \/ CreatePreset(p) \/ DeletePreset(p) \/ (\E q \in Presets : DuplicatePreset(p, q))
                  \/ (\E c \in Conf : ImportPreset(p, c))
         PROVE  ServerInv'
    <2>1. Edit /\ UNCHANGED <<boxVars, request, dashboard>>
      BY <1>10 DEF SetActivePreset, CreatePreset, DeletePreset, DuplicatePreset, ImportPreset
    <2>. QED BY <1>8, <1>10, <2>1, EditPresetKeeps
  <1>11. CASE UNCHANGED serverVars
    <2>1. BoxInv'
      BY <1>11 DEF serverVars, boxVars, BoxInv, TransitionEnds
    <2>. QED BY <1>11, <2>1, PresetsRest DEF serverVars
  <1>. QED BY <1>1, <1>2, <1>3, <1>4, <1>5, <1>6, <1>7, <1>9, <1>10, <1>11 DEF ServerNext

\* Every reachable state of the containers, the requests and the presets is well typed.
THEOREM ServerTyped == ServerSpec => []ServerTypeOK
  <1>1. ServerInv => ServerTypeOK
    BY DEF ServerInv, BoxInv, PresetInv, ServerTypeOK
  <1>. QED BY <1>1, ServerInitInv, ServerNextInv, PTL DEF ServerSpec

\* Whatever fails, whoever acts on the server, and whichever presets are switched, made,
\* imported, deleted or found unreadable meanwhile: no transition is shown for ever, no
\* key that the dashboard does not know is lost, and the pages show the active preset.
THEOREM PagesHold == ServerSpec => []ServerPagesHold
  <1>1. ServerInv => ServerPagesHold
    BY DEF ServerInv, BoxInv, PresetInv, ServerPagesHold
  <1>. QED BY <1>1, ServerInitInv, ServerNextInv, PTL DEF ServerSpec

(***************************************************************************)
(* Addons                                                                  *)
(***************************************************************************)

\* No two mods have a row in common.
RowsApart == \A m, n \in HostMods : hostRow[m] # Missing /\ hostRow[m] = hostRow[n] => m = n

\* What was read of the Forge is not newer than what is there now.
NoneNewer(ops) == \A o \in ops : o.rel <= newest

\* The row that an install will name is that of the addon's mod, or of nobody: it was
\* given out, and no id is given out again.
FitsIn(c) ==
  c.act = "install" =>
    /\ c.row < nextHost
    /\ \A m \in HostMods : hostRow[m] = c.row => m = HostOf[c.addon]
ChoreOK(c) ==
  \/ c = Missing
  \/ c \in Drains /\ NoneNewer(c.list)
  \/ c \in Downloads /\ NoneNewer(c.list) /\ c.rel <= newest /\ FitsIn(c)

AddonRowPart ==
  /\ hostRow \in [HostMods -> 1..(nextHost - 1) \cup {Missing}] /\ nextHost \in 1..(MaxHosts + 1)
  /\ addonRow \in [ForgeAddons -> AddonRow \cup {Missing}] /\ nextAddon \in Nat
  /\ \A a \in Owned : addonRow[a].host \in HostIds /\ addonRow[a].rel \in 1..newest
  /\ newest \in 1..MaxRelease
  /\ RowsApart /\ AddonsOnTheirMod
OpPart ==
  /\ wishes \in 0..MaxWishes /\ serverUp \in BOOLEAN
  /\ addonOps \subseteq Operations /\ nextOp \in Nat /\ NoneNewer(addonOps)
  /\ \A o, q \in addonOps : o.id < nextOp /\ (o.id = q.id => o = q)
ChorePart ==
  /\ chore \in [Procs -> Downloads \cup Drains \cup {Missing}]
  /\ \A p \in Procs : ChoreOK(chore[p])
AddonsInv == AddonRowPart /\ OpPart /\ ChorePart

LEMMA AddonsInvTyped == ASSUME AddonsInv PROVE AddonsTypeOK
  BY DEF AddonsInv, AddonRowPart, OpPart, ChorePart, AddonsTypeOK

LEMMA AddonsInitInv == AddonsInit => AddonsInv
  <1>. SUFFICES ASSUME AddonsInit PROVE AddonsInv
    OBVIOUS
  <1>1. /\ hostRow \in [HostMods -> {Missing}] /\ addonRow \in [ForgeAddons -> {Missing}]
        /\ chore \in [Procs -> {Missing}] /\ nextHost = 1 /\ nextAddon = 1 /\ newest = 1
        /\ addonOps = {} /\ nextOp = 1 /\ wishes = 0 /\ serverUp = FALSE
    BY DEF AddonsInit
  <1>2. Owned = {}
    BY <1>1 DEF Owned
  <1>3. AddonRowPart /\ OpPart
    <2>1. /\ hostRow \in [HostMods -> 1..(nextHost - 1) \cup {Missing}] /\ nextHost \in 1..(MaxHosts + 1)
          /\ newest \in 1..MaxRelease /\ wishes \in 0..MaxWishes
      BY <1>1, AddonAssumption
    <2>2. RowsApart /\ AddonsOnTheirMod
      BY <1>1, <1>2 DEF RowsApart, AddonsOnTheirMod
    <2>. QED BY <1>1, <1>2, <2>1, <2>2 DEF AddonRowPart, OpPart, NoneNewer
  <1>4. ChorePart
    BY <1>1 DEF ChorePart, ChoreOK
  <1>. QED BY <1>3, <1>4 DEF AddonsInv

\* The first of some operations is one of them.
LEMMA FirstIn ==
  ASSUME NEW ops \in SUBSET Operations, ops # {}
  PROVE  First(ops) \in ops
  <1>. DEFINE I == {o.id : o \in ops}
  <1>1. I \subseteq Nat /\ I # {}
    BY DEF Operations
  <1>2. PICK n \in I : \A m \in I : n <= m
    <2>. HIDE DEF I
    <2>. QED BY <1>1, LeastNat
  <1>3. PICK o \in ops : o.id = n
    OBVIOUS
  <1>4. \A q \in ops : o.id <= q.id
    BY <1>2, <1>3
  <1>. QED BY <1>4 DEF First

\* What a process does, by the record it has.
LEMMA ChoreFields ==
  ASSUME AddonsInv, NEW p \in Procs
  PROVE  /\ Is(p, "fetch") => chore[p] \in Downloads
         /\ Is(p, "drain") => chore[p] \in Drains
         /\ \A c \in Downloads : /\ c.addon \in ForgeAddons /\ c.rel \in 1..MaxRelease /\ c.row \in Nat
                                 /\ c.act \in {"install", "update", "remove"} /\ c.list \subseteq Operations
                                 /\ c.restart \in BOOLEAN /\ c.at = "fetch"
         /\ \A c \in Drains : c.list \subseteq Operations /\ c.list # {} /\ c.restart \in BOOLEAN /\ c.at = "drain"
         /\ \A c \in Downloads \cup Drains : c # Missing
  <1>1. \A c \in Downloads : /\ c.addon \in ForgeAddons /\ c.rel \in 1..MaxRelease /\ c.row \in Nat
                             /\ c.act \in {"install", "update", "remove"} /\ c.list \subseteq Operations
                             /\ c.restart \in BOOLEAN /\ c.at = "fetch"
    BY DEF Downloads
  <1>2. \A c \in Drains : c.list \subseteq Operations /\ c.list # {} /\ c.restart \in BOOLEAN /\ c.at = "drain"
    BY DEF Drains
  <1>3. \A c \in Downloads \cup Drains : c # Missing
    BY AddonAssumption
  <1>4. chore[p] \in Downloads \cup Drains \cup {Missing}
    BY DEF AddonsInv, ChorePart
  <1>5. /\ Is(p, "fetch") => chore[p] \in Downloads
        /\ Is(p, "drain") => chore[p] \in Drains
    BY <1>1, <1>2, <1>4 DEF Is
  <1>. QED BY <1>1, <1>2, <1>3, <1>5

\* The queue is typed, and so is what is left of it.
LEMMA KnownParts ==
  ASSUME NEW S, NEW T \in SUBSET S, NoneNewer(S)
  PROVE  NoneNewer(T)
  BY DEF NoneNewer

\* Nothing that a process has at hand stops fitting while no row of a mod comes or goes.
LEMMA ChoresKeep ==
  ASSUME AddonsInv, UNCHANGED <<hostRow, nextHost, newest>>,
         chore' \in [Procs -> Downloads \cup Drains \cup {Missing}],
         \A p \in Procs : chore'[p] = chore[p] \/ ChoreOK(chore'[p])
  PROVE  ChorePart'
  BY DEF AddonsInv, ChorePart, ChoreOK, NoneNewer, FitsIn

LEMMA RowsKeep ==
  ASSUME AddonRowPart, UNCHANGED <<rowVars, newest>>
  PROVE  AddonRowPart'
  BY DEF AddonRowPart, rowVars, HostIds, Owned, RowsApart, AddonsOnTheirMod

LEMMA OpsKeep ==
  ASSUME OpPart, UNCHANGED newest, addonOps' \subseteq addonOps, nextOp' = nextOp,
         serverUp' \in BOOLEAN, wishes' \in 0..MaxWishes
  PROVE  OpPart'
  BY DEF OpPart, NoneNewer

\* A process turns to something else.
LEMMA TurnKeeps ==
  ASSUME AddonsInv, NEW p \in Procs, NEW c, ChoreOK(c), Turns(p, c), UNCHANGED <<hostRow, nextHost, newest>>
  PROVE  ChorePart'
  <1>1. c \in Downloads \cup Drains \cup {Missing}
    BY DEF ChoreOK
  <1>2. /\ chore' \in [Procs -> Downloads \cup Drains \cup {Missing}]
        /\ \A q \in Procs : chore'[q] = chore[q] \/ chore'[q] = c
    BY <1>1 DEF Turns, AddonsInv, ChorePart
  <1>. QED BY <1>2, ChoresKeep

\* A download of a release that is there, for the row the addon's mod has.
LEMMA FetchFits ==
  ASSUME AddonsInv, NEW act \in {"install", "update", "remove"}, NEW a \in ForgeAddons, NEW rel \in 1..MaxRelease,
         rel <= newest, NEW host \in Nat, act = "install" => host = hostRow[HostOf[a]],
         NEW list \in SUBSET Operations, NoneNewer(list), NEW restart \in BOOLEAN
  PROVE  ChoreOK([at |-> "fetch", act |-> act, addon |-> a, rel |-> rel, row |-> host,
                  list |-> list, restart |-> restart])
  <1>. DEFINE c == [at |-> "fetch", act |-> act, addon |-> a, rel |-> rel, row |-> host,
                    list |-> list, restart |-> restart]
  <1>1. c \in Downloads
    BY DEF Downloads
  <1>2. c.act = act /\ c.row = host /\ c.addon = a /\ c.list = list /\ c.rel = rel
    OBVIOUS
  <1>. HIDE DEF c
  <1>3. ASSUME act = "install" PROVE host < nextHost /\ \A m \in HostMods : hostRow[m] = host => m = HostOf[a]
    <2>1. host = hostRow[HostOf[a]] /\ HostOf[a] \in HostMods /\ host # Missing
      BY <1>3, AddonAssumption
    <2>2. RowsApart /\ hostRow \in [HostMods -> 1..(nextHost - 1) \cup {Missing}] /\ nextHost \in Nat
      BY DEF AddonsInv, AddonRowPart
    <2>3. host < nextHost
      BY <2>1, <2>2
    <2>. QED BY <2>1, <2>2, <2>3 DEF RowsApart
  <1>4. FitsIn(c)
    BY <1>2, <1>3 DEF FitsIn
  <1>5. ChoreOK(c)
    BY <1>1, <1>2, <1>4 DEF ChoreOK
  <1>. QED BY <1>5 DEF c

\* What the rows and the queue have.
LEMMA RowFields ==
  ASSUME AddonsInv
  PROVE  /\ \A a \in Owned : /\ a \in ForgeAddons /\ addonRow[a] \in AddonRow /\ addonRow[a].id \in Nat
                             /\ addonRow[a].host = hostRow[HostOf[a]] /\ addonRow[a].host \in Nat
         /\ \A a \in ForgeAddons \ Owned : addonRow[a] = Missing
         /\ \A m \in HostMods : hostRow[m] # Missing => hostRow[m] \in Nat /\ 0 < hostRow[m] /\ hostRow[m] < nextHost
         /\ \A a \in ForgeAddons : HostOf[a] \in HostMods
         /\ nextHost \in Nat /\ newest \in 1..MaxRelease /\ nextAddon \in Nat
  <1>1. \A a \in Owned : a \in ForgeAddons /\ addonRow[a] \in AddonRow
    BY DEF AddonsInv, AddonRowPart, Owned
  <1>2. \A r \in AddonRow : r.id \in Nat /\ r.host \in Nat
    BY DEF AddonRow
  <1>3. \A a \in ForgeAddons \ Owned : addonRow[a] = Missing
    BY DEF Owned
  <1>4. \A a \in Owned : addonRow[a].host = hostRow[HostOf[a]]
    BY DEF AddonsInv, AddonRowPart, AddonsOnTheirMod
  <1>5. /\ \A m \in HostMods : hostRow[m] # Missing => hostRow[m] \in Nat /\ 0 < hostRow[m] /\ hostRow[m] < nextHost
        /\ nextHost \in Nat /\ newest \in 1..MaxRelease /\ nextAddon \in Nat
    BY AddonAssumption DEF AddonsInv, AddonRowPart
  <1>. QED BY <1>1, <1>2, <1>3, <1>4, <1>5, AddonAssumption

------------------------------------------------------------------------------
(* Asking                                                                  *)

LEMMA QueueKeeps ==
  ASSUME AddonsInv, NEW act \in {"install", "update", "remove"}, NEW a \in ForgeAddons, Queue(act, a),
         UNCHANGED <<newest, serverUp>>, wishes' \in 0..MaxWishes
  PROVE  OpPart'
  <1>. DEFINE o == Operation(nextOp, act, a, newest)
  <1>1. o \in Operations /\ o.id = nextOp /\ o.rel = newest /\ nextOp \in Nat
    BY DEF Operation, Operations, AddonsInv, AddonRowPart, OpPart
  <1>2. addonOps' = addonOps \cup {o} /\ nextOp' = nextOp + 1
    BY DEF Queue
  <1>. HIDE DEF o
  <1>3. \A q \in addonOps : q.id < nextOp /\ q.id \in Nat
    BY DEF AddonsInv, OpPart, Operations
  <1>4. \A q, r \in addonOps' : q.id < nextOp' /\ (q.id = r.id => q = r)
    BY <1>1, <1>2, <1>3 DEF AddonsInv, OpPart
  <1>5. NoneNewer(addonOps)'
    BY <1>1, <1>2 DEF AddonsInv, OpPart, AddonRowPart, NoneNewer
  <1>. QED BY <1>1, <1>2, <1>4, <1>5 DEF AddonsInv, OpPart

LEMMA WishKeeps == ASSUME AddonsInv, Wish PROVE wishes' \in 0..MaxWishes
  BY AddonAssumption DEF AddonsInv, OpPart, Wish

LEMMA AskKeepsAddons ==
  ASSUME AddonsInv, NEW p \in Procs, NEW act \in {"install", "update", "remove"}, NEW a \in ForgeAddons,
         NEW host \in Nat, act = "install" => host = hostRow[HostOf[a]],
         AskChange(p, act, a, host) \/ CommandChange(p, act, a, host)
  PROVE  AddonsInv'
  <1>1. UNCHANGED <<rowVars, newest, serverUp>> /\ Wish
    BY DEF AskChange, CommandChange
  <1>2. wishes' \in 0..MaxWishes /\ AddonRowPart' /\ serverUp' \in BOOLEAN
    BY <1>1, WishKeeps, RowsKeep DEF AddonsInv, OpPart
  <1>3. \/ Queue(act, a) /\ UNCHANGED chore
        \/ UNCHANGED <<opVars, chore>>
        \/ Fetch(p, act, a, newest, host, {}, FALSE) /\ UNCHANGED opVars
    BY DEF AskChange, CommandChange, TryQueueAddonOp
  <1>4. UNCHANGED opVars => OpPart'
    BY <1>1, <1>2, OpsKeep DEF AddonsInv, opVars
  <1>5. UNCHANGED chore => ChorePart'
    BY <1>1, ChoresKeep DEF AddonsInv, ChorePart, rowVars
  <1>6. ASSUME Fetch(p, act, a, newest, host, {}, FALSE) PROVE ChorePart'
    <2>1. newest \in 1..MaxRelease /\ newest <= newest /\ NoneNewer({}) /\ {} \in SUBSET Operations
      BY AddonAssumption DEF AddonsInv, AddonRowPart, NoneNewer
    <2>2. ChoreOK([at |-> "fetch", act |-> act, addon |-> a, rel |-> newest, row |-> host,
                   list |-> {}, restart |-> FALSE])
      BY <2>1, FetchFits
    <2>. QED BY <1>1, <1>6, <2>2, TurnKeeps DEF Fetch, rowVars
  <1>7. Queue(act, a) => OpPart'
    BY <1>1, <1>2, QueueKeeps
  <1>. QED BY <1>2, <1>3, <1>4, <1>5, <1>6, <1>7 DEF AddonsInv

LEMMA RequestsKeepAddons ==
  ASSUME AddonsInv, NEW p \in Procs, NEW a \in ForgeAddons,
         \/ InstallAddon(p, a) \/ UpdateAddon(p, a)
         \/ RunAddonInstall(p, a) \/ RunAddonUpdate(p, a) \/ RunAddonRemove(p, a)
  PROVE  AddonsInv'
  <1>1. hostRow[HostOf[a]] # Missing => hostRow[HostOf[a]] \in Nat
    BY RowFields
  <1>2. a \in Owned => addonRow[a].id \in Nat
    BY RowFields
  <1>3. CASE InstallAddon(p, a) \/ RunAddonInstall(p, a)
    BY <1>1, <1>3, AskKeepsAddons DEF InstallAddon, RunAddonInstall
  <1>4. CASE UpdateAddon(p, a) \/ RunAddonUpdate(p, a)
    BY <1>2, <1>4, AskKeepsAddons DEF UpdateAddon, RunAddonUpdate
  <1>5. CASE RunAddonRemove(p, a)
    BY <1>2, <1>5, AskKeepsAddons DEF RunAddonRemove
  <1>. QED BY <1>3, <1>4, <1>5

------------------------------------------------------------------------------
(* Around the addons                                                       *)

LEMMA ReleaseKeeps == ASSUME AddonsInv, Release PROVE AddonsInv'
  <1>1. /\ newest' = newest + 1 /\ newest' \in 1..MaxRelease /\ newest \in Nat
        /\ UNCHANGED <<rowVars, opVars, serverUp, chore, wishes>>
    BY AddonAssumption DEF Release, AddonsInv, AddonRowPart
  <1>2. ASSUME NEW ops \in SUBSET Operations, NoneNewer(ops) PROVE \A o \in ops : o.rel <= newest'
    BY <1>1, <1>2 DEF NoneNewer, Operations
  <1>3. AddonRowPart'
    BY <1>1 DEF AddonsInv, AddonRowPart, rowVars, HostIds, Owned, RowsApart, AddonsOnTheirMod
  <1>4. OpPart'
    BY <1>1, <1>2 DEF AddonsInv, OpPart, opVars, NoneNewer
  <1>5. \A p \in Procs : ChoreOK(chore[p])'
    <2>1. TAKE p \in Procs
    <2>2. CASE chore[p] \in Downloads
      <3>1. NoneNewer(chore[p].list) /\ chore[p].rel <= newest /\ FitsIn(chore[p])
        BY <2>2, ChoreFields DEF AddonsInv, ChorePart, ChoreOK
      <3>2. chore[p].list \in SUBSET Operations /\ chore[p].rel <= newest'
        BY <1>1, <2>2, <3>1, ChoreFields
      <3>3. NoneNewer(chore[p].list)'
        BY <1>1, <1>2, <3>1, <3>2 DEF NoneNewer
      <3>4. FitsIn(chore[p])'
        BY <1>1, <3>1 DEF FitsIn, rowVars
      <3>. QED BY <1>1, <2>2, <3>2, <3>3, <3>4 DEF ChoreOK
    <2>3. CASE chore[p] \in Drains
      <3>1. NoneNewer(chore[p].list) /\ chore[p].list \in SUBSET Operations
        BY <2>3, ChoreFields DEF AddonsInv, ChorePart, ChoreOK
      <3>2. NoneNewer(chore[p].list)'
        BY <1>1, <1>2, <3>1 DEF NoneNewer
      <3>. QED BY <1>1, <2>3, <3>2 DEF ChoreOK
    <2>4. CASE chore[p] = Missing
      BY <1>1, <2>4 DEF ChoreOK
    <2>. QED BY <2>2, <2>3, <2>4 DEF AddonsInv, ChorePart
  <1>. QED BY <1>1, <1>3, <1>4, <1>5 DEF AddonsInv, ChorePart

\* A new row of a mod has an id that no addon, and no download, knows.
LEMMA InstallHostKeeps == ASSUME AddonsInv, NEW m \in HostMods, InstallHost(m) PROVE AddonsInv'
  <1>1. /\ hostRow[m] = Missing /\ hostRow' = [hostRow EXCEPT ![m] = nextHost] /\ nextHost' = nextHost + 1
        /\ nextHost <= MaxHosts /\ nextHost \in Nat
        /\ UNCHANGED <<addonRow, newest, nextAddon, opVars, serverUp, chore, wishes>>
    BY RowFields DEF InstallHost, HostId
  <1>2. /\ hostRow'[m] = nextHost /\ \A n \in HostMods : n # m => hostRow'[n] = hostRow[n]
        /\ \A n \in HostMods : hostRow[n] # Missing => hostRow[n] \in Nat /\ 0 < hostRow[n] /\ hostRow[n] < nextHost
        /\ \A n \in HostMods : hostRow[n] # Missing => n # m /\ hostRow'[n] = hostRow[n]
    BY <1>1, RowFields DEF AddonsInv, AddonRowPart
  <1>3. /\ hostRow' \in [HostMods -> 1..(nextHost' - 1) \cup {Missing}] /\ nextHost' \in 1..(MaxHosts + 1)
    <2>1. nextHost \in 1..(nextHost' - 1) /\ \A i \in 1..(nextHost - 1) : i \in 1..(nextHost' - 1)
      BY <1>1 DEF AddonsInv, AddonRowPart
    <2>. QED BY <1>1, <2>1, AddonAssumption DEF AddonsInv, AddonRowPart
  <1>4. RowsApart'
    BY <1>1, <1>2, AddonAssumption DEF AddonsInv, AddonRowPart, RowsApart
  <1>5. Owned' = Owned /\ AddonsOnTheirMod' /\ \A a \in Owned : addonRow'[a].host \in HostIds'
    <2>1. Owned' = Owned
      BY <1>1 DEF Owned
    <2>2. ASSUME NEW a \in Owned
          PROVE  /\ HostOf[a] \in HostMods /\ hostRow[HostOf[a]] # Missing
                 /\ hostRow'[HostOf[a]] = addonRow'[a].host /\ addonRow'[a].host # Missing
      BY <1>1, <1>2, RowFields, AddonAssumption
    <2>. QED BY <2>1, <2>2 DEF AddonsOnTheirMod, HostIds
  <1>6. AddonRowPart'
    BY <1>1, <1>3, <1>4, <1>5 DEF AddonsInv, AddonRowPart
  <1>7. OpPart'
    BY <1>1 DEF AddonsInv, OpPart, opVars, NoneNewer
  <1>8. \A p \in Procs : ChoreOK(chore[p])'
    <2>1. TAKE p \in Procs
    <2>2. CASE chore[p] \in Downloads
      <3>1. NoneNewer(chore[p].list) /\ chore[p].rel <= newest /\ FitsIn(chore[p]) /\ chore[p].row \in Nat
        BY <2>2, ChoreFields DEF AddonsInv, ChorePart, ChoreOK
      <3>2. NoneNewer(chore[p].list)'
        BY <1>1, <3>1 DEF NoneNewer
      <3>3. FitsIn(chore[p])'
        <4>1. SUFFICES ASSUME chore[p].act = "install"
              PROVE  chore[p].row < nextHost' /\ \A n \in HostMods : hostRow'[n] = chore[p].row => n = HostOf[chore[p].addon]
          BY <1>1 DEF FitsIn
        <4>2. chore[p].row < nextHost /\ \A n \in HostMods : hostRow[n] = chore[p].row => n = HostOf[chore[p].addon]
          BY <3>1, <4>1 DEF FitsIn
        <4>. QED BY <1>1, <1>2, <3>1, <4>2
      <3>. QED BY <1>1, <2>2, <3>1, <3>2, <3>3 DEF ChoreOK
    <2>3. CASE chore[p] \in Drains
      <3>1. NoneNewer(chore[p].list)
        BY <2>3, ChoreFields DEF AddonsInv, ChorePart, ChoreOK
      <3>. QED BY <1>1, <2>3, <3>1 DEF ChoreOK, NoneNewer
    <2>4. CASE chore[p] = Missing
      BY <1>1, <2>4 DEF ChoreOK
    <2>. QED BY <2>2, <2>3, <2>4 DEF AddonsInv, ChorePart
  <1>. QED BY <1>1, <1>6, <1>7, <1>8 DEF AddonsInv, ChorePart

\* A mod goes with its addons.
LEMMA RemoveHostKeeps == ASSUME AddonsInv, NEW m \in HostMods, RemoveHost(m) PROVE AddonsInv'
  <1>1. /\ hostRow[m] # Missing /\ hostRow' = [hostRow EXCEPT ![m] = Missing]
        /\ addonRow' = [a \in ForgeAddons |->
             IF a \in Owned /\ addonRow[a].host = hostRow[m] THEN Missing ELSE addonRow[a]]
        /\ UNCHANGED <<newest, nextHost, nextAddon, opVars, serverUp, chore, wishes>>
    BY DEF RemoveHost
  <1>2. /\ hostRow' \in [HostMods -> 1..(nextHost - 1) \cup {Missing}]
        /\ hostRow'[m] = Missing /\ \A n \in HostMods : n # m => hostRow'[n] = hostRow[n]
    BY <1>1 DEF AddonsInv, AddonRowPart
  <1>3. RowsApart'
    BY <1>2 DEF AddonsInv, AddonRowPart, RowsApart
  <1>4. /\ addonRow' \in [ForgeAddons -> AddonRow \cup {Missing}]
        /\ \A a \in Owned' : a \in Owned /\ addonRow'[a] = addonRow[a] /\ addonRow[a].host # hostRow[m]
    BY <1>1 DEF AddonsInv, AddonRowPart, Owned
  <1>5. \A a \in Owned' : /\ HostOf[a] # m /\ HostOf[a] \in HostMods /\ hostRow'[HostOf[a]] = hostRow[HostOf[a]]
                          /\ hostRow[HostOf[a]] = addonRow'[a].host /\ addonRow'[a].host # Missing
    BY <1>2, <1>4, RowFields, AddonAssumption
  <1>6. AddonsOnTheirMod' /\ \A a \in Owned' : addonRow'[a].host \in HostIds'
    BY <1>5 DEF AddonsOnTheirMod, HostIds
  <1>7. AddonRowPart'
    BY <1>1, <1>2, <1>3, <1>4, <1>6 DEF AddonsInv, AddonRowPart
  <1>8. OpPart'
    BY <1>1 DEF AddonsInv, OpPart, opVars, NoneNewer
  <1>9. \A p \in Procs : ChoreOK(chore[p])'
    <2>1. TAKE p \in Procs
    <2>2. ASSUME chore[p] \in Downloads, FitsIn(chore[p]) PROVE FitsIn(chore[p])'
      <3>1. chore[p].row \in Nat
        BY <2>2, ChoreFields
      <3>. QED BY <1>1, <1>2, <2>2, <3>1, AddonAssumption DEF FitsIn
    <2>3. ASSUME NEW ops, NoneNewer(ops) PROVE \A o \in ops : o.rel <= newest'
      BY <1>1, <2>3 DEF NoneNewer
    <2>. QED BY <1>1, <2>2, <2>3 DEF AddonsInv, ChorePart, ChoreOK, NoneNewer
  <1>. QED BY <1>1, <1>7, <1>8, <1>9 DEF AddonsInv, ChorePart

LEMMA AroundKeeps ==
  ASSUME AddonsInv, StartOrStop \/ CancelOp \/ \E p \in Procs : GiveUp(p)
  PROVE  AddonsInv'
  <1>1. CASE StartOrStop
    <2>1. UNCHANGED <<rowVars, newest, opVars, chore, wishes>> /\ serverUp' \in BOOLEAN
      BY <1>1 DEF StartOrStop, AddonsInv, OpPart
    <2>. QED BY <2>1, RowsKeep, OpsKeep, ChoresKeep DEF AddonsInv, OpPart, ChorePart, rowVars, opVars
  <1>2. CASE CancelOp
    <2>1. UNCHANGED <<rowVars, newest, nextOp, serverUp, chore>> /\ wishes' \in 0..MaxWishes /\ addonOps' \subseteq addonOps
      BY <1>2, WishKeeps DEF CancelOp
    <2>. QED BY <2>1, RowsKeep, OpsKeep, ChoresKeep DEF AddonsInv, OpPart, ChorePart, rowVars
  <1>3. ASSUME NEW p \in Procs, GiveUp(p) PROVE AddonsInv'
    <2>1. UNCHANGED <<rowVars, newest, opVars, serverUp, wishes>> /\ Turns(p, Missing) /\ ChoreOK(Missing)
      BY <1>3 DEF GiveUp, ChoreOK
    <2>. QED BY <2>1, RowsKeep, OpsKeep, TurnKeeps DEF AddonsInv, OpPart, rowVars, opVars
  <1>. QED BY <1>1, <1>2, <1>3

------------------------------------------------------------------------------
(* Changes that have their archive                                         *)

\* The row of an addon comes, changes its release, or goes.
LEMMA RowChanges ==
  ASSUME AddonsInv, NEW a \in ForgeAddons, NEW r \in AddonRow \cup {Missing},
         r # Missing => r.host = hostRow[HostOf[a]] /\ r.host \in Nat /\ r.rel \in 1..newest,
         addonRow' = [addonRow EXCEPT ![a] = r], nextAddon' \in Nat, UNCHANGED <<hostRow, nextHost, newest>>
  PROVE  AddonRowPart'
  <1>1. /\ addonRow' \in [ForgeAddons -> AddonRow \cup {Missing}] /\ addonRow'[a] = r
        /\ \A b \in ForgeAddons : b # a => addonRow'[b] = addonRow[b]
    BY DEF AddonsInv, AddonRowPart
  <1>2. ASSUME NEW b \in Owned'
        PROVE  /\ addonRow'[b].host = hostRow[HostOf[b]] /\ addonRow'[b].host \in Nat /\ addonRow'[b].rel \in 1..newest
               /\ HostOf[b] \in HostMods
    <2>1. b \in ForgeAddons /\ addonRow'[b] # Missing
      BY DEF Owned
    <2>2. CASE b = a
      BY <1>1, <2>1, <2>2, AddonAssumption
    <2>3. CASE b # a
      <3>1. b \in Owned /\ addonRow'[b] = addonRow[b]
        BY <1>1, <2>1, <2>3 DEF Owned
      <3>. QED BY <3>1, RowFields, AddonAssumption DEF AddonsInv, AddonRowPart
    <2>. QED BY <2>2, <2>3
  <1>3. AddonsOnTheirMod' /\ \A b \in Owned' : addonRow'[b].host \in HostIds'
    BY <1>2, AddonAssumption DEF AddonsOnTheirMod, HostIds
  <1>. QED BY <1>1, <1>2, <1>3 DEF AddonsInv, AddonRowPart, RowsApart

LEMMA LandsKeep ==
  ASSUME AddonsInv, NEW p \in Procs, Is(p, "fetch"), CanLand(p), Lands(p), UNCHANGED <<hostRow, nextHost, newest>>
  PROVE  AddonRowPart'
  <1>. DEFINE c == chore[p]
  <1>1. /\ c \in Downloads /\ c.addon \in ForgeAddons /\ c.rel \in 1..MaxRelease /\ c.row \in Nat
        /\ c.act \in {"install", "update", "remove"}
    BY ChoreFields
  <1>2. c.rel \in 1..newest /\ FitsIn(c)
    <2>1. c.rel <= newest /\ FitsIn(c)
      BY <1>1, ChoreFields DEF AddonsInv, ChorePart, ChoreOK
    <2>. QED BY <1>1, <2>1, RowFields
  <1>3. CASE c.act = "install"
    <2>. DEFINE r == [id |-> nextAddon, host |-> c.row, rel |-> c.rel]
    <2>1. r \in AddonRow /\ r.host = c.row /\ r.rel = c.rel
      BY <1>1, RowFields DEF AddonRow
    <2>2. c.row \in HostIds /\ addonRow' = [addonRow EXCEPT ![c.addon] = r] /\ nextAddon' = nextAddon + 1
      BY <1>3 DEF CanLand, Lands, CanInsertAddon, InsertAddon
    <2>. HIDE DEF r
    <2>3. c.row = hostRow[HostOf[c.addon]]
      <3>1. PICK m \in HostMods : hostRow[m] = c.row
        BY <2>2 DEF HostIds
      <3>. QED BY <1>2, <1>3, <3>1 DEF FitsIn
    <2>4. nextAddon' \in Nat
      BY <2>2, RowFields
    <2>. HIDE DEF c
    <2>. QED BY <1>1, <1>2, <2>1, <2>2, <2>3, <2>4, RowChanges
  <1>4. CASE c.act = "update"
    <2>1. c.addon \in Owned /\ addonRow' = [addonRow EXCEPT ![c.addon].rel = c.rel] /\ nextAddon' = nextAddon
      BY <1>4 DEF CanLand, Lands
    <2>. DEFINE r == [addonRow[c.addon] EXCEPT !.rel = c.rel]
    <2>2. r \in AddonRow /\ r.host = addonRow[c.addon].host /\ r.rel = c.rel
      BY <1>1, <2>1, RowFields DEF AddonRow
    <2>3. addonRow' = [addonRow EXCEPT ![c.addon] = r]
      BY <2>1
    <2>. HIDE DEF r
    <2>4. r.host = hostRow[HostOf[c.addon]] /\ r.host \in Nat /\ nextAddon' \in Nat
      BY <2>1, <2>2, RowFields
    <2>. HIDE DEF c
    <2>. QED BY <1>1, <1>2, <2>2, <2>3, <2>4, RowChanges
  <1>5. CASE c.act = "remove"
    <2>1. addonRow' = [addonRow EXCEPT ![c.addon] = Missing] /\ nextAddon' \in Nat
      BY <1>5, RowFields DEF Lands
    <2>. QED BY <1>1, <2>1, RowChanges
  <1>. QED BY <1>1, <1>3, <1>4, <1>5

LEMMA RemoveAddonKeeps == ASSUME AddonsInv, NEW a \in ForgeAddons, RemoveAddon(a) PROVE AddonsInv'
  <1>1. /\ addonRow' = [addonRow EXCEPT ![a] = Missing] /\ wishes' \in 0..MaxWishes
        /\ UNCHANGED <<hostRow, newest, nextHost, nextAddon, opVars, serverUp, chore>>
    BY WishKeeps DEF RemoveAddon
  <1>2. AddonRowPart'
    BY <1>1, RowChanges, RowFields
  <1>. QED BY <1>1, <1>2, OpsKeep, ChoresKeep DEF AddonsInv, OpPart, ChorePart, opVars

LEMMA LandKeeps == ASSUME AddonsInv, NEW p \in Procs, Land(p) PROVE AddonsInv'
  <1>1. /\ Is(p, "fetch") /\ Turns(p, Missing) /\ ChoreOK(Missing)
        /\ UNCHANGED <<hostRow, newest, nextHost, opVars, serverUp, wishes>>
    BY DEF Land, ChoreOK
  <1>2. AddonRowPart'
    <2>1. CASE CanLand(p)
      BY <1>1, <2>1, LandsKeep DEF Land
    <2>2. CASE ~CanLand(p)
      BY <1>1, <2>2, RowsKeep DEF Land, rowVars, AddonsInv
    <2>. QED BY <2>1, <2>2
  <1>. QED BY <1>1, <1>2, OpsKeep, TurnKeeps DEF AddonsInv, OpPart, opVars

------------------------------------------------------------------------------
(* The drain                                                               *)

LEMMA DrainFits ==
  ASSUME NEW list \in SUBSET Operations, NoneNewer(list), NEW restart \in BOOLEAN, NEW p, Drain(p, list, restart)
  PROVE  \E c : ChoreOK(c) /\ Turns(p, c)
  <1>1. CASE list = {}
    BY <1>1 DEF Drain, ChoreOK
  <1>2. CASE list # {}
    <2>1. [at |-> "drain", list |-> list, restart |-> restart] \in Drains
      BY <1>2 DEF Drains
    <2>2. ChoreOK([at |-> "drain", list |-> list, restart |-> restart])
      BY <2>1 DEF ChoreOK
    <2>. QED BY <1>2, <2>2 DEF Drain
  <1>. QED BY <1>1, <1>2

\* What a process that applies the queue still has to do.
LEMMA ListFields ==
  ASSUME AddonsInv, NEW p \in Procs, Is(p, "fetch") \/ Is(p, "drain")
  PROVE  /\ chore[p].list \in SUBSET Operations /\ NoneNewer(chore[p].list) /\ chore[p].restart \in BOOLEAN
         /\ chore[p].list # {} => First(chore[p].list) \in chore[p].list
  <1>1. chore[p] \in Downloads \cup Drains
    BY ChoreFields
  <1>2. chore[p].list \in SUBSET Operations /\ chore[p].restart \in BOOLEAN
    BY <1>1, ChoreFields
  <1>3. NoneNewer(chore[p].list)
    BY <1>1, ChoreFields DEF AddonsInv, ChorePart, ChoreOK
  <1>. QED BY <1>2, <1>3, FirstIn

LEMMA NextKeeps ==
  ASSUME AddonsInv, NEW p \in Procs, Is(p, "fetch") \/ Is(p, "drain"), Next1(p),
         UNCHANGED <<hostRow, nextHost, newest>>
  PROVE  ChorePart'
  <1>. DEFINE rest == chore[p].list \ {First(chore[p].list)}
  <1>1. rest \in SUBSET Operations /\ NoneNewer(rest) /\ chore[p].restart \in BOOLEAN
    BY ListFields DEF NoneNewer
  <1>2. Drain(p, rest, chore[p].restart)
    BY DEF Next1
  <1>. HIDE DEF rest
  <1>3. \E c : ChoreOK(c) /\ Turns(p, c)
    BY <1>1, <1>2, DrainFits
  <1>. QED BY <1>3, TurnKeeps

LEMMA DrainKeeps ==
  ASSUME AddonsInv, NEW p \in Procs, ApplyQueue(p) \/ DrainAll(p)
  PROVE  AddonsInv'
  <1>1. /\ UNCHANGED <<rowVars, newest, opVars, wishes>> /\ serverUp' \in BOOLEAN
        /\ \E restart \in BOOLEAN : Drain(p, addonOps, restart)
    BY DEF ApplyQueue, DrainAll, AddonsInv, OpPart
  <1>2. \E c : ChoreOK(c) /\ Turns(p, c)
    BY <1>1, DrainFits DEF AddonsInv, OpPart
  <1>. QED BY <1>1, <1>2, RowsKeep, OpsKeep, TurnKeeps DEF AddonsInv, OpPart, rowVars, opVars

LEMMA FetchOpKeeps == ASSUME AddonsInv, NEW p \in Procs, FetchOp(p) PROVE AddonsInv'
  <1>. DEFINE list == chore[p].list
              o == First(list)
  <1>1. /\ Is(p, "drain") /\ Subject(o) # Missing
        /\ Fetch(p, o.act, o.addon, o.rel, Subject(o), list, chore[p].restart)
        /\ UNCHANGED <<rowVars, newest, opVars, serverUp, wishes>>
    BY DEF FetchOp
  <1>2. /\ list \in SUBSET Operations /\ NoneNewer(list) /\ chore[p].restart \in BOOLEAN /\ o \in list
    BY <1>1, ListFields, ChoreFields
  <1>3. /\ o.act \in {"install", "update", "remove"} /\ o.addon \in ForgeAddons /\ o.rel \in 1..MaxRelease
        /\ o.rel <= newest
    BY <1>2 DEF Operations, NoneNewer
  <1>. HIDE DEF o, list
  <1>4. Subject(o) \in Nat /\ (o.act = "install" => Subject(o) = hostRow[HostOf[o.addon]])
    BY <1>1, <1>3, RowFields DEF Subject
  <1>5. ChoreOK([at |-> "fetch", act |-> o.act, addon |-> o.addon, rel |-> o.rel, row |-> Subject(o),
                 list |-> list, restart |-> chore[p].restart])
    BY <1>2, <1>3, <1>4, FetchFits
  <1>6. ChorePart'
    BY <1>1, <1>5, TurnKeeps DEF Fetch, rowVars
  <1>. QED BY <1>1, <1>6, RowsKeep, OpsKeep DEF AddonsInv, OpPart, opVars

LEMMA PassKeeps == ASSUME AddonsInv, NEW p \in Procs, PassOp(p) \/ SkipOp(p) PROVE AddonsInv'
  <1>1. /\ Is(p, "drain") /\ Next1(p) /\ Restarted(p)
        /\ UNCHANGED <<rowVars, newest, nextOp, wishes>> /\ addonOps' \subseteq addonOps
    BY DEF PassOp, SkipOp, DeletePendingOp
  <1>2. serverUp' \in BOOLEAN
    BY <1>1, ListFields DEF Restarted, AddonsInv, OpPart
  <1>. QED BY <1>1, <1>2, RowsKeep, OpsKeep, NextKeeps DEF AddonsInv, OpPart, rowVars

LEMMA LandOpKeeps == ASSUME AddonsInv, NEW p \in Procs, LandOp(p) PROVE AddonsInv'
  <1>1. Is(p, "fetch") /\ UNCHANGED <<hostRow, newest, nextHost, nextOp, wishes>>
    BY DEF LandOp
  <1>2. CASE CanLand(p)
    <2>1. Lands(p) /\ Next1(p) /\ Restarted(p) /\ addonOps' \subseteq addonOps
      BY <1>2 DEF LandOp, DeletePendingOp
    <2>2. serverUp' \in BOOLEAN
      BY <1>1, <2>1, ListFields DEF Restarted, AddonsInv, OpPart
    <2>. QED BY <1>1, <1>2, <2>1, <2>2, LandsKeep, OpsKeep, NextKeeps DEF AddonsInv, OpPart
  <1>3. CASE ~CanLand(p)
    <2>1. /\ Next1(p) \/ Turns(p, Missing)
          /\ UNCHANGED <<addonRow, nextAddon, addonOps, serverUp>>
      BY <1>3 DEF LandOp
    <2>2. ChorePart'
      BY <1>1, <2>1, NextKeeps, TurnKeeps DEF ChoreOK
    <2>. QED BY <1>1, <2>1, <2>2, RowsKeep, OpsKeep DEF AddonsInv, OpPart, rowVars
  <1>. QED BY <1>2, <1>3

------------------------------------------------------------------------------
LEMMA AddonsNextInv == AddonsInv /\ [AddonsNext]_addonVars => AddonsInv'
  <1>. SUFFICES ASSUME AddonsInv, [AddonsNext]_addonVars PROVE AddonsInv'
    OBVIOUS
  <1>1. CASE Release \/ StartOrStop \/ CancelOp
    BY <1>1, ReleaseKeeps, AroundKeeps
  <1>2. ASSUME NEW m \in HostMods, InstallHost(m) \/ RemoveHost(m) PROVE AddonsInv'
    BY <1>2, InstallHostKeeps, RemoveHostKeeps
  <1>3. ASSUME NEW a \in ForgeAddons, RemoveAddon(a) PROVE AddonsInv'
    BY <1>3, RemoveAddonKeeps
  <1>4. ASSUME NEW p \in Procs, NEW a \in ForgeAddons,
               \/ InstallAddon(p, a) \/ UpdateAddon(p, a)
               \/ RunAddonInstall(p, a) \/ RunAddonUpdate(p, a) \/ RunAddonRemove(p, a)
        PROVE  AddonsInv'
    BY <1>4, RequestsKeepAddons
  <1>5. ASSUME NEW p \in Procs,
               \/ Land(p) \/ GiveUp(p) \/ ApplyQueue(p) \/ DrainAll(p)
               \/ FetchOp(p) \/ PassOp(p) \/ SkipOp(p) \/ LandOp(p)
        PROVE  AddonsInv'
    BY <1>5, LandKeeps, AroundKeeps, DrainKeeps, FetchOpKeeps, PassKeeps, LandOpKeeps
  <1>6. CASE UNCHANGED addonVars
    BY <1>6, RowsKeep, OpsKeep, ChoresKeep DEF addonVars, rowVars, AddonsInv, OpPart, ChorePart
  <1>. QED BY <1>1, <1>2, <1>3, <1>4, <1>5, <1>6 DEF AddonsNext

\* Every reachable state of the mods, the addons, the queue and the processes is well
\* typed, and no two operations have the same id.
THEOREM AddonsTyped == AddonsSpec => []AddonsTypeOK
  BY AddonsInvTyped, AddonsInitInv, AddonsNextInv, PTL DEF AddonsSpec

\* However mods come and go during the downloads and drains of any number of tasks and
\* commands, an addon hangs on the mod it belongs to.
THEOREM OnTheirMod == AddonsSpec => []AddonsOnTheirMod
  <1>1. AddonsInv => AddonsOnTheirMod
    BY DEF AddonsInv, AddonRowPart
  <1>. QED BY <1>1, AddonsInitInv, AddonsNextInv, PTL DEF AddonsSpec

(***************************************************************************)
(* The board of requests                                                   *)
(***************************************************************************)

\* The whole story of a request, as HistoryIsWhole has it, and entry by entry: each
\* starts where the one before ended.
WholeStory(log, status) ==
  <<"pending">> \o [i \in 1..Len(log) |-> log[i].to] = Append([i \in 1..Len(log) |-> log[i].from], status)
After(log, i) == IF i = 0 THEN "pending" ELSE log[i].to
Chained(log, status) ==
  /\ \A i \in 1..Len(log) : log[i].from = After(log, i - 1)
  /\ status = After(log, Len(log))

LEMMA WholeIsChained ==
  ASSUME NEW log \in Seq(LogEntry), NEW status \in Statuses
  PROVE  WholeStory(log, status) <=> Chained(log, status)
  <1>. DEFINE n == Len(log)
              tos == [i \in 1..n |-> log[i].to]
              froms == [i \in 1..n |-> log[i].from]
              left == <<"pending">> \o tos
              right == Append(froms, status)
  <1>1. n \in Nat /\ \A i \in 1..n : log[i] \in LogEntry
    OBVIOUS
  <1>2. \A e \in LogEntry : e.from \in Statuses /\ e.to \in Statuses
    BY DEF LogEntry
  <1>3. tos \in Seq(Statuses) /\ Len(tos) = n /\ \A i \in 1..n : tos[i] = log[i].to
    BY <1>1, <1>2
  <1>4. froms \in Seq(Statuses) /\ Len(froms) = n /\ \A i \in 1..n : froms[i] = log[i].from
    BY <1>1, <1>2
  <1>5. <<"pending">> \in Seq(Statuses) /\ Len(<<"pending">>) = 1 /\ <<"pending">>[1] = "pending"
    BY DEF Statuses
  <1>. HIDE DEF tos, froms, n
  <1>6. /\ left \in Seq(Statuses) /\ Len(left) = n + 1
        /\ left[1] = "pending" /\ \A i \in 2..(n + 1) : left[i] = log[i - 1].to
    BY <1>1, <1>3, <1>5, ConcatProperties
  <1>7. /\ right \in Seq(Statuses) /\ Len(right) = n + 1
        /\ right[n + 1] = status /\ \A i \in 1..n : right[i] = log[i].from
    BY <1>1, <1>4, AppendProperties
  <1>8. WholeStory(log, status) <=> left = right
    BY DEF WholeStory, n, tos, froms
  <1>. HIDE DEF left, right
  <1>9. \A i \in 1..(n + 1) : left[i] = After(log, i - 1)
    BY <1>1, <1>6 DEF After
  <1>10. ASSUME left = right PROVE Chained(log, status)
    <2>1. \A i \in 1..n : i \in 1..(n + 1) /\ i \in 1..Len(log)
      BY <1>1 DEF n
    <2>2. \A i \in 1..n : log[i].from = After(log, i - 1)
      BY <1>7, <1>9, <1>10, <2>1
    <2>3. status = After(log, n)
      BY <1>1, <1>7, <1>9, <1>10
    <2>. QED BY <2>2, <2>3 DEF Chained, n
  <1>11. ASSUME Chained(log, status) PROVE left = right
    <2>1. \A i \in 1..n : left[i] = right[i]
      BY <1>1, <1>7, <1>9, <1>11 DEF Chained, n
    <2>2. left[n + 1] = right[n + 1]
      BY <1>1, <1>7, <1>9, <1>11 DEF Chained, n
    <2>3. \A i \in 1..(n + 1) : left[i] = right[i]
      BY <1>1, <2>1, <2>2
    <2>. QED BY <1>6, <1>7, <2>3, SeqEqual
  <1>. QED BY <1>8, <1>10, <1>11

LEMMA ChainGrows ==
  ASSUME NEW log \in Seq(LogEntry), NEW status \in Statuses, NEW to \in Statuses, Chained(log, status)
  PROVE  Chained(Append(log, [from |-> status, to |-> to]), to)
  <1>. DEFINE e == [from |-> status, to |-> to]
              new == Append(log, e)
  <1>1. e \in LogEntry /\ e.from = status /\ e.to = to
    BY DEF LogEntry
  <1>. HIDE DEF e
  <1>2. /\ Len(new) = Len(log) + 1 /\ Len(log) \in Nat
        /\ \A i \in 1..Len(log) : new[i] = log[i]
        /\ new[Len(log) + 1] = e
    BY <1>1, AppendProperties
  <1>. HIDE DEF new
  <1>3. \A i \in 0..Len(log) : After(new, i) = After(log, i)
    BY <1>2 DEF After
  <1>4. \A i \in 1..Len(log) : i - 1 \in 0..Len(log)
    BY <1>2
  <1>5. \A i \in 1..Len(log) : new[i].from = After(new, i - 1)
    BY <1>2, <1>3, <1>4 DEF Chained
  <1>6. new[Len(new)].from = After(new, Len(new) - 1)
    BY <1>1, <1>2, <1>3 DEF Chained
  <1>7. \A i \in 1..Len(new) : new[i].from = After(new, i - 1)
    BY <1>2, <1>5, <1>6
  <1>8. to = After(new, Len(new))
    BY <1>1, <1>2 DEF After
  <1>9. Chained(new, to)
    BY <1>7, <1>8 DEF Chained
  <1>. QED BY <1>9 DEF new, e

\* Who is there, and what was voted; a request and its log.
PeoplePart ==
  /\ present \subseteq Members /\ installed \in BOOLEAN /\ voting \subseteq Vote
  /\ votes \in [RequestIds -> [Voters -> {"up", "down", "none"}]]
  /\ \A r \in RequestIds, u \in Voters : votes[r][u] # "none" => u \in present
CardOK(b, log, there) ==
  /\ b \in Request \cup {NoRequest} /\ log \in Seq(LogEntry) /\ Len(log) <= MaxLog
  /\ b = NoRequest => log = <<>>
  /\ b # NoRequest => b.by \in there /\ b.resolver \in there \cup {NoRequest}
CardPart ==
  /\ board \in [RequestIds -> Request \cup {NoRequest}]
  /\ statusLog \in [RequestIds -> Seq(LogEntry)]
  /\ \A r \in RequestIds : CardOK(board[r], statusLog[r], present)
StoryPart == \A r \in OnBoard \ overtaken : Chained(statusLog[r], board[r].status)
IdPart == nextRequest \in Nat /\ \A r \in OnBoard : r < nextRequest
ReadPart == reading \in Reading \cup {NoRequest} /\ overtaken \subseteq RequestIds
BoardInv == PeoplePart /\ CardPart /\ StoryPart /\ IdPart /\ ReadPart

LEMMA BoardInvTyped == ASSUME BoardInv PROVE BoardTypeOK
  BY DEF BoardInv, PeoplePart, CardPart, CardOK, IdPart, ReadPart, BoardTypeOK

\* Votes are of members that are there, so a score is not more than they are.
LEMMA ScoreFits ==
  ASSUME PeoplePart, NEW r \in RequestIds
  PROVE  Score(r) \in -Cardinality(present)..Cardinality(present)
  <1>. DEFINE U(v) == {u \in Voters : votes[r][u] = v}
  <1>1. IsFiniteSet(present) /\ Cardinality(present) \in Nat
    BY BoardAssumption, FS_Subset, FS_CardinalityType DEF PeoplePart
  <1>2. ASSUME NEW v \in {"up", "down"} PROVE Cardinality(U(v)) \in 0..Cardinality(present)
    <2>1. U(v) \subseteq present
      BY DEF PeoplePart
    <2>. HIDE DEF U
    <2>2. IsFiniteSet(U(v)) /\ Cardinality(U(v)) <= Cardinality(present)
      BY <1>1, <2>1, FS_Subset
    <2>. QED BY <1>1, <2>2, FS_CardinalityType
  <1>3. Score(r) = Cardinality(U("up")) - Cardinality(U("down"))
    BY DEF Score
  <1>. HIDE DEF U
  <1>4. Cardinality(U("up")) \in 0..Cardinality(present) /\ Cardinality(U("down")) \in 0..Cardinality(present)
    BY <1>2
  <1>. QED BY <1>1, <1>3, <1>4

LEMMA BoardInvShows == ASSUME BoardInv PROVE HistoryIsWhole
  <1>. SUFFICES ASSUME NEW r \in OnBoard
                PROVE  /\ r \notin overtaken => WholeStory(statusLog[r], board[r].status)
                       /\ r \in Listed /\ board[r].resolver \in present \cup {NoRequest}
                       /\ Score(r) \in -Cardinality(present)..Cardinality(present)
    BY DEF HistoryIsWhole, WholeStory
  <1>1. r \in RequestIds /\ board[r] \in Request /\ board[r] # NoRequest /\ CardOK(board[r], statusLog[r], present)
    BY DEF OnBoard, BoardInv, CardPart
  <1>2. r \notin overtaken => WholeStory(statusLog[r], board[r].status)
    <2>1. board[r].status \in Statuses /\ statusLog[r] \in Seq(LogEntry)
      BY <1>1 DEF Request, CardOK
    <2>. QED BY <2>1, WholeIsChained DEF BoardInv, StoryPart
  <1>3. r \in Listed /\ board[r].resolver \in present \cup {NoRequest}
    BY <1>1 DEF CardOK, Listed
  <1>. QED BY <1>1, <1>2, <1>3, ScoreFits DEF BoardInv

LEMMA BoardInitInv == BoardInit => BoardInv
  <1>. SUFFICES ASSUME BoardInit PROVE BoardInv
    OBVIOUS
  <1>1. /\ board = [r \in RequestIds |-> NoRequest] /\ statusLog = [r \in RequestIds |-> <<>>] /\ OnBoard = {}
        /\ <<>> \in Seq(LogEntry) /\ Len(<<>>) = 0
    BY DEF BoardInit, OnBoard
  <1>2. PeoplePart
    BY DEF BoardInit, PeoplePart
  <1>3. CardPart
    BY <1>1, BoardAssumption DEF CardPart, CardOK
  <1>4. StoryPart /\ IdPart /\ ReadPart
    BY <1>1 DEF BoardInit, StoryPart, IdPart, ReadPart
  <1>. QED BY <1>2, <1>3, <1>4 DEF BoardInv

LEMMA CardFields ==
  ASSUME CardPart
  PROVE  /\ \A r \in OnBoard : /\ r \in RequestIds /\ board[r] \in Request /\ board[r].status \in Statuses
                               /\ board[r].by \in present /\ board[r].resolver \in present \cup {NoRequest}
         /\ \A r \in RequestIds \ OnBoard : board[r] = NoRequest /\ statusLog[r] = <<>>
         /\ \A r \in RequestIds : statusLog[r] \in Seq(LogEntry) /\ Len(statusLog[r]) <= MaxLog
  BY DEF CardPart, CardOK, OnBoard, Request

------------------------------------------------------------------------------
(* Moves of a status                                                       *)

\* Some requests move; where the entry names another status than the request had, it
\* is known to be overtaken.
LEMMA MovesKeep ==
  ASSUME CardPart, StoryPart, IdPart, ReadPart, NEW rs \in SUBSET OnBoard, NEW to \in Statuses, NEW before,
         \A r \in rs : before[r] \in Statuses /\ Room(r),
         MoveTo(to, rs, before),
         overtaken' \subseteq RequestIds, overtaken \subseteq overtaken',
         \A r \in rs : r \notin overtaken' => before[r] = board[r].status,
         UNCHANGED <<present, nextRequest>>
  PROVE  CardPart' /\ StoryPart' /\ IdPart'
  <1>1. /\ board' = [r \in RequestIds |-> IF r \in rs THEN [board[r] EXCEPT !.status = to] ELSE board[r]]
        /\ statusLog' = [r \in RequestIds |-> IF r \in rs THEN Append(statusLog[r], [from |-> before[r], to |-> to])
                                              ELSE statusLog[r]]
    BY DEF MoveTo
  <1>2. ASSUME NEW r \in rs
        PROVE  /\ r \in OnBoard /\ r \in RequestIds /\ board'[r] \in Request /\ board'[r].status = to
               /\ board'[r].by = board[r].by /\ board'[r].resolver = board[r].resolver
               /\ statusLog'[r] \in Seq(LogEntry) /\ Len(statusLog'[r]) <= MaxLog
               /\ r \notin overtaken' => Chained(statusLog'[r], to)
    <2>. DEFINE e == [from |-> before[r], to |-> to]
                log == statusLog[r]
    <2>1. r \in OnBoard /\ r \in RequestIds /\ board[r] \in Request /\ board[r].status \in Statuses
          /\ log \in Seq(LogEntry) /\ e \in LogEntry
      BY CardFields DEF LogEntry
    <2>2. board'[r] = [board[r] EXCEPT !.status = to] /\ statusLog'[r] = Append(log, e)
      BY <1>1, <2>1
    <2>3. /\ board'[r] \in Request /\ board'[r].status = to
          /\ board'[r].by = board[r].by /\ board'[r].resolver = board[r].resolver
      BY <2>1, <2>2 DEF Request
    <2>4. Append(log, e) \in Seq(LogEntry) /\ Len(Append(log, e)) <= MaxLog
      <3>1. Len(log) < MaxLog /\ Len(log) \in Nat
        BY <2>1 DEF Room
      <3>. HIDE DEF e, log
      <3>. QED BY <2>1, <3>1, AppendProperties, BoardAssumption
    <2>5. ASSUME r \notin overtaken' PROVE Chained(Append(log, e), to)
      <3>1. Chained(log, board[r].status) /\ before[r] = board[r].status
        BY <2>1, <2>5 DEF StoryPart
      <3>. QED BY <2>1, <3>1, ChainGrows
    <2>. QED BY <2>1, <2>2, <2>3, <2>4, <2>5
  <1>3. ASSUME NEW r \in RequestIds, r \notin rs PROVE board'[r] = board[r] /\ statusLog'[r] = statusLog[r]
    BY <1>1, <1>3
  <1>4. OnBoard' = OnBoard
    <2>1. \A r \in rs : board'[r] # NoRequest
      BY <1>2, BoardAssumption
    <2>. QED BY <1>3, <2>1 DEF OnBoard
  <1>5. \A r \in RequestIds : CardOK(board'[r], statusLog'[r], present)
    <2>1. TAKE r \in RequestIds
    <2>2. CASE r \in rs
      BY <1>2, <2>2, CardFields, BoardAssumption DEF CardOK
    <2>3. CASE r \notin rs
      BY <1>3, <2>3 DEF CardPart
    <2>. QED BY <2>2, <2>3
  <1>6. board' \in [RequestIds -> Request \cup {NoRequest}] /\ statusLog' \in [RequestIds -> Seq(LogEntry)]
    <2>1. \A r \in RequestIds : board'[r] \in Request \cup {NoRequest} /\ statusLog'[r] \in Seq(LogEntry)
      BY <1>5 DEF CardOK
    <2>. QED BY <1>1, <2>1
  <1>7. CardPart'
    BY <1>5, <1>6 DEF CardPart
  <1>8. StoryPart'
    <2>1. SUFFICES ASSUME NEW r \in OnBoard \ overtaken' PROVE Chained(statusLog'[r], board'[r].status)
      BY <1>4 DEF StoryPart
    <2>2. CASE r \in rs
      BY <1>2, <2>2
    <2>3. CASE r \notin rs
      BY <1>3, <2>3, CardFields DEF StoryPart
    <2>. QED BY <2>2, <2>3
  <1>9. IdPart'
    BY <1>4 DEF IdPart
  <1>. QED BY <1>7, <1>8, <1>9

\* One request, new or old, and its log.
LEMMA OneCard ==
  ASSUME CardPart, StoryPart, IdPart, NEW r \in RequestIds, NEW b \in Request, NEW log, CardOK(b, log, present),
         r \notin overtaken => Chained(log, b.status),
         board' = [board EXCEPT ![r] = b], statusLog' = [statusLog EXCEPT ![r] = log],
         nextRequest' \in Nat, nextRequest <= nextRequest', r < nextRequest', UNCHANGED <<present, overtaken>>
  PROVE  CardPart' /\ StoryPart' /\ IdPart'
  <1>1. /\ board'[r] = b /\ statusLog'[r] = log /\ log \in Seq(LogEntry)
        /\ \A q \in RequestIds : q # r => board'[q] = board[q] /\ statusLog'[q] = statusLog[q]
        /\ board' \in [RequestIds -> Request \cup {NoRequest}] /\ statusLog' \in [RequestIds -> Seq(LogEntry)]
    BY DEF CardPart, CardOK
  <1>2. CardPart'
    BY <1>1 DEF CardPart
  <1>3. \A q \in OnBoard' : q = r \/ q \in OnBoard
    BY <1>1 DEF OnBoard
  <1>4. StoryPart'
    BY <1>1, <1>3, CardFields DEF StoryPart, OnBoard
  <1>5. IdPart'
    <2>1. \A q \in OnBoard : q \in Nat /\ q < nextRequest
      BY CardFields, BoardAssumption DEF IdPart
    <2>. QED BY <1>3, <2>1 DEF IdPart
  <1>. QED BY <1>2, <1>4, <1>5

LEMMA CreateKeeps ==
  ASSUME BoardInv, NEW u \in Members, NEW r \in RequestIds, CreateRequest(u, r)
  PROVE  BoardInv'
  <1>. DEFINE b == [by |-> u, status |-> "pending", resolver |-> NoRequest]
  <1>1. /\ u \in present /\ r = nextRequest /\ nextRequest' = r + 1 /\ board' = [board EXCEPT ![r] = b]
        /\ UNCHANGED <<votes, statusLog, present, installed, voting, reading, overtaken>>
    BY DEF CreateRequest
  <1>2. b \in Request /\ b.by = u /\ b.resolver = NoRequest /\ b.status = "pending"
    BY DEF Request, Statuses
  <1>3. r \notin OnBoard /\ nextRequest' \in Nat /\ nextRequest <= nextRequest' /\ r < nextRequest'
    BY <1>1 DEF BoardInv, IdPart
  <1>4. statusLog[r] = <<>> /\ statusLog[r] \in Seq(LogEntry) /\ Len(statusLog[r]) <= MaxLog
    BY <1>3, CardFields DEF BoardInv
  <1>. HIDE DEF b
  <1>5. CardOK(b, statusLog[r], present)
    BY <1>1, <1>2, <1>4, BoardAssumption DEF CardOK
  <1>6. Chained(statusLog[r], b.status)
    BY <1>2, <1>4 DEF Chained, After
  <1>7. statusLog' = [statusLog EXCEPT ![r] = statusLog[r]]
    BY <1>1 DEF BoardInv, CardPart
  <1>8. CardPart' /\ StoryPart' /\ IdPart'
    BY <1>1, <1>2, <1>3, <1>5, <1>6, <1>7, OneCard DEF BoardInv
  <1>. QED BY <1>1, <1>8 DEF BoardInv, PeoplePart, ReadPart

LEMMA ResolveKeeps ==
  ASSUME BoardInv, NEW u \in Members, NEW r \in RequestIds, NEW to \in {"approved", "rejected"}, Resolve(u, r, to)
  PROVE  BoardInv'
  <1>. DEFINE x == IF board[r].resolver = NoRequest THEN u ELSE board[r].resolver
              b == [board[r] EXCEPT !.resolver = x]
              c == [b EXCEPT !.status = to]
              e == [from |-> board[r].status, to |-> to]
              open == Before(r, IF to = "approved" THEN {"pending"} ELSE {"pending", "approved"})
  <1>1. /\ u \in present /\ r \in OnBoard
        /\ UNCHANGED <<nextRequest, votes, present, installed, voting, reading, overtaken>>
    BY DEF Resolve
  <1>2. /\ board[r] \in Request /\ board[r].status \in Statuses /\ board[r].by \in present
        /\ board[r].resolver \in present \cup {NoRequest} /\ CardOK(board[r], statusLog[r], present)
        /\ statusLog[r] \in Seq(LogEntry) /\ Len(statusLog[r]) <= MaxLog
    BY <1>1, CardFields DEF BoardInv, CardPart
  <1>3. x \in present /\ x \in Members
    BY <1>1, <1>2 DEF BoardInv, PeoplePart
  <1>. HIDE DEF x
  <1>4. b \in Request /\ b.by = board[r].by /\ b.resolver = x /\ b.status = board[r].status
    BY <1>2, <1>3 DEF Request
  <1>. HIDE DEF b
  <1>5. c \in Request /\ c.by = board[r].by /\ c.resolver = x /\ c.status = to
    BY <1>4 DEF Request, Statuses
  <1>. HIDE DEF c
  <1>6. r < nextRequest /\ nextRequest \in Nat /\ nextRequest <= nextRequest /\ b # NoRequest /\ c # NoRequest
    BY <1>1, <1>4, <1>5, BoardAssumption DEF BoardInv, IdPart
  <1>7. CASE open
    <2>1. /\ Room(r) /\ board' = [board EXCEPT ![r] = c]
          /\ statusLog' = [statusLog EXCEPT ![r] = Append(statusLog[r], e)]
      <3>1. /\ Room(r) /\ board' = [[board EXCEPT ![r] = b] EXCEPT ![r].status = to]
            /\ statusLog' = [statusLog EXCEPT ![r] = Append(statusLog[r], e)]
        BY <1>7 DEF Resolve, b, x
      <3>2. [[board EXCEPT ![r] = b] EXCEPT ![r].status = to] = [board EXCEPT ![r] = c]
        BY DEF BoardInv, CardPart, c
      <3>. QED BY <3>1, <3>2
    <2>2. e \in LogEntry /\ to \in Statuses
      BY <1>2 DEF LogEntry, Statuses
    <2>3. Append(statusLog[r], e) \in Seq(LogEntry) /\ Len(Append(statusLog[r], e)) <= MaxLog
      <3>1. Len(statusLog[r]) < MaxLog /\ Len(statusLog[r]) \in Nat
        BY <1>2, <2>1 DEF Room
      <3>. HIDE DEF e
      <3>. QED BY <1>2, <2>2, <3>1, AppendProperties, BoardAssumption
    <2>4. CardOK(c, Append(statusLog[r], e), present)
      BY <1>2, <1>3, <1>5, <1>6, <2>3 DEF CardOK
    <2>5. r \notin overtaken => Chained(Append(statusLog[r], e), c.status)
      BY <1>1, <1>2, <1>5, <2>2, ChainGrows DEF BoardInv, StoryPart
    <2>. HIDE DEF e
    <2>6. CardPart' /\ StoryPart' /\ IdPart'
      BY <1>1, <1>5, <1>6, <2>1, <2>4, <2>5, OneCard DEF BoardInv
    <2>. QED BY <1>1, <2>6 DEF BoardInv, PeoplePart, ReadPart
  <1>8. CASE ~open
    <2>1. board' = [board EXCEPT ![r] = b] /\ statusLog' = [statusLog EXCEPT ![r] = statusLog[r]]
      BY <1>8 DEF Resolve, b, x, BoardInv, CardPart
    <2>2. CardOK(b, statusLog[r], present) /\ (r \notin overtaken => Chained(statusLog[r], b.status))
      BY <1>1, <1>2, <1>3, <1>4, <1>6 DEF CardOK, BoardInv, StoryPart
    <2>3. CardPart' /\ StoryPart' /\ IdPart'
      BY <1>1, <1>4, <1>6, <2>1, <2>2, OneCard DEF BoardInv
    <2>. QED BY <1>1, <2>3 DEF BoardInv, PeoplePart, ReadPart
  <1>. QED BY <1>7, <1>8

\* The dashboard moves requests by what they are when it writes.
LEMMA MovedByStatus ==
  ASSUME BoardInv, NEW rs \in SUBSET OnBoard, \A r \in rs : Room(r), NEW to \in Statuses, MoveTo(to, rs, StatusOf),
         UNCHANGED <<nextRequest, votes, present, voting, reading, overtaken>>, installed' \in BOOLEAN
  PROVE  BoardInv'
  <1>1. \A r \in rs : StatusOf[r] = board[r].status /\ StatusOf[r] \in Statuses
    BY CardFields DEF StatusOf, BoardInv
  <1>2. CardPart' /\ StoryPart' /\ IdPart'
    <2>. DEFINE before == StatusOf
    <2>1. \A r \in rs : before[r] \in Statuses /\ Room(r) /\ before[r] = board[r].status
      BY <1>1
    <2>. HIDE DEF before
    <2>2. MoveTo(to, rs, before) /\ overtaken' \subseteq RequestIds /\ overtaken \subseteq overtaken'
      BY DEF before, BoardInv, ReadPart
    <2>. QED BY <2>1, <2>2, MovesKeep DEF BoardInv
  <1>. QED BY <1>2 DEF BoardInv, PeoplePart, ReadPart

LEMMA DashboardMoves ==
  ASSUME BoardInv, InstallHere \/ RemoveHere \/ \E r \in RequestIds : Reopen(r) \/ QueueRequest(r)
  PROVE  BoardInv'
  <1>1. ASSUME NEW expected, NEW to \in Statuses, TransitionByMod(expected, to),
               UNCHANGED <<nextRequest, votes, present, voting, reading, overtaken>>, installed' \in BOOLEAN
        PROVE  BoardInv'
    <2>. DEFINE rs == {r \in OnBoard : Before(r, expected)}
    <2>1. rs \in SUBSET OnBoard /\ (\A r \in rs : Room(r)) /\ MoveTo(to, rs, StatusOf)
      BY <1>1 DEF TransitionByMod
    <2>. HIDE DEF rs
    <2>. QED BY <1>1, <2>1, MovedByStatus
  <1>2. ASSUME NEW r, NEW expected, NEW to \in Statuses, TransitionStatus(r, expected, to),
               UNCHANGED <<nextRequest, votes, present, installed, voting, reading, overtaken>>
        PROVE  BoardInv'
    <2>1. {r} \in SUBSET OnBoard /\ (\A q \in {r} : Room(q)) /\ MoveTo(to, {r}, StatusOf)
      BY <1>2 DEF TransitionStatus, Before
    <2>2. installed' \in BOOLEAN
      BY <1>2 DEF BoardInv, PeoplePart
    <2>. QED BY <1>2, <2>1, <2>2, MovedByStatus
  <1>3. {"approved", "queued", "installed", "pending"} \subseteq Statuses
    BY DEF Statuses
  <1>4. CASE InstallHere
    BY <1>1, <1>3, <1>4 DEF InstallHere
  <1>5. CASE RemoveHere
    BY <1>1, <1>3, <1>5 DEF RemoveHere
  <1>6. ASSUME NEW r \in RequestIds, Reopen(r) \/ QueueRequest(r) PROVE BoardInv'
    BY <1>2, <1>3, <1>6 DEF Reopen, QueueRequest
  <1>. QED BY <1>4, <1>5, <1>6

\* A command reads the statuses, and writes by what it read.
LEMMA CommandKeeps ==
  ASSUME BoardInv, CommandReads \/ CommandWrites \/ CommandDies
  PROVE  BoardInv'
  <1>1. CASE CommandReads
    <2>1. StatusOf \in [OnBoard -> Statuses] /\ OnBoard \in SUBSET RequestIds
      BY CardFields DEF StatusOf, BoardInv, OnBoard
    <2>2. reading' \in Reading
      BY <1>1, <2>1 DEF CommandReads, Reading
    <2>3. UNCHANGED <<board, nextRequest, votes, statusLog, present, voting, overtaken>> /\ installed' \in BOOLEAN
      BY <1>1 DEF CommandReads
    <2>. QED BY <2>2, <2>3 DEF BoardInv, PeoplePart, CardPart, StoryPart, IdPart, ReadPart, OnBoard
  <1>2. CASE CommandWrites
    <2>. DEFINE before == IF reading.to = "installed" THEN {"approved", "queued"} ELSE {"installed"}
                was == reading.was
                moved == {r \in OnBoard \cap DOMAIN was : was[r] \in before}
    <2>1. /\ reading # NoRequest /\ reading' = NoRequest
          /\ \A r \in moved : Room(r)
          /\ MoveTo(reading.to, moved, was)
          /\ overtaken' = overtaken \cup {r \in moved : was[r] # board[r].status}
          /\ UNCHANGED <<nextRequest, votes, present, installed, voting>>
      BY <1>2 DEF CommandWrites
    <2>2. reading \in Reading /\ reading.to \in Statuses
      BY <2>1 DEF BoardInv, ReadPart, Reading, Statuses
    <2>3. \A r \in moved : was[r] \in Statuses
      BY <2>2 DEF Reading
    <2>4. moved \in SUBSET OnBoard /\ moved \subseteq RequestIds
      BY DEF OnBoard
    <2>. HIDE DEF moved, was
    <2>5. overtaken' \subseteq RequestIds /\ overtaken \subseteq overtaken'
      BY <2>1, <2>4 DEF BoardInv, ReadPart
    <2>6. \A r \in moved : r \notin overtaken' => was[r] = board[r].status
      BY <2>1
    <2>7. CardPart' /\ StoryPart' /\ IdPart'
      BY <2>1, <2>2, <2>3, <2>4, <2>5, <2>6, MovesKeep DEF BoardInv
    <2>. QED BY <2>1, <2>5, <2>7 DEF BoardInv, PeoplePart, ReadPart
  <1>3. CASE CommandDies
    BY <1>3 DEF CommandDies, BoardInv, PeoplePart, CardPart, StoryPart, IdPart, ReadPart, OnBoard
  <1>. QED BY <1>1, <1>2, <1>3

------------------------------------------------------------------------------
(* Votes and members                                                       *)

LEMMA VoteKeeps ==
  ASSUME BoardInv,
         \/ \E u \in Voters, r \in RequestIds, up \in {"up", "down"} : StartVote(u, r, up)
         \/ \E v \in voting : GetVote(v) \/ WriteVote(v)
  PROVE  BoardInv'
  <1>1. ASSUME UNCHANGED <<board, nextRequest, statusLog, present, reading, overtaken>>
        PROVE  CardPart' /\ StoryPart' /\ IdPart' /\ ReadPart'
    BY <1>1 DEF BoardInv, CardPart, StoryPart, IdPart, ReadPart, OnBoard
  <1>2. ASSUME NEW u \in Voters, NEW r \in RequestIds, NEW up \in {"up", "down"}, StartVote(u, r, up)
        PROVE  BoardInv'
    <2>1. voting' \subseteq Vote
      BY <1>2 DEF StartVote, BoardInv, PeoplePart, Vote
    <2>2. UNCHANGED <<board, nextRequest, votes, statusLog, present, installed, reading, overtaken>>
      BY <1>2 DEF StartVote
    <2>. QED BY <1>1, <2>1, <2>2 DEF BoardInv, PeoplePart
  <1>3. ASSUME NEW v \in voting
        PROVE  /\ v \in Vote /\ v.by \in Voters /\ v.on \in RequestIds /\ v.up \in {"up", "down"}
               /\ votes[v.on][v.by] \in {"up", "down", "none"}
    <2>1. v \in Vote /\ v.by \in Voters /\ v.on \in RequestIds /\ v.up \in {"up", "down"}
      BY DEF BoardInv, PeoplePart, Vote
    <2>. QED BY <2>1 DEF BoardInv, PeoplePart
  <1>4. ASSUME NEW v \in voting, GetVote(v) PROVE BoardInv'
    <2>1. [v EXCEPT !.seen = votes[v.on][v.by]] \in Vote
      BY <1>3 DEF Vote
    <2>2. voting' \subseteq Vote
      BY <1>4, <2>1 DEF GetVote, BoardInv, PeoplePart
    <2>3. UNCHANGED <<board, nextRequest, votes, statusLog, present, installed, reading, overtaken>>
      BY <1>4 DEF GetVote
    <2>. QED BY <1>1, <2>2, <2>3 DEF BoardInv, PeoplePart
  <1>5. ASSUME NEW v \in voting, WriteVote(v) PROVE BoardInv'
    <2>. DEFINE w == IF v.seen = v.up THEN "none" ELSE v.up
    <2>1. w \in {"up", "down", "none"} /\ v.on \in RequestIds /\ v.by \in Voters
      BY <1>3
    <2>2. /\ voting' \subseteq Vote /\ UNCHANGED <<board, nextRequest, statusLog, present, installed, reading, overtaken>>
          /\ votes' = votes \/ (v.by \in present /\ votes' = [votes EXCEPT ![v.on][v.by] = w])
      BY <1>5 DEF WriteVote, BoardInv, PeoplePart
    <2>. HIDE DEF w
    <2>3. CASE votes' = votes
      BY <1>1, <2>2, <2>3 DEF BoardInv, PeoplePart
    <2>4. CASE v.by \in present /\ votes' = [votes EXCEPT ![v.on][v.by] = w]
      <3>. DEFINE mine == [votes[v.on] EXCEPT ![v.by] = w]
      <3>1. mine \in [Voters -> {"up", "down", "none"}] /\ mine[v.by] = w /\ \A u \in Voters : u # v.by => mine[u] = votes[v.on][u]
        BY <2>1 DEF BoardInv, PeoplePart
      <3>2. votes' = [votes EXCEPT ![v.on] = mine]
        BY <2>4
      <3>. HIDE DEF mine
      <3>3. /\ votes' \in [RequestIds -> [Voters -> {"up", "down", "none"}]] /\ votes'[v.on] = mine
            /\ \A r \in RequestIds : r # v.on => votes'[r] = votes[r]
        BY <2>1, <3>1, <3>2 DEF BoardInv, PeoplePart
      <3>4. \A r \in RequestIds, u \in Voters : votes'[r][u] # "none" => u \in present
        <4>1. TAKE r \in RequestIds, u \in Voters
        <4>. QED BY <2>4, <3>1, <3>3 DEF BoardInv, PeoplePart
      <3>. QED BY <1>1, <2>2, <3>3, <3>4 DEF BoardInv, PeoplePart
    <2>. QED BY <2>2, <2>3, <2>4
  <1>. QED BY <1>2, <1>4, <1>5

\* A member goes with its requests, their logs and its votes, and its name.
LEMMA MemberKeeps == ASSUME BoardInv, NEW u \in Members, MemberGoes(u) PROVE BoardInv'
  <1>. DEFINE gone == {r \in OnBoard : board[r].by = u}
  <1>1. /\ present' = present \ {u}
        /\ board' = [r \in RequestIds |->
             IF r \notin OnBoard \/ r \in gone THEN NoRequest
             ELSE [board[r] EXCEPT !.resolver = IF @ = u THEN NoRequest ELSE @]]
        /\ votes' = [r \in RequestIds |-> [w \in Voters |-> IF r \in gone \/ w = u THEN "none" ELSE votes[r][w]]]
        /\ statusLog' = [r \in RequestIds |-> IF r \in gone THEN <<>> ELSE statusLog[r]]
        /\ UNCHANGED <<nextRequest, installed, voting, reading, overtaken>>
    BY DEF MemberGoes
  <1>2. PeoplePart'
    <2>1. ASSUME NEW r \in RequestIds
          PROVE  /\ votes'[r] = [w \in Voters |-> IF r \in gone \/ w = u THEN "none" ELSE votes[r][w]]
                 /\ votes'[r] \in [Voters -> {"up", "down", "none"}]
                 /\ \A w \in Voters : votes'[r][w] # "none" => w # u /\ votes[r][w] # "none"
      <3>1. votes'[r] = [w \in Voters |-> IF r \in gone \/ w = u THEN "none" ELSE votes[r][w]]
        BY <1>1
      <3>2. votes[r] \in [Voters -> {"up", "down", "none"}]
        BY DEF BoardInv, PeoplePart
      <3>. HIDE DEF gone
      <3>. QED BY <3>1, <3>2
    <2>2. votes' \in [RequestIds -> [Voters -> {"up", "down", "none"}]]
      <3>. DEFINE R == [Voters -> {"up", "down", "none"}]
                  f(r) == [w \in Voters |-> IF r \in gone \/ w = u THEN "none" ELSE votes[r][w]]
      <3>1. \A r \in RequestIds : f(r) \in R
        BY <2>1
      <3>2. votes' = [r \in RequestIds |-> f(r)]
        BY <1>1
      <3>. HIDE DEF R, f
      <3>3. votes' \in [RequestIds -> R]
        BY <3>1, <3>2
      <3>. QED BY <3>3 DEF R
    <2>. QED BY <1>1, <2>1, <2>2 DEF BoardInv, PeoplePart
  <1>3. ASSUME NEW r \in OnBoard \ gone
        PROVE  /\ r \in RequestIds /\ board'[r] \in Request /\ board'[r].by = board[r].by
               /\ board'[r].status = board[r].status /\ statusLog'[r] = statusLog[r]
               /\ CardOK(board'[r], statusLog'[r], present')
    <2>. DEFINE x == IF board[r].resolver = u THEN NoRequest ELSE board[r].resolver
                b == [board[r] EXCEPT !.resolver = x]
    <2>1. /\ r \in RequestIds /\ board[r] \in Request /\ board[r].by \in present /\ board[r].by # u
          /\ board[r].resolver \in present \cup {NoRequest}
          /\ statusLog[r] \in Seq(LogEntry) /\ Len(statusLog[r]) <= MaxLog
      BY CardFields DEF BoardInv
    <2>2. board'[r] = b /\ statusLog'[r] = statusLog[r]
      BY <1>1, <2>1
    <2>3. x \in present' \cup {NoRequest} /\ x \in Members \cup {NoRequest}
      BY <1>1, <2>1 DEF BoardInv, PeoplePart
    <2>. HIDE DEF x
    <2>4. b \in Request /\ b.by = board[r].by /\ b.status = board[r].status /\ b.resolver = x
      BY <2>1, <2>3 DEF Request
    <2>. HIDE DEF b
    <2>5. CardOK(b, statusLog[r], present')
      BY <1>1, <2>1, <2>3, <2>4, BoardAssumption DEF CardOK
    <2>. QED BY <2>1, <2>2, <2>4, <2>5
  <1>4. ASSUME NEW r \in RequestIds, r \notin OnBoard \ gone
        PROVE  board'[r] = NoRequest /\ statusLog'[r] = <<>> /\ CardOK(board'[r], statusLog'[r], present')
    <2>1. board'[r] = NoRequest /\ statusLog'[r] = <<>>
      BY <1>1, <1>4, CardFields DEF BoardInv
    <2>. QED BY <2>1, BoardAssumption DEF CardOK
  <1>5. OnBoard' = OnBoard \ gone
    <2>1. \A r \in OnBoard \ gone : board'[r] # NoRequest
      BY <1>3, BoardAssumption
    <2>2. \A r \in RequestIds : r \in OnBoard' <=> r \in OnBoard \ gone
      BY <1>4, <2>1 DEF OnBoard
    <2>. QED BY <2>2 DEF OnBoard
  <1>. HIDE DEF gone
  <1>6. \A r \in RequestIds : CardOK(board'[r], statusLog'[r], present')
    BY <1>3, <1>4
  <1>7. CardPart'
    <2>1. \A r \in RequestIds : board'[r] \in Request \cup {NoRequest} /\ statusLog'[r] \in Seq(LogEntry)
      BY <1>6 DEF CardOK
    <2>2. board' \in [RequestIds -> Request \cup {NoRequest}] /\ statusLog' \in [RequestIds -> Seq(LogEntry)]
      BY <1>1, <2>1
    <2>. QED BY <1>6, <2>2 DEF CardPart
  <1>8. StoryPart' /\ IdPart' /\ ReadPart'
    BY <1>1, <1>3, <1>5 DEF BoardInv, StoryPart, IdPart, ReadPart
  <1>. QED BY <1>2, <1>7, <1>8 DEF BoardInv

LEMMA BoardNextInv == BoardInv /\ [BoardNext]_boardVars => BoardInv'
  <1>. SUFFICES ASSUME BoardInv, [BoardNext]_boardVars PROVE BoardInv'
    OBVIOUS
  <1>1. CASE UNCHANGED boardVars
    BY <1>1 DEF boardVars, BoardInv, PeoplePart, CardPart, StoryPart, IdPart, ReadPart, OnBoard
  <1>. QED BY <1>1, CreateKeeps, ResolveKeeps, VoteKeeps, DashboardMoves, CommandKeeps, MemberKeeps DEF BoardNext

\* Every reachable state of the board is well typed.
THEOREM BoardTyped == BoardSpec => []BoardTypeOK
  BY BoardInvTyped, BoardInitInv, BoardNextInv, PTL DEF BoardSpec

\* Whoever moved a request, for any members, requests and lengths of the log: its log is
\* its whole story, unless a command overtook it; every request is listed, and names and
\* counts nobody who is gone.
THEOREM WholeHistory == BoardSpec => []HistoryIsWhole
  BY BoardInvShows, BoardInitInv, BoardNextInv, PTL DEF BoardSpec

(***************************************************************************)
(* Backups                                                                 *)
(***************************************************************************)

RowTypes ==
  /\ row \in [Items -> ItemRow \cup {Nothing}] /\ owner \in [Items -> Items \cup {Nothing}]
  /\ live \in Copy /\ stash \in Copy /\ require \in BOOLEAN /\ spoilt \in BOOLEAN
RecordTypes ==
  /\ records \subseteq Record /\ dirs \in [DirIds -> Content \cup {Nothing}] /\ lastDir \in 0..MaxDirs

\* A path belongs to its item or, after a restore, to the mod of the item, and the owner
\* is there.
Owns(p) == owner[p] \in {Nothing, p, FamilyOf(p)} /\ (owner[p] # Nothing => row[owner[p]] # Nothing)
OwnPart == \A p \in Items : Owns(p)

\* An item that is there owns its path, and the file is what its row says.
Matches(i) == (row[i] # Nothing <=> owner[i] = i) /\ (row[i] # Nothing => FileAt(i) = row[i].version)
MatchPart == ~spoilt => \A i \in Items : Matches(i)

\* What a restore finds in a directory: the item of every file, and nothing outside of
\* the family; unless it was spoilt, each file as the manifest has it.
SoundCopy(r, d) ==
  /\ \A p \in Items : d.copy[p] # 0 => d.manifest[p] # 0 \/ d.manifest[FamilyOf(p)] # 0
  /\ r.kind = "mod" => /\ d.manifest[r.mod] = r.version
                       /\ \A p \in Items : d.copy[p] # 0 => p \in Family(r.mod)
Exact(d) == \A i \in Items : d.manifest[i] # 0 => d.copy[i] = d.manifest[i]
RecordFits(r) ==
  /\ r.kind = "mod" => r.mod \in Mods /\ r.version # 0
  /\ r.kind = "full" => r.mod = Nothing
RecordOK(r) ==
  /\ r.dir <= lastDir /\ RecordFits(r)
  /\ Whole(r) => SoundCopy(r, dirs[r.dir]) /\ (~spoilt => Exact(dirs[r.dir]))
RecordPart == \A r \in records : RecordOK(r)
FilesInv == RowTypes /\ OwnPart /\ MatchPart
RecordsInv == RecordTypes /\ RecordPart
BackupsInv == FilesInv /\ RecordsInv

LEMMA BackupsInvShows == ASSUME BackupsInv PROVE BackupsTypeOK /\ RowsMatchFiles
  BY DEF BackupsInv, FilesInv, RecordsInv, RowTypes, RecordTypes, MatchPart, Matches, BackupsTypeOK, RowsMatchFiles

LEMMA BackupsInitInv == BackupsInit => BackupsInv
  <1>. SUFFICES ASSUME BackupsInit PROVE BackupsInv
    OBVIOUS
  <1>1. RowTypes
    <2>1. 0 \in 0..MaxVersion
      BY BackupsAssumption
    <2>2. [p \in Items |-> 0] \in Copy
      BY <2>1 DEF Copy
    <2>. QED BY <2>2 DEF BackupsInit, RowTypes
  <1>2. RecordTypes /\ RecordPart
    BY BackupsAssumption DEF BackupsInit, RecordTypes, RecordPart, DirIds
  <1>3. OwnPart /\ MatchPart
    BY BackupsAssumption DEF BackupsInit, OwnPart, MatchPart, Owns, Matches
  <1>. QED BY <1>1, <1>2, <1>3 DEF BackupsInv, FilesInv, RecordsInv

LEMMA FamilyFields ==
  /\ \A i \in Items : FamilyOf(i) \in Mods /\ i \in Family(FamilyOf(i)) /\ i # Nothing
  /\ \A m \in Mods : m \in Items /\ FamilyOf(m) = m /\ m \in Family(m) /\ Family(m) \subseteq Items /\ m # Nothing
  /\ \A m \in Mods : \A p \in Family(m) : FamilyOf(p) = m
  /\ \A m \in Mods : \A n \in Family(m) : n \in Mods => n = m
  /\ \A a \in Addons : a \in Items /\ a \notin Mods
  BY BackupsAssumption DEF FamilyOf, Family, Items

LEMMA FileFields ==
  ASSUME RowTypes
  PROVE  /\ \A i \in Items : row[i] = Nothing \/ (row[i] \in ItemRow /\ row[i].version \in Vers /\ row[i].disabled \in BOOLEAN)
         /\ \A p \in Items : /\ owner[p] = Nothing \/ owner[p] \in Items
                             /\ live[p] \in 0..MaxVersion /\ stash[p] \in 0..MaxVersion /\ FileAt(p) \in 0..MaxVersion
         /\ \A v \in Vers : v \in 0..MaxVersion /\ v # 0 /\ v \in Nat
         /\ \A r \in ItemRow : r # Nothing
         /\ MaxVersion \in Nat /\ 0 \in 0..MaxVersion
  <1>1. MaxVersion \in Nat /\ \A r \in ItemRow : r # Nothing
    BY BackupsAssumption
  <1>. QED BY <1>1 DEF RowTypes, ItemRow, Copy, FileAt, Vers

(* The backups side: what is copied fits its record, and stays. *)

LEMMA DirSound ==
  ASSUME RowTypes, OwnPart, NEW S \in SUBSET Items
  PROVE  /\ Dir(S) \in Content
         /\ \A p \in Items : Dir(S).copy[p] # 0 => owner[p] \in S /\ (Dir(S).manifest[p] # 0 \/ Dir(S).manifest[FamilyOf(p)] # 0)
         /\ \A i \in S : row[i] # Nothing => Dir(S).manifest[i] = row[i].version
         /\ ~spoilt /\ MatchPart => Exact(Dir(S))
  <1>. DEFINE c == CopyOf(S)
              f == ManifestOf(S)
  <1>1. /\ Dir(S) = [copy |-> c, manifest |-> f] /\ Dir(S).copy = c /\ Dir(S).manifest = f
        /\ c \in [Items -> 0..MaxVersion] /\ f \in [Items -> 0..MaxVersion]
        /\ \A p \in Items : c[p] = IF owner[p] \in S THEN FileAt(p) ELSE 0
        /\ \A i \in Items : f[i] = IF i \in S /\ row[i] # Nothing THEN row[i].version ELSE 0
    BY FileFields DEF Dir, CopyOf, ManifestOf, Installed
  <1>. HIDE DEF c, f
  <1>2. Dir(S) \in Content
    BY <1>1 DEF Content, Copy
  <1>3. ASSUME NEW p \in Items, c[p] # 0 PROVE owner[p] \in S /\ (f[p] # 0 \/ f[FamilyOf(p)] # 0)
    <2>1. owner[p] \in S /\ owner[p] \in Items
      BY <1>1, <1>3
    <2>2. owner[p] \in {p, FamilyOf(p)} /\ row[owner[p]] # Nothing
      BY <2>1, BackupsAssumption DEF OwnPart, Owns
    <2>3. f[owner[p]] = row[owner[p]].version /\ f[owner[p]] # 0
      BY <1>1, <2>1, <2>2, FileFields
    <2>. QED BY <2>1, <2>2, <2>3
  <1>4. ASSUME ~spoilt, MatchPart, NEW i \in Items, f[i] # 0 PROVE c[i] = f[i]
    <2>1. i \in S /\ row[i] # Nothing /\ f[i] = row[i].version
      BY <1>1, <1>4
    <2>2. owner[i] = i /\ FileAt(i) = row[i].version
      BY <1>4, <2>1 DEF MatchPart, Matches
    <2>. QED BY <1>1, <2>1, <2>2
  <1>. QED BY <1>1, <1>2, <1>3, <1>4 DEF Exact

\* What a backup is of: a mod that is there, with its addons, or everything.
BackupKind(kind, m) == (kind = "mod" /\ m \in Mods /\ row[m] # Nothing) \/ (kind = "full" /\ m = Nothing)
Extent(m) == IF m = Nothing THEN Items ELSE Family(m)

LEMMA NewFields ==
  ASSUME RowTypes, RecordTypes, NEW kind, NEW m, BackupKind(kind, m), lastDir < MaxDirs
  PROVE  LET n == NewRecord(kind, m) IN
         /\ n \in Record /\ n.dir = lastDir + 1 /\ n.kind = kind /\ n.mod = m /\ RecordFits(n)
         /\ (m # Nothing => n.version = row[m].version)
         /\ lastDir + 1 \in DirIds /\ Extent(m) \in SUBSET Items
  <1>1. lastDir + 1 \in DirIds /\ Extent(m) \in SUBSET Items
    BY FamilyFields, BackupsAssumption DEF RecordTypes, DirIds, Extent, BackupKind
  <1>2. CASE kind = "mod" /\ m \in Mods /\ row[m] # Nothing
    <2>1. m # Nothing /\ row[m].version \in 0..MaxVersion /\ row[m].version # 0
      BY <1>2, FamilyFields, FileFields
    <2>. QED BY <1>1, <1>2, <2>1 DEF NewRecord, Record, RecordFits
  <1>3. CASE kind = "full" /\ m = Nothing
    BY <1>1, <1>3, FileFields DEF NewRecord, Record, RecordFits
  <1>. QED BY <1>2, <1>3 DEF BackupKind

LEMMA PrunedFields ==
  ASSUME RowTypes, RecordsInv, NEW kind, NEW m, BackupKind(kind, m), NEW gone, NEW hollow,
         Pruned(WithNew(kind, m), gone, hollow)
  PROVE  /\ lastDir < MaxDirs /\ lastDir' = lastDir + 1
         /\ records' = (WithNew(kind, m) \ gone) \cup hollow
         /\ dirs' = [d \in DirIds |-> IF d \in {r.dir : r \in gone} THEN Nothing
                                      ELSE IF d = lastDir + 1 THEN Dir(Extent(m)) ELSE dirs[d]]
  <1>. DEFINE all == WithNew(kind, m)
              n == NewRecord(kind, m)
              new == CHOOSE r \in all : r.dir = lastDir + 1
  <1>1. lastDir < MaxDirs
    BY DEF Pruned
  <1>2. n \in all /\ n.dir = lastDir + 1 /\ n.mod = m
    BY <1>1, NewFields DEF WithNew, RecordsInv
  <1>3. \A r \in all : r.dir = lastDir + 1 => r = n
    <2>1. \A r \in records : r.dir <= lastDir /\ r.dir \in Nat /\ lastDir \in Nat
      BY DEF RecordsInv, RecordPart, RecordOK, RecordTypes, Record, DirIds
    <2>2. \A r \in records : r.dir # lastDir + 1
      BY <2>1
    <2>. QED BY <2>2 DEF WithNew
  <1>4. new = n
    <2>. HIDE DEF n
    <2>. QED BY <1>2, <1>3
  <1>5. new.mod = m
    BY <1>2, <1>4
  <1>. QED BY <1>1, <1>5 DEF Pruned, Extent

LEMMA PrunedKeeps ==
  ASSUME RowTypes, OwnPart, MatchPart, RecordsInv, NEW kind, NEW m, BackupKind(kind, m),
         NEW gone, NEW hollow, hollow \subseteq gone, gone \subseteq WithNew(kind, m),
         Pruned(WithNew(kind, m), gone, hollow), UNCHANGED spoilt
  PROVE  RecordsInv'
  <1>. DEFINE n == NewRecord(kind, m)
              D == Dir(Extent(m))
  <1>1. /\ lastDir < MaxDirs /\ lastDir' = lastDir + 1 /\ records' \subseteq records \cup {n}
        /\ \A d \in DirIds : \/ dirs'[d] = Nothing
                             \/ d = lastDir + 1 /\ dirs'[d] = D
                             \/ d # lastDir + 1 /\ dirs'[d] = dirs[d]
    <2>1. /\ lastDir < MaxDirs /\ lastDir' = lastDir + 1
          /\ records' = (WithNew(kind, m) \ gone) \cup hollow
          /\ dirs' = [d \in DirIds |-> IF d \in {r.dir : r \in gone} THEN Nothing
                                       ELSE IF d = lastDir + 1 THEN D ELSE dirs[d]]
      BY PrunedFields
    <2>2. WithNew(kind, m) = records \cup {n}
      BY DEF WithNew
    <2>. HIDE DEF D, n
    <2>. QED BY <2>1, <2>2
  <1>2. /\ n \in Record /\ n.dir = lastDir + 1 /\ n.kind = kind /\ n.mod = m /\ RecordFits(n)
        /\ (m # Nothing => n.version = row[m].version)
        /\ lastDir + 1 \in DirIds /\ Extent(m) \in SUBSET Items
    BY <1>1, NewFields DEF RecordsInv
  <1>3. D \in Content /\ SoundCopy(n, D) /\ (~spoilt => Exact(D))
    <2>1. /\ D \in Content
          /\ \A p \in Items : D.copy[p] # 0 => owner[p] \in Extent(m) /\ (D.manifest[p] # 0 \/ D.manifest[FamilyOf(p)] # 0)
          /\ \A i \in Extent(m) : row[i] # Nothing => D.manifest[i] = row[i].version
          /\ ~spoilt => Exact(D)
      BY <1>2, DirSound
    <2>. HIDE DEF D, n
    <2>2. ASSUME kind = "mod"
          PROVE D.manifest[m] = n.version /\ \A p \in Items : D.copy[p] # 0 => p \in Family(m)
      <3>1. m \in Mods /\ m # Nothing /\ row[m] # Nothing /\ Extent(m) = Family(m) /\ m \in Family(m)
        BY <2>2, FamilyFields DEF BackupKind, Extent
      <3>2. ASSUME NEW p \in Items, D.copy[p] # 0 PROVE p \in Family(m)
        <4>1. owner[p] \in Family(m) /\ owner[p] \in {Nothing, p, FamilyOf(p)}
          BY <2>1, <3>1, <3>2 DEF OwnPart, Owns
        <4>2. owner[p] # Nothing
          BY <3>1, <4>1, FamilyFields
        <4>3. CASE owner[p] = FamilyOf(p)
          <5>1. FamilyOf(p) = m
            BY <3>1, <4>1, <4>3, FamilyFields
          <5>. QED BY <5>1, FamilyFields
        <4>. QED BY <4>1, <4>2, <4>3
      <3>. QED BY <1>2, <2>1, <3>1, <3>2
    <2>. QED BY <1>2, <2>1, <2>2 DEF SoundCopy
  <1>4. RecordTypes'
    <2>. HIDE DEF D, n
    <2>1. DOMAIN dirs' = DirIds /\ dirs' = [d \in DirIds |-> dirs'[d]]
      BY PrunedFields
    <2>2. \A d \in DirIds : dirs'[d] \in Content \cup {Nothing}
      BY <1>1, <1>3 DEF RecordsInv, RecordTypes
    <2>3. dirs' \in [DirIds -> Content \cup {Nothing}]
      BY <2>1, <2>2
    <2>4. lastDir' \in 0..MaxDirs
      BY <1>1, BackupsAssumption DEF RecordsInv, RecordTypes
    <2>. QED BY <1>1, <1>2, <2>3, <2>4 DEF RecordsInv, RecordTypes
  <1>5. ASSUME NEW r \in records' PROVE RecordOK(r)'
    <2>. HIDE DEF D, n
    <2>1. r.dir \in DirIds /\ r.dir \in Nat /\ lastDir \in Nat
      BY <1>1, <1>2 DEF RecordsInv, RecordTypes, Record, DirIds
    <2>2. CASE r \in records
      <3>1. RecordOK(r) /\ r.dir # lastDir + 1
        BY <2>1, <2>2 DEF RecordsInv, RecordPart, RecordOK
      <3>2. dirs'[r.dir] = Nothing \/ dirs'[r.dir] = dirs[r.dir]
        BY <1>1, <2>1, <3>1
      <3>. QED BY <1>1, <2>1, <3>1, <3>2 DEF RecordOK, Whole, RecordFits, SoundCopy
    <2>3. CASE r = n
      <3>1. dirs'[r.dir] = Nothing \/ dirs'[r.dir] = D
        BY <1>1, <1>2, <2>3
      <3>2. SoundCopy(r, D) /\ (~spoilt => Exact(D)) /\ RecordFits(r) /\ r.dir <= lastDir'
        BY <1>1, <1>2, <1>3, <2>1, <2>3
      <3>. QED BY <3>1, <3>2 DEF RecordOK, Whole, RecordFits, SoundCopy
    <2>. QED BY <1>1, <2>2, <2>3
  <1>. QED BY <1>4, <1>5 DEF RecordsInv, RecordPart

LEMMA RecordsRest ==
  ASSUME RecordsInv, UNCHANGED <<records, dirs>>, spoilt' = spoilt \/ spoilt' = TRUE,
         lastDir' = lastDir \/ (lastDir < MaxDirs /\ lastDir' = lastDir + 1)
  PROVE  RecordsInv'
  <1>1. lastDir' \in 0..MaxDirs /\ lastDir \in Nat /\ lastDir' \in Nat /\ lastDir <= lastDir'
    BY BackupsAssumption DEF RecordsInv, RecordTypes
  <1>2. RecordTypes'
    BY <1>1 DEF RecordsInv, RecordTypes
  <1>3. ASSUME NEW r \in records' PROVE RecordOK(r)'
    <2>1. RecordOK(r) /\ r.dir \in Nat
      BY DEF RecordsInv, RecordPart, RecordTypes, Record, DirIds
    <2>2. r.dir <= lastDir'
      BY <1>1, <2>1 DEF RecordOK
    <2>. QED BY <2>1, <2>2 DEF RecordOK, RecordFits, Whole, SoundCopy
  <1>. QED BY <1>2, <1>3 DEF RecordsInv, RecordPart

LEMMA TakeKeeps ==
  ASSUME RowTypes, OwnPart, MatchPart, RecordsInv, NEW kind, NEW m, BackupKind(kind, m),
         Take(kind, m) \/ TakeDies(kind, m), UNCHANGED spoilt
  PROVE  RecordsInv'
  <1>. DEFINE all == WithNew(kind, m)
              many == all \ Retained(all)
  <1>1. CASE Take(kind, m)
    BY <1>1, PrunedKeeps DEF Take
  <1>2. CASE TakeDies(kind, m)
    <2>1. PICK last \in many : Pruned(all, {r \in many : r.dir <= last.dir}, {last})
      BY <1>2 DEF TakeDies
    <2>2. last \in {r \in many : r.dir <= last.dir}
      <3>1. last.dir \in Nat
        <4>1. lastDir < MaxDirs
          BY <2>1 DEF Pruned
        <4>2. NewRecord(kind, m) \in Record
          BY <4>1, NewFields DEF RecordsInv
        <4>. QED BY <2>1, <4>2 DEF RecordsInv, RecordTypes, Record, WithNew, DirIds
      <3>. QED BY <3>1
    <2>3. {last} \subseteq {r \in many : r.dir <= last.dir}
      BY <2>2
    <2>. QED BY <2>1, <2>3, PrunedKeeps
  <1>. QED BY <1>1, <1>2

LEMMA BackedUpKeeps ==
  ASSUME FilesInv, RecordsInv, NEW i \in Items, row[i] # Nothing, NEW trigger, trigger \in Triggers => i \in Mods,
         BackedUp(i, trigger), UNCHANGED spoilt
  PROVE  RecordsInv'
  <1>1. CASE trigger \in Triggers /\ Take("mod", FamilyOf(i))
    <2>1. FamilyOf(i) = i /\ BackupKind("mod", i)
      BY <1>1, FamilyFields DEF BackupKind
    <2>. QED BY <1>1, <2>1, TakeKeeps DEF FilesInv
  <1>2. CASE TakeFails
    BY <1>2, RecordsRest DEF TakeFails
  <1>. QED BY <1>1, <1>2 DEF BackedUp

(* The files side. *)

\* The invariant of rows and files, item by item.
FileOf(i) == IF row[i].disabled THEN stash[i] ELSE live[i]
InPlace(i) == (row[i] # Nothing <=> owner[i] = i) /\ (row[i] # Nothing => FileOf(i) = row[i].version)
LEMMA InPlaceMatches == \A i \in Items : Matches(i) <=> InPlace(i)
  BY FamilyFields DEF Matches, InPlace, FileAt, FileOf
LEMMA InPlaceMatchesNext == \A i \in Items : Matches(i)' <=> InPlace(i)'
  BY FamilyFields DEF Matches, InPlace, FileAt, FileOf

LEMMA FilesKeep ==
  ASSUME FilesInv, RowTypes', spoilt' = spoilt,
         \A p \in Items : Owns(p)',
         ~spoilt => \A i \in Items : InPlace(i)'
  PROVE  FilesInv'
  BY InPlaceMatchesNext DEF FilesInv, OwnPart, MatchPart

LEMMA InstallKeeps ==
  ASSUME FilesInv, NEW i \in Items, NEW v \in Vers, Install(i, v)
  PROVE  FilesInv'
  <1>. DEFINE n == [version |-> v, disabled |-> FALSE]
  <1>1. n \in ItemRow /\ n.version = v /\ n.disabled = FALSE /\ n # Nothing /\ v \in 0..MaxVersion
    BY FileFields DEF ItemRow, FilesInv
  <1>2. /\ row' = [row EXCEPT ![i] = n] /\ owner' = [owner EXCEPT ![i] = i] /\ live' = [live EXCEPT ![i] = v]
        /\ UNCHANGED <<stash, require, spoilt>> /\ row[i] = Nothing /\ owner[i] = Nothing
    BY DEF Install
  <1>. HIDE DEF n
  <1>3. RowTypes'
    BY <1>1, <1>2 DEF FilesInv, RowTypes, Copy
  <1>4. ASSUME NEW p \in Items PROVE Owns(p)'
    BY <1>1, <1>2, FamilyFields DEF FilesInv, RowTypes, OwnPart, Owns
  <1>5. ASSUME ~spoilt, NEW p \in Items PROVE InPlace(p)'
    <2>1. InPlace(p)
      BY <1>5, InPlaceMatches DEF FilesInv, MatchPart
    <2>. QED BY <1>1, <1>2, <2>1 DEF InPlace, FileOf, FilesInv, RowTypes, Copy
  <1>. QED BY <1>2, <1>3, <1>4, <1>5, FilesKeep

LEMMA UpdateKeeps ==
  ASSUME FilesInv, NEW i \in Items, NEW v \in Vers, Update(i, v)
  PROVE  FilesInv'
  <1>. DEFINE n == [row[i] EXCEPT !.version = v]
              S == PathsOf({i})
  <1>1. n \in ItemRow /\ n.version = v /\ n.disabled = row[i].disabled /\ n # Nothing /\ v \in 0..MaxVersion
    BY FileFields DEF ItemRow, FilesInv, Update
  <1>2. /\ row' = [row EXCEPT ![i] = n]
        /\ owner' = [p \in Items |-> IF p = i THEN i ELSE IF owner[p] = i THEN Nothing ELSE owner[p]]
        /\ UNCHANGED <<require, spoilt>> /\ row[i] # Nothing
    BY DEF Update
  <1>3. /\ live' \in Copy /\ stash' \in Copy
        /\ row[i].disabled => stash'[i] = v
        /\ ~row[i].disabled => live'[i] = v
        /\ \A p \in Items : p # i /\ owner[p] # i => live'[p] = live[p] /\ stash'[p] = stash[p]
    <2>1. \A f \in Copy : /\ Without(f, S) \in Copy
                          /\ \A p \in Items : owner[p] # i => Without(f, S)[p] = f[p]
      BY FileFields DEF Copy, Without, PathsOf, FilesInv
    <2>2. live \in Copy /\ stash \in Copy
      BY DEF FilesInv, RowTypes
    <2>3. /\ row[i].disabled => stash' = [Without(stash, S) EXCEPT ![i] = v] /\ live' = live
          /\ ~row[i].disabled => live' = [Without(live, S) EXCEPT ![i] = v] /\ stash' = stash
      BY DEF Update
    <2>. HIDE DEF S
    <2>4. \A f \in Copy : [Without(f, S) EXCEPT ![i] = v] \in Copy /\ [Without(f, S) EXCEPT ![i] = v][i] = v
             /\ \A p \in Items : p # i /\ owner[p] # i => [Without(f, S) EXCEPT ![i] = v][p] = f[p]
      BY <1>1, <2>1 DEF Copy
    <2>5. CASE row[i].disabled
      BY <2>2, <2>3, <2>4, <2>5
    <2>6. CASE ~row[i].disabled
      BY <2>2, <2>3, <2>4, <2>6
    <2>. QED BY <2>5, <2>6
  <1>. HIDE DEF n, S
  <1>4. RowTypes'
    BY <1>1, <1>2, <1>3 DEF FilesInv, RowTypes
  <1>5. ASSUME NEW p \in Items PROVE Owns(p)'
    BY <1>1, <1>2, FamilyFields DEF FilesInv, RowTypes, OwnPart, Owns
  <1>6. ASSUME ~spoilt, NEW p \in Items PROVE InPlace(p)'
    <2>1. InPlace(p)
      BY <1>6, InPlaceMatches DEF FilesInv, MatchPart
    <2>2. CASE p = i
      BY <1>1, <1>2, <1>3, <2>2 DEF InPlace, FileOf, FilesInv, RowTypes
    <2>3. CASE p # i
      BY <1>2, <1>3, <2>1, <2>3, FamilyFields DEF InPlace, FileOf, FilesInv, RowTypes
    <2>. QED BY <2>2, <2>3
  <1>. QED BY <1>2, <1>4, <1>5, <1>6, FilesKeep

LEMMA WithoutFields ==
  ASSUME NEW f \in Copy, NEW S
  PROVE  /\ Without(f, S) \in Copy
         /\ \A p \in Items : (p \in S => Without(f, S)[p] = 0) /\ (p \notin S => Without(f, S)[p] = f[p])
  <1>1. 0 \in 0..MaxVersion
    BY BackupsAssumption
  <1>. QED BY <1>1 DEF Without, Copy

LEMMA RemoveKeeps ==
  ASSUME FilesInv, NEW i \in Items, RemoveItem(i)
  PROVE  FilesInv'
  <1>. DEFINE S == IF i \in Mods THEN Family(i) ELSE {i}
              up == PathsIn(S, FALSE)
              down == PathsIn(S, TRUE)
  <1>1. /\ row[i] # Nothing
        /\ row' = [j \in Items |-> IF j \in S THEN Nothing ELSE row[j]]
        /\ owner' = [p \in Items |-> IF owner[p] \in S THEN Nothing ELSE owner[p]]
        /\ live' = Without(live, up) /\ stash' = Without(stash, down) /\ UNCHANGED <<require, spoilt>>
    BY DEF RemoveItem, Gone
  <1>2. /\ live \in Copy /\ stash \in Copy
        /\ \A p \in Items : owner[p] \notin S => p \notin up /\ p \notin down
    BY DEF FilesInv, RowTypes, PathsIn, PathsOf
  <1>. HIDE DEF S, up, down
  <1>6. /\ live' \in Copy /\ stash' \in Copy
        /\ \A p \in Items : owner[p] \notin S => live'[p] = live[p] /\ stash'[p] = stash[p]
    BY <1>1, <1>2, WithoutFields
  <1>7. RowTypes'
    BY <1>1, <1>6 DEF FilesInv, RowTypes
  <1>8. ASSUME NEW p \in Items PROVE Owns(p)'
    BY <1>1, FamilyFields DEF FilesInv, RowTypes, OwnPart, Owns
  <1>9. ASSUME ~spoilt, NEW p \in Items PROVE InPlace(p)'
    <2>1. InPlace(p) /\ p # Nothing
      BY <1>9, InPlaceMatches, FamilyFields DEF FilesInv, MatchPart
    <2>2. CASE p \in S
      <3>1. row'[p] = Nothing /\ (owner[p] = p => owner'[p] # p)
        BY <1>1, <2>1, <2>2
      <3>2. owner[p] # p => owner'[p] # p
        BY <1>1, <2>1
      <3>. QED BY <3>1, <3>2 DEF InPlace
    <2>3. CASE p \notin S
      <3>1. row'[p] = row[p] /\ (owner'[p] = p <=> owner[p] = p)
        BY <1>1, <2>1, <2>3
      <3>2. owner[p] = p => live'[p] = live[p] /\ stash'[p] = stash[p]
        BY <1>6, <2>3
      <3>. QED BY <2>1, <3>1, <3>2 DEF InPlace, FileOf
    <2>. QED BY <2>2, <2>3
  <1>. QED BY <1>1, <1>7, <1>8, <1>9, FilesKeep

LEMMA ToggleKeeps ==
  ASSUME FilesInv, NEW i \in Items, Toggle(i)
  PROVE  FilesInv'
  <1>. DEFINE S == PathsOf({i})
              n == [row[i] EXCEPT !.disabled = ~@]
  <1>1. n \in ItemRow /\ n.version = row[i].version /\ n.disabled = ~row[i].disabled /\ n # Nothing
    BY FileFields DEF ItemRow, FilesInv, Toggle
  <1>2. row' = [row EXCEPT ![i] = n] /\ row[i] # Nothing /\ UNCHANGED <<owner, require, spoilt>>
    BY DEF Toggle
  <1>3. /\ row[i].disabled => /\ live' = [p \in Items |-> IF p \in S THEN stash[p] ELSE live[p]]
                              /\ stash' = Without(stash, S)
        /\ ~row[i].disabled => /\ stash' = [p \in Items |-> IF p \in S THEN live[p] ELSE stash[p]]
                               /\ live' = Without(live, S)
    BY DEF Toggle
  <1>4. \A p \in Items : p \in S <=> owner[p] = i
    BY DEF PathsOf
  <1>. HIDE DEF S, n
  <1>5. /\ live' \in Copy /\ stash' \in Copy
        /\ \A p \in Items : p \notin S => live'[p] = live[p] /\ stash'[p] = stash[p]
        /\ \A p \in S \cap Items : IF row[i].disabled THEN live'[p] = stash[p] ELSE stash'[p] = live[p]
    <2>1. live \in Copy /\ stash \in Copy
      BY DEF FilesInv, RowTypes
    <2>2. CASE row[i].disabled
      BY <1>3, <2>1, <2>2, WithoutFields DEF Copy
    <2>3. CASE ~row[i].disabled
      BY <1>3, <2>1, <2>3, WithoutFields DEF Copy
    <2>. QED BY <2>2, <2>3
  <1>6. RowTypes'
    BY <1>1, <1>2, <1>5 DEF FilesInv, RowTypes
  <1>7. ASSUME NEW p \in Items PROVE Owns(p)'
    BY <1>1, <1>2, FamilyFields DEF FilesInv, RowTypes, OwnPart, Owns
  <1>8. ASSUME ~spoilt, NEW p \in Items PROVE InPlace(p)'
    <2>1. InPlace(p)
      BY <1>8, InPlaceMatches DEF FilesInv, MatchPart
    <2>2. CASE p = i
      BY <1>1, <1>2, <1>4, <1>5, <2>1, <2>2 DEF InPlace, FileOf, FilesInv, RowTypes
    <2>3. CASE p # i
      BY <1>2, <1>4, <1>5, <2>1, <2>3 DEF InPlace, FileOf, FilesInv, RowTypes
    <2>. QED BY <2>2, <2>3
  <1>. QED BY <1>2, <1>6, <1>7, <1>8, FilesKeep

\* What a restore reads.
LEMMA DirFields ==
  ASSUME BackupsInv, NEW r \in records, Whole(r)
  PROVE  LET d == dirs[r.dir] IN
         /\ d.copy \in Copy /\ d.manifest \in Copy /\ SoundCopy(r, d) /\ (~spoilt => Exact(d)) /\ RecordFits(r)
         /\ r.version \in 0..MaxVersion /\ r.kind \in {"mod", "full"}
  <1>1. RecordOK(r) /\ r \in Record
    BY DEF BackupsInv, RecordsInv, RecordPart, RecordTypes
  <1>2. dirs[r.dir] \in Content
    BY <1>1 DEF BackupsInv, RecordsInv, RecordTypes, Record, Whole
  <1>. QED BY <1>1, <1>2 DEF RecordOK, Content, Record

LEMMA RestoreModKeeps ==
  ASSUME BackupsInv, NEW r \in records, RestoreMod(r)
  PROVE  FilesInv'
  <1>. DEFINE m == r.mod
              d == dirs[r.dir]
              n == [version |-> r.version, disabled |-> Enabled(m)]
              back == Copied(r)
              old == DeletedOf(m)
              inStash == row[m] # Nothing /\ row[m].disabled
  <1>1. /\ d.copy \in Copy /\ d.manifest \in Copy /\ SoundCopy(r, d) /\ (~spoilt => Exact(d))
        /\ r.version \in 0..MaxVersion /\ r.version # 0 /\ m \in Mods /\ r.kind = "mod"
    BY DirFields DEF RestoreMod, RecordFits
  <1>2. /\ row' = [row EXCEPT ![m] = n] /\ UNCHANGED <<require, spoilt>>
        /\ owner' = [p \in Items |-> IF p \in back THEN m ELSE IF owner[p] = m THEN Nothing ELSE owner[p]]
        /\ stash' = IF inStash THEN Without(stash, old) ELSE stash
        /\ live' = Over(IF inStash THEN live ELSE Without(live, old), r)
        /\ \A p \in back : owner[p] \in {Nothing, m}
    BY DEF RestoreMod, Refused, Copied
  <1>3. n \in ItemRow /\ n.version = r.version /\ n.disabled = FALSE /\ n # Nothing
    <2>1. r.version \in Vers
      BY <1>1, BackupsAssumption DEF Vers
    <2>2. n \in ItemRow
      BY <2>1 DEF ItemRow, Enabled
    <2>. QED BY <2>2, BackupsAssumption DEF Enabled
  <1>4. back \subseteq Items /\ \A p \in Items : p \in back <=> d.copy[p] # 0
    BY DEF Copied
  <1>5. \A p \in back : m \in {p, FamilyOf(p)}
    BY <1>1, <1>4, FamilyFields DEF SoundCopy
  <1>6. \A p \in old : owner[p] = m
    BY DEF DeletedOf, PathsOf
  <1>7. \A f \in Copy : Over(f, r) \in Copy /\ \A p \in Items : Over(f, r)[p] = IF p \in back THEN d.copy[p] ELSE f[p]
    BY <1>1 DEF Over, Copy
  <1>. HIDE DEF n, back, old, inStash
  <1>8. /\ live' \in Copy /\ stash' \in Copy
        /\ \A p \in back : live'[p] = d.copy[p]
        /\ \A p \in Items : p \notin back /\ owner[p] # m => live'[p] = live[p] /\ stash'[p] = stash[p]
    <2>. DEFINE f == IF inStash THEN live ELSE Without(live, old)
    <2>1. live \in Copy /\ stash \in Copy
      BY DEF BackupsInv, FilesInv, RowTypes
    <2>2. /\ f \in Copy /\ stash' \in Copy
          /\ \A p \in Items : owner[p] # m => f[p] = live[p] /\ stash'[p] = stash[p]
      BY <1>2, <1>6, <2>1, WithoutFields
    <2>3. live' = Over(f, r)
      BY <1>2
    <2>. HIDE DEF f, d
    <2>. QED BY <1>4, <1>7, <2>2, <2>3
  <1>9. m \in Items /\ m # Nothing
    BY <1>1, FamilyFields
  <1>10. RowTypes'
    BY <1>2, <1>3, <1>8, <1>9 DEF BackupsInv, FilesInv, RowTypes
  <1>. HIDE DEF m, d
  <1>11. ASSUME NEW p \in Items PROVE Owns(p)'
    BY <1>2, <1>3, <1>5, <1>9 DEF BackupsInv, FilesInv, RowTypes, OwnPart, Owns
  <1>12. ASSUME ~spoilt, NEW p \in Items PROVE InPlace(p)'
    <2>1. InPlace(p) /\ p # Nothing
      BY <1>12, InPlaceMatches, FamilyFields DEF BackupsInv, FilesInv, MatchPart
    <2>2. CASE p = m
      <3>1. d.manifest[m] = r.version /\ d.copy[m] = r.version
        BY <1>1, <1>9, <1>12 DEF SoundCopy, Exact, m, d
      <3>2. m \in back /\ live'[m] = r.version
        BY <1>1, <1>4, <1>8, <1>9, <3>1
      <3>3. row'[m] = n /\ owner'[m] = m
        BY <1>2, <1>9, <3>2 DEF BackupsInv, FilesInv, RowTypes
      <3>. QED BY <1>3, <2>2, <3>2, <3>3 DEF InPlace, FileOf
    <2>3. CASE p # m
      <3>1. row'[p] = row[p] /\ (owner'[p] = p <=> owner[p] = p) /\ (owner[p] = p => p \notin back)
        BY <1>2, <2>1, <2>3 DEF BackupsInv, FilesInv, RowTypes
      <3>2. owner[p] = p => live'[p] = live[p] /\ stash'[p] = stash[p]
        BY <1>8, <2>3, <3>1
      <3>. QED BY <2>1, <3>1, <3>2 DEF InPlace, FileOf
    <2>. QED BY <2>2, <2>3
  <1>13. FilesInv
    BY DEF BackupsInv
  <1>. QED BY <1>2, <1>10, <1>11, <1>12, <1>13, FilesKeep

LEMMA RestoreStopsKeeps ==
  ASSUME BackupsInv, NEW r \in records, RestoreStops(r)
  PROVE  FilesInv'
  <1>1. live \in Copy /\ stash \in Copy /\ spoilt' = TRUE /\ UNCHANGED <<row, owner, require>>
    BY DEF RestoreStops, BackupsInv, FilesInv, RowTypes
  <1>2. stash' \in Copy
    BY <1>1, WithoutFields DEF RestoreStops
  <1>3. live' \in Copy
    <2>1. PICK done \in SUBSET Copied(r) :
            live' = [p \in Items |-> IF p \in done THEN dirs[r.dir].copy[p]
                       ELSE IF ~(row[r.mod] # Nothing /\ row[r.mod].disabled) /\ p \in DeletedOf(r.mod) THEN 0 ELSE live[p]]
      BY DEF RestoreStops
    <2>2. Whole(r)
      BY DEF RestoreStops
    <2>3. dirs[r.dir].copy \in Copy /\ 0 \in 0..MaxVersion
      BY <2>2, DirFields, BackupsAssumption
    <2>. QED BY <1>1, <2>1, <2>3 DEF Copy
  <1>. QED BY <1>1, <1>2, <1>3 DEF BackupsInv, FilesInv, RowTypes, OwnPart, MatchPart, Owns

LEMMA RestoreFullKeeps ==
  ASSUME BackupsInv, NEW r \in records, RestoreFull(r)
  PROVE  FilesInv'
  <1>. DEFINE d == dirs[r.dir]
              back == Copied(r)
              n(i) == [version |-> d.manifest[i], disabled |-> FALSE]
  <1>1. d.copy \in Copy /\ d.manifest \in Copy /\ SoundCopy(r, d) /\ (~spoilt => Exact(d))
    BY DirFields DEF RestoreFull
  <1>2. /\ row' = [i \in Items |-> IF d.manifest[i] # 0 THEN n(i) ELSE Nothing]
        /\ owner' = [p \in Items |-> IF p \in back THEN IF d.manifest[p] # 0 THEN p ELSE FamilyOf(p) ELSE Nothing]
        /\ stash' = Without(stash, PathsIn(Mods, TRUE)) /\ live' = Over(Without(live, PathsIn(Mods, FALSE)), r)
        /\ UNCHANGED <<require, spoilt>>
    BY DEF RestoreFull, Back
  <1>3. \A i \in Items : d.manifest[i] # 0 =>
          n(i) \in ItemRow /\ n(i).version = d.manifest[i] /\ n(i).disabled = FALSE /\ n(i) # Nothing
    <2>1. \A i \in Items : d.manifest[i] # 0 => d.manifest[i] \in Vers
      BY <1>1, BackupsAssumption DEF Copy, Vers
    <2>2. \A x \in ItemRow : x # Nothing
      BY BackupsAssumption
    <2>. HIDE DEF d
    <2>. QED BY <2>1, <2>2 DEF ItemRow
  <1>4. \A p \in Items : p \in back <=> d.copy[p] # 0
    BY DEF Copied
  <1>5. \A p \in Items : d.copy[p] # 0 => d.manifest[p] # 0 \/ d.manifest[FamilyOf(p)] # 0
    BY <1>1 DEF SoundCopy
  <1>6. \A f \in Copy : Over(f, r) \in Copy /\ \A p \in Items : Over(f, r)[p] = IF p \in back THEN d.copy[p] ELSE f[p]
    BY <1>1 DEF Over, Copy
  <1>. HIDE DEF back, n, d
  <1>7. live' \in Copy /\ stash' \in Copy /\ \A p \in Items : p \in back => live'[p] = d.copy[p]
    <2>1. live \in Copy /\ stash \in Copy
      BY DEF BackupsInv, FilesInv, RowTypes
    <2>. QED BY <1>2, <1>6, <2>1, WithoutFields
  <1>8. RowTypes'
    <2>1. row' \in [Items -> ItemRow \cup {Nothing}]
      BY <1>2, <1>3
    <2>2. owner' \in [Items -> Items \cup {Nothing}]
      BY <1>2, FamilyFields
    <2>. QED BY <1>2, <1>7, <2>1, <2>2 DEF BackupsInv, FilesInv, RowTypes
  <1>9. ASSUME NEW p \in Items PROVE Owns(p)'
    BY <1>2, <1>3, <1>4, <1>5, FamilyFields DEF Owns
  <1>10. ASSUME ~spoilt, NEW p \in Items PROVE InPlace(p)'
    <2>1. CASE d.manifest[p] # 0
      <3>1. d.copy[p] = d.manifest[p] /\ p \in back
        BY <1>1, <1>4, <1>10, <2>1 DEF Exact
      <3>. QED BY <1>2, <1>3, <1>7, <2>1, <3>1 DEF InPlace, FileOf
    <2>2. CASE d.manifest[p] = 0
      <3>1. row'[p] = Nothing
        BY <1>2, <2>2
      <3>2. owner'[p] # p
        BY <1>2, <1>4, <1>5, <2>2, FamilyFields
      <3>. QED BY <3>1, <3>2 DEF InPlace
    <2>. QED BY <2>1, <2>2
  <1>11. FilesInv
    BY DEF BackupsInv
  <1>. QED BY <1>2, <1>8, <1>9, <1>10, <1>11, FilesKeep

(* Every step. *)

LEMMA BackupsNextInv == BackupsInv /\ [BackupsNext]_backupVars => BackupsInv'
  <1>. SUFFICES ASSUME BackupsInv, [BackupsNext]_backupVars PROVE BackupsInv'
    OBVIOUS
  <1>. USE DEF BackupsInv
  <1>1. ASSUME UNCHANGED <<row, owner, live, stash, spoilt>>, require' \in BOOLEAN PROVE FilesInv'
    BY <1>1 DEF FilesInv, RowTypes, OwnPart, MatchPart, Owns, Matches, FileAt
  <1>2. ASSUME UNCHANGED <<records, dirs, lastDir, spoilt>> PROVE RecordsInv'
    BY <1>2, RecordsRest
  <1>3. CASE UNCHANGED backupVars
    BY <1>1, <1>2, <1>3 DEF backupVars, FilesInv, RowTypes
  <1>4. CASE SetRequire
    BY <1>1, <1>2, <1>4 DEF SetRequire, FilesInv, RowTypes
  <1>5. ASSUME NEW m \in Mods, BackupMod(m) PROVE BackupsInv'
    <2>1. FilesInv' /\ BackupKind("mod", m) /\ UNCHANGED spoilt
      BY <1>1, <1>5 DEF BackupMod, BackupKind, FilesInv, RowTypes
    <2>2. Take("mod", m) \/ TakeDies("mod", m) \/ TakeFails
      BY <1>5 DEF BackupMod
    <2>3. CASE TakeFails
      BY <2>1, <2>3, RecordsRest DEF TakeFails
    <2>. QED BY <2>1, <2>2, <2>3, TakeKeeps DEF FilesInv
  <1>6. CASE BackupFull
    <2>1. FilesInv' /\ BackupKind("full", Nothing) /\ UNCHANGED spoilt
      BY <1>1, <1>6 DEF BackupFull, BackupKind, FilesInv, RowTypes
    <2>. QED BY <1>6, <2>1, TakeKeeps DEF BackupFull, FilesInv
  <1>7. ASSUME NEW i \in Items, RemoveItem(i) PROVE BackupsInv'
    <2>1. PICK t \in {"auto_remove", "auto_remove_addon"} :
            row[i] # Nothing /\ BackedUp(i, t) /\ (t \in Triggers => i \in Mods) /\ UNCHANGED spoilt
      BY <1>7 DEF RemoveItem, Triggers
    <2>. QED BY <1>7, <2>1, BackedUpKeeps, RemoveKeeps
  <1>8. ASSUME NEW i \in Items, Toggle(i) PROVE BackupsInv'
    <2>1. PICK t \in {"auto_toggle_addon", "auto_enable", "auto_disable"} :
            row[i] # Nothing /\ BackedUp(i, t) /\ (t \in Triggers => i \in Mods) /\ UNCHANGED spoilt
      BY <1>8 DEF Toggle, Triggers, Items
    <2>. QED BY <1>8, <2>1, BackedUpKeeps, ToggleKeeps
  <1>9. ASSUME NEW i \in Items, Blocked(i) PROVE BackupsInv'
    <2>1. FilesInv' /\ TakeFails /\ UNCHANGED spoilt
      BY <1>1, <1>9 DEF Blocked, FilesInv, RowTypes
    <2>. QED BY <2>1, RecordsRest DEF TakeFails
  <1>10. ASSUME NEW i \in Items, NEW v \in Vers, Install(i, v) PROVE BackupsInv'
    BY <1>2, <1>10, InstallKeeps DEF Install
  <1>11. ASSUME NEW i \in Items, NEW v \in Vers, Update(i, v) PROVE BackupsInv'
    <2>1. PICK t \in {"auto_update", "auto_update_addon"} :
            row[i] # Nothing /\ BackedUp(i, t) /\ (t \in Triggers => i \in Mods) /\ UNCHANGED spoilt
      BY <1>11 DEF Update, Triggers
    <2>. QED BY <1>11, <2>1, BackedUpKeeps, UpdateKeeps
  <1>12. ASSUME NEW r \in records, RestoreMod(r) PROVE BackupsInv'
    BY <1>2, <1>12, RestoreModKeeps DEF RestoreMod
  <1>13. ASSUME NEW r \in records, RestoreStops(r) PROVE BackupsInv'
    <2>1. RecordsInv'
      BY <1>13, RecordsRest DEF RestoreStops
    <2>. QED BY <1>13, <2>1, RestoreStopsKeeps
  <1>14. ASSUME NEW r \in records, RestoreFull(r) PROVE BackupsInv'
    BY <1>2, <1>14, RestoreFullKeeps DEF RestoreFull
  <1>. HIDE DEF BackupsInv
  <1>. QED BY <1>3, <1>4, <1>5, <1>6, <1>7, <1>8, <1>9, <1>10, <1>11, <1>12, <1>13, <1>14 DEF BackupsNext

\* A new backup is the newest of its kind, so that retention leaves it.
LEMMA NewestStays ==
  ASSUME FilesInv, RecordsInv, NEW m \in Mods, row[m] # Nothing, Take("mod", m)
  PROVE  \E r \in records' : r.mod = m /\ r.version = row[m].version /\ dirs'[r.dir] = Dir(Family(m))
  <1>. DEFINE all == WithNew("mod", m)
              n == NewRecord("mod", m)
              gone == all \ Retained(all)
  <1>1. BackupKind("mod", m) /\ m # Nothing /\ Extent(m) = Family(m)
    BY FamilyFields DEF BackupKind, Extent
  <1>2. /\ lastDir < MaxDirs /\ records' = (all \ gone) \cup {}
        /\ dirs' = [d \in DirIds |-> IF d \in {r.dir : r \in gone} THEN Nothing
                                     ELSE IF d = lastDir + 1 THEN Dir(Extent(m)) ELSE dirs[d]]
    BY <1>1, PrunedFields DEF Take, FilesInv
  <1>3. n.dir = lastDir + 1 /\ n.mod = m /\ n.version = row[m].version /\ lastDir + 1 \in DirIds
    BY <1>1, <1>2, NewFields DEF FilesInv, RecordsInv
  <1>4. all = records \cup {n}
    BY DEF WithNew
  <1>. HIDE DEF n
  <1>5. lastDir \in Nat /\ \A r \in records : r.dir \in Nat /\ r.dir <= lastDir
    BY DEF RecordsInv, RecordTypes, RecordPart, RecordOK, Record, DirIds
  <1>6. \A s \in all : ~(s.dir > n.dir) /\ (s.dir = n.dir => s = n)
    BY <1>3, <1>4, <1>5
  <1>. HIDE DEF all
  <1>7. Newer(all, n) = {}
    BY <1>6 DEF Newer
  <1>8. n \in Retained(all)
    <2>1. Cardinality(Newer(all, n)) < MaxBackups
      BY <1>7, FS_EmptySet, BackupsAssumption
    <2>. QED BY <1>4, <2>1 DEF Retained
  <1>9. n \in records' /\ n.dir \notin {r.dir : r \in gone}
    BY <1>2, <1>4, <1>6, <1>8
  <1>10. dirs'[n.dir] = Dir(Family(m))
    BY <1>1, <1>2, <1>3, <1>9
  <1>. QED BY <1>3, <1>9, <1>10

LEMMA BackupsStep ==
  ASSUME BackupsInv, [BackupsNext]_backupVars, NEW m \in Mods,
         require, row[m] # Nothing, row'[m] # row[m], lastDir' # lastDir
  PROVE  \E r \in records' : r.mod = m /\ r.version = row[m].version /\ dirs'[r.dir] = Dir(Family(m))
  <1>1. ASSUME Take("mod", m) PROVE \E r \in records' : r.mod = m /\ r.version = row[m].version /\ dirs'[r.dir] = Dir(Family(m))
    BY <1>1, NewestStays DEF BackupsInv
  <1>2. \A i \in Items : \A t : BackedUp(i, t) => Take("mod", FamilyOf(i))
    BY DEF BackedUp, MayGoOn
  <1>3. row \in [Items -> ItemRow \cup {Nothing}] /\ m \in Items /\ FamilyOf(m) = m
    BY FamilyFields DEF BackupsInv, FilesInv, RowTypes
  <1>4. ASSUME NEW i \in Items, RemoveItem(i) PROVE Take("mod", m)
    <2>1. Take("mod", FamilyOf(i)) /\ row' = [j \in Items |-> IF j \in (IF i \in Mods THEN Family(i) ELSE {i}) THEN Nothing ELSE row[j]]
      BY <1>2, <1>4 DEF RemoveItem, Gone
    <2>2. m \in (IF i \in Mods THEN Family(i) ELSE {i})
      BY <1>3, <2>1
    <2>3. m = i
      BY <2>2, FamilyFields
    <2>. QED BY <1>3, <2>1, <2>3
  <1>5. ASSUME NEW i \in Items, Toggle(i) \/ \E v \in Vers : Update(i, v) PROVE Take("mod", m)
    <2>1. Take("mod", FamilyOf(i))
      BY <1>2, <1>5 DEF Toggle, Update
    <2>2. \A j \in Items : j # i => row'[j] = row[j]
      BY <1>3, <1>5 DEF Toggle, Update
    <2>. QED BY <1>3, <2>1, <2>2
  <1>6. \/ \E i \in Items : RemoveItem(i) \/ Toggle(i) \/ \E v \in Vers : Update(i, v)
        \/ UNCHANGED row \/ UNCHANGED lastDir
    BY DEF BackupsNext, backupVars, SetRequire, BackupMod, BackupFull, Blocked, Install, RestoreMod, RestoreStops, RestoreFull
  <1>. QED BY <1>1, <1>4, <1>5, <1>6

\* Every reachable state of the backups is well typed.
THEOREM BackupsTyped == BackupsSpec => []BackupsTypeOK
  BY BackupsInvShows, BackupsInitInv, BackupsNextInv, PTL DEF BackupsSpec

\* Whatever is installed, updated, toggled, backed up and restored in whatever order: for
\* any mods and addons, versions and retention, the file of an item is of the version its
\* row says, at the place its row says, unless a restore stopped halfway.
THEOREM FilesMatch == BackupsSpec => []RowsMatchFiles
  BY BackupsInvShows, BackupsInitInv, BackupsNextInv, PTL DEF BackupsSpec

\* With require_backup on, what a change does away with is in a backup that retention
\* leaves, whatever max_backups is.
THEOREM BackedUpFirst == BackupsSpec => ChangesAreBackedUp
  <1>. DEFINE A == \A m \in Mods :
       (require /\ row[m] # Nothing /\ row'[m] # row[m] /\ lastDir' # lastDir) =>
         \E r \in records' : r.mod = m /\ r.version = row[m].version /\ dirs'[r.dir] = Dir(Family(m))
  <1>1. BackupsInv /\ [BackupsNext]_backupVars => [A]_backupVars
    BY BackupsStep
  <1>. QED BY <1>1, BackupsInitInv, BackupsNextInv, PTL DEF BackupsSpec, ChangesAreBackedUp

(***************************************************************************)
(* The log                                                                 *)
(***************************************************************************)

\* A layer that is not left to reload is as the configuration in force has it.
LayerPart ==
  /\ logConf \in LogConfs /\ logFilter \in LogFilter /\ reload \subseteq {"floor", "console", "file"}
  /\ layers \in Layers /\ layers.ownFloor >= layers.floor
  /\ writer \in {"down", "starting", "running", "stopping"} /\ (writer = "down" => reload = {})
  /\ writer # "down" =>
       /\ "floor" \notin reload => layers.floor = ComputeFloorFilter(logConf, logFilter).all
       /\ "console" \notin reload =>
            layers.console = IF logConf.console THEN ParseDefaultLevel(logFilter) ELSE Unnamed
       /\ "file" \notin reload => layers.file = logConf.file

\* What is in the table or on its way there is in the order in which it was emitted, and
\* there are numbers enough for all of it.
IdsApart(rows) == \A r, s \in rows : r.id = s.id => r = s
Ordered(rows, q, n) ==
  /\ rows \subseteq LogRow /\ IsFiniteSet(rows) /\ IdsApart(rows) /\ Len(q) <= n
  /\ \A r \in rows : r.id + Len(q) <= n /\ r.born <= n
  /\ \A r, s \in rows : r.id < s.id => r.born < s.born
  /\ \A i \in 1..Len(q) : q[i].born <= n /\ \A r \in rows : r.born < q[i].born
  /\ \A i, j \in 1..Len(q) : i < j => q[i].born < q[j].born
Pending == batch \o backlog
OrderPart ==
  /\ logged \in 0..MaxLogged /\ batch \in Seq(LogEvent) /\ backlog \in Seq(LogEvent) /\ Len(batch) <= LogBatch
  /\ Ordered(logRows, Pending, logged)

\* The counts and what is still to be added to them are the table's.
TallyPart ==
  /\ counts \in [EntryLevels -> Nat] /\ uncounted \in Seq(LogEvent) /\ stale \in BOOLEAN
  /\ (writer = "down" => uncounted = <<>>)
  /\ writer # "down" /\ ~stale => Plus(counts, Tally(uncounted)) = CountsOf(logRows)

\* No row is put at or below the top of the reader's first page any more.
PagePart ==
  /\ reader \in ReaderPage /\ idsReused \in BOOLEAN
  /\ reader # Away /\ ~idsReused =>
       /\ reader.cursor <= reader.top /\ \E r \in logRows : reader.top <= r.id
       /\ \A r \in logRows : reader.cursor <= r.id /\ r.id <= reader.top => r \in reader.seen
       /\ ~reader.more => \A r \in logRows : reader.cursor <= r.id

LogsInv == LayerPart /\ OrderPart /\ TallyPart /\ PagePart

LEMMA RowFieldsOf ==
  \A r \in LogRow : /\ r.id \in Nat /\ r.id \in 1..MaxLogged /\ r.level \in EntryLevels
                    /\ r.born \in 1..MaxLogged /\ r.born \in Nat
  BY DEF LogRow

(* Greatest and least. *)

LEMMA GreatestNat ==
  ASSUME NEW S, S \subseteq Nat, S # {}, NEW N \in Nat, \A n \in S : n <= N
  PROVE  MostOf(S) \in S /\ \A n \in S : n <= MostOf(S)
  <1>. DEFINE U == {u \in Nat : \A n \in S : n <= u}
  <1>1. N \in U
    OBVIOUS
  <1>2. PICK u \in U : \A v \in U : u <= v
    BY <1>1, LeastNat
  <1>3. u \in S
    <2>1. SUFFICES ASSUME u \notin S PROVE FALSE
      OBVIOUS
    <2>2. PICK n \in S : TRUE
      OBVIOUS
    <2>3. u \in Nat /\ u # 0 /\ \A m \in S : m \in Nat /\ m <= u /\ m # u
      BY <2>1, <2>2
    <2>4. u - 1 \in Nat /\ \A m \in S : m <= u - 1
      BY <2>3
    <2>5. u - 1 \in U
      BY <2>4
    <2>. QED BY <1>2, <2>3, <2>5
  <1>4. u \in S /\ \A n \in S : n <= u
    BY <1>3
  <1>. QED BY <1>4 DEF MostOf

LEMMA LastIdIs ==
  ASSUME NEW rows, rows \subseteq LogRow
  PROVE  /\ LastId(rows) \in Nat /\ \A r \in rows : r.id <= LastId(rows)
         /\ rows # {} => \E r \in rows : r.id = LastId(rows)
  <1>. DEFINE S == {r.id : r \in rows}
  <1>1. S \subseteq Nat /\ MaxLogged \in Nat /\ \A n \in S : n <= MaxLogged
    BY RowFieldsOf, LogAssumption
  <1>2. CASE rows = {}
    BY <1>2 DEF LastId
  <1>3. CASE rows # {}
    <2>1. S # {}
      BY <1>3
    <2>2. MostOf(S) \in S /\ \A n \in S : n <= MostOf(S)
      BY <1>1, <2>1, GreatestNat
    <2>3. LastId(rows) = MostOf(S)
      BY <1>3 DEF LastId
    <2>. QED BY <1>1, <2>2, <2>3
  <1>. QED BY <1>2, <1>3

LEMMA LeastIs ==
  ASSUME NEW rows, rows \subseteq LogRow, rows # {}
  PROVE  Least(rows) \in Nat /\ (\E r \in rows : r.id = Least(rows)) /\ \A r \in rows : Least(rows) <= r.id
  <1>. DEFINE S == {r.id : r \in rows}
  <1>1. S \subseteq Nat /\ S # {}
    BY RowFieldsOf
  <1>2. PICK n \in S : \A m \in S : n <= m
    BY <1>1, LeastNat
  <1>3. \A r \in rows : n <= r.id
    BY <1>2
  <1>4. Least(rows) \in S /\ \A r \in rows : Least(rows) <= r.id
    BY <1>3 DEF Least
  <1>. QED BY <1>1, <1>4

(* The layers. *)

LEMMA FloorIs ==
  ASSUME NEW c \in LogConfs, NEW f \in LogFilter
  PROVE  LET floor == ComputeFloorFilter(c, f) IN
         /\ floor.all \in LogLevels /\ floor.own \in LogLevels /\ floor.own >= floor.all
         /\ c.file <= floor.all /\ c.web <= floor.all /\ f.all <= floor.all
         /\ c.file \in LevelOrOff /\ f.all \in LevelOrOff
  <1>. DEFINE S == {Error, f.all, f.own, c.web, c.file}
              m == MostOf(S)
              T == {m, Debug}
              o == MostOf(T)
  <1>1. /\ f.all \in LevelOrOff /\ f.own \in LevelOrOff /\ c.file \in LevelOrOff /\ c.web \in LogLevels
        /\ Error \in LogLevels /\ Debug \in LogLevels
    BY LogAssumption DEF LogFilter, LogLevels, Error, Debug, Trace
  <1>2. \A l \in LevelOrOff : l \in Nat /\ l <= 5 /\ (l \in LogLevels <=> l >= 1)
    BY DEF LevelOrOff, LogLevels, Error, Trace, Unnamed
  <1>3. m \in S /\ \A n \in S : n <= m
    <2>1. S \subseteq Nat /\ S # {} /\ \A n \in S : n <= 5
      BY <1>1, <1>2 DEF LevelOrOff
    <2>. QED BY <2>1, GreatestNat
  <1>4. m \in LogLevels
    <2>1. m >= 1 /\ m \in LevelOrOff
      BY <1>1, <1>3 DEF LevelOrOff, LogLevels, Error
    <2>. QED BY <1>2, <2>1
  <1>5. o \in T /\ \A n \in T : n <= o
    <2>1. T \subseteq Nat /\ T # {} /\ \A n \in T : n <= 5
      BY <1>1, <1>4 DEF LogLevels, Error, Trace
    <2>. HIDE DEF m
    <2>. QED BY <2>1, GreatestNat
  <1>6. o \in LogLevels /\ o >= m
    BY <1>1, <1>4, <1>5 DEF LogLevels, Error, Trace
  <1>7. ComputeFloorFilter(c, f) = [all |-> m, own |-> o]
    BY DEF ComputeFloorFilter
  <1>8. c.file <= m /\ c.web <= m /\ f.all <= m
    BY <1>3
  <1>. HIDE DEF m, o
  <1>. QED BY <1>1, <1>4, <1>6, <1>7, <1>8

LEMMA FilterIs ==
  ASSUME NEW c \in LogConfs, NEW flags, flags.all \in LevelOrOff, flags.verbose \in Nat, flags.env \in Seq(LogFilter)
  PROVE  ResolveLogFilter(c, flags) \in LogFilter
  <1>. DEFINE base == IF flags.env # <<>> THEN flags.env[1] ELSE [all |-> c.level, own |-> Debug]
  <1>1. Unnamed \in LevelOrOff /\ Debug \in LevelOrOff /\ Trace \in LevelOrOff /\ c.level \in LevelOrOff
    BY LogAssumption DEF LevelOrOff, LogLevels, Error, Debug, Trace
  <1>2. base \in LogFilter
    <2>1. CASE flags.env # <<>>
      <3>1. 1 \in 1..Len(flags.env)
        BY <2>1, EmptySeq
      <3>. QED BY <2>1, <3>1, ElementOfSeq
    <2>2. CASE flags.env = <<>>
      BY <1>1, <2>2 DEF LogFilter
    <2>. QED BY <2>1, <2>2
  <1>3. [base EXCEPT !.own = Debug] \in LogFilter /\ [base EXCEPT !.own = Trace] \in LogFilter
    <2>. HIDE DEF base
    <2>. QED BY <1>1, <1>2 DEF LogFilter
  <1>4. [all |-> flags.all, own |-> Unnamed] \in LogFilter
    BY <1>1 DEF LogFilter
  <1>. HIDE DEF base
  <1>5. ResolveLogFilter(c, flags) \in {[all |-> flags.all, own |-> Unnamed], base,
                                        [base EXCEPT !.own = Debug], [base EXCEPT !.own = Trace]}
    BY DEF ResolveLogFilter, base
  <1>. QED BY <1>2, <1>3, <1>4, <1>5

LEMMA LayersShow == ASSUME LayerPart PROVE LayersAreServed
  <1>. SUFFICES ASSUME writer # "down", reload = {}
                PROVE  /\ layers.file <= layers.floor /\ logConf.web <= layers.floor
                       /\ logFilter.all # Unnamed => layers.console <= layers.floor
    BY DEF LayersAreServed
  <1>1. /\ layers.floor = ComputeFloorFilter(logConf, logFilter).all /\ layers.file = logConf.file
        /\ layers.console = IF logConf.console THEN ParseDefaultLevel(logFilter) ELSE Unnamed
        /\ logConf \in LogConfs /\ logFilter \in LogFilter
    BY DEF LayerPart
  <1>2. /\ layers.floor \in Nat /\ layers.file <= layers.floor /\ logConf.web <= layers.floor
        /\ logFilter.all <= layers.floor
    BY <1>1, FloorIs DEF LogLevels, Error, Trace
  <1>3. logFilter.all # Unnamed => layers.console \in {logFilter.all, Unnamed}
    BY <1>1 DEF ParseDefaultLevel, FirstNamed
  <1>. QED BY <1>2, <1>3 DEF Unnamed

LEMMA LayersRest ==
  ASSUME LayerPart, UNCHANGED layerVars,
         writer' \in {"starting", "running", "stopping"}, writer # "down"
  PROVE  LayerPart'
  BY DEF LayerPart, layerVars

\* One layer of the record at a time.
LEMMA LayerFields ==
  ASSUME NEW g \in Layers
  PROVE  /\ \A a, o \in LogLevels : LET h == [g EXCEPT !.floor = a, !.ownFloor = o] IN
              h \in Layers /\ h.floor = a /\ h.ownFloor = o /\ h.console = g.console /\ h.file = g.file
         /\ \A c \in LevelOrOff : LET h == [g EXCEPT !.console = c] IN
              h \in Layers /\ h.console = c /\ h.floor = g.floor /\ h.ownFloor = g.ownFloor /\ h.file = g.file
         /\ \A c \in LevelOrOff : LET h == [g EXCEPT !.file = c] IN
              h \in Layers /\ h.file = c /\ h.floor = g.floor /\ h.ownFloor = g.ownFloor /\ h.console = g.console
  BY DEF Layers

LEMMA ReloadsKeep ==
  ASSUME LayerPart, ReloadFloor \/ ReloadConsole \/ ReloadFile
  PROVE  LayerPart'
  <1>0. /\ logConf \in LogConfs /\ logFilter \in LogFilter /\ layers \in Layers /\ writer' = writer /\ writer # "down"
        /\ logConf' = logConf /\ logFilter' = logFilter
        /\ \A g \in Layers : g.ownFloor \in Nat /\ g.floor \in Nat
    BY DEF LayerPart, ReloadFloor, ReloadConsole, ReloadFile, writerVars, Layers, LogLevels, Error
  <1>1. CASE ReloadFloor
    <2>. DEFINE fl == ComputeFloorFilter(logConf, logFilter)
    <2>1. fl.all \in LogLevels /\ fl.own \in LogLevels /\ fl.own >= fl.all
      BY <1>0, FloorIs
    <2>2. layers' = [layers EXCEPT !.floor = fl.all, !.ownFloor = fl.own] /\ reload' = reload \ {"floor"}
      BY <1>1 DEF ReloadFloor
    <2>3. fl' = fl
      BY <1>0 DEF ComputeFloorFilter
    <2>. HIDE DEF fl
    <2>4. /\ layers' \in Layers /\ layers'.floor = fl.all /\ layers'.ownFloor = fl.own
          /\ layers'.console = layers.console /\ layers'.file = layers.file
      <3>. DEFINE a == fl.all
                  o == fl.own
      <3>1. a \in LogLevels /\ o \in LogLevels /\ layers' = [layers EXCEPT !.floor = a, !.ownFloor = o]
        BY <2>1, <2>2
      <3>. HIDE DEF a, o
      <3>2. /\ layers' \in Layers /\ layers'.floor = a /\ layers'.ownFloor = o
            /\ layers'.console = layers.console /\ layers'.file = layers.file
        <4>. DEFINE h == [layers EXCEPT !.floor = a, !.ownFloor = o]
        <4>1. h \in Layers /\ h.floor = a /\ h.ownFloor = o /\ h.console = layers.console /\ h.file = layers.file
          BY <1>0, <3>1 DEF Layers
        <4>. QED BY <3>1, <4>1
      <3>. QED BY <3>2 DEF a, o
    <2>5. layers'.floor = ComputeFloorFilter(logConf', logFilter').all
      BY <2>3, <2>4 DEF fl
    <2>. QED BY <1>0, <2>1, <2>2, <2>4, <2>5 DEF LayerPart
  <1>2. CASE ReloadConsole
    <2>. DEFINE c == IF logConf.console THEN ParseDefaultLevel(logFilter) ELSE Unnamed
    <2>1. c \in LevelOrOff
      BY <1>0 DEF LogFilter, ParseDefaultLevel, FirstNamed, LevelOrOff, LogLevels, Info, Unnamed, Error, Trace
    <2>2. layers' = [layers EXCEPT !.console = c] /\ reload = {"console", "file"} /\ reload' = {"file"}
      BY <1>2 DEF ReloadConsole
    <2>. HIDE DEF c
    <2>3. /\ layers' \in Layers /\ layers'.console = c /\ layers'.floor = layers.floor
          /\ layers'.ownFloor = layers.ownFloor /\ layers'.file = layers.file
      BY <1>0, <2>1, <2>2, LayerFields
    <2>4. layers'.console = IF logConf'.console THEN ParseDefaultLevel(logFilter') ELSE Unnamed
      BY <1>0, <2>3 DEF c
    <2>. QED BY <1>0, <2>2, <2>3, <2>4 DEF LayerPart
  <1>3. CASE ReloadFile
    <2>1. layers' = [layers EXCEPT !.file = logConf.file] /\ reload = {"file"} /\ reload' = {}
      BY <1>3 DEF ReloadFile
    <2>2. logConf.file \in LevelOrOff
      BY <1>0, LogAssumption
    <2>3. /\ layers' \in Layers /\ layers'.file = logConf.file /\ layers'.floor = layers.floor
          /\ layers'.ownFloor = layers.ownFloor /\ layers'.console = layers.console
      BY <1>0, <2>1, <2>2, LayerFields
    <2>. QED BY <1>0, <2>1, <2>3 DEF LayerPart
  <1>. QED BY <1>1, <1>2, <1>3

LEMMA ConfiguresKeep ==
  ASSUME LayerPart, ServeLogs \/ \E c \in LogConfs : SaveLoggingSettings(c)
  PROVE  LayerPart'
  <1>1. layers' = layers /\ reload' = {"floor", "console", "file"} /\ writer' \in {"starting", "running"}
    BY DEF ServeLogs, SaveLoggingSettings, Reconfigure, writerVars
  <1>2. logConf' \in LogConfs /\ logFilter' \in LogFilter
    <2>1. CASE ServeLogs
      <3>1. PICK flags \in LogFlags : Reconfigure(logConf, ResolveLogFilter(logConf, flags))
        BY <2>1 DEF ServeLogs
      <3>2. logConf \in LogConfs /\ ResolveLogFilter(logConf, flags) \in LogFilter
        BY FilterIs, LogAssumption DEF LayerPart
      <3>. QED BY <3>1, <3>2 DEF Reconfigure
    <2>2. ASSUME NEW c \in LogConfs, SaveLoggingSettings(c) PROVE logConf' \in LogConfs /\ logFilter' \in LogFilter
      <3>1. PICK flags \in LogFlags : Reconfigure(c, ResolveLogFilter(c, NoFlags(flags.env)))
        BY <2>2 DEF SaveLoggingSettings
      <3>. DEFINE g == NoFlags(flags.env)
      <3>2. g.all \in LevelOrOff /\ g.verbose \in Nat /\ g.env \in Seq(LogFilter)
        BY LogAssumption DEF NoFlags, LevelOrOff
      <3>. HIDE DEF g
      <3>3. ResolveLogFilter(c, g) \in LogFilter
        BY <3>2, FilterIs
      <3>. QED BY <3>1, <3>3 DEF Reconfigure, g
    <2>. QED BY <2>1, <2>2
  <1>. QED BY <1>1, <1>2 DEF LayerPart

LEMMA EndKeepsLayers ==
  ASSUME LayerPart, EndServe
  PROVE  LayerPart'
  <1>1. FirstLayers \in Layers /\ FirstLayers.ownFloor >= FirstLayers.floor
    BY DEF FirstLayers, Layers, LevelOrOff, LogLevels, Error, Info, Debug, Trace
  <1>2. [all |-> Info, own |-> Debug] \in LogFilter
    BY DEF LogFilter, LevelOrOff, LogLevels, Error, Info, Debug, Trace
  <1>. QED BY <1>1, <1>2 DEF EndServe, LayerPart

(* The order of what is in the table and on its way. *)

NewRow(rows, s, i) == [id |-> LastId(rows) + i, level |-> s[i].level, born |-> s[i].born]
NewRows(rows, s) == {NewRow(rows, s, i) : i \in 1..Len(s)}

LEMMA InsertIs ==
  ASSUME NEW s \in Seq(LogEvent), InsertLogBatch(s)
  PROVE  logRows' = logRows \cup NewRows(logRows, s)
  BY LenProperties DEF InsertLogBatch, NewRows, NewRow

LEMMA EventFields == \A e \in LogEvent : e.level \in EntryLevels /\ e.born \in 1..MaxLogged /\ e.born \in Nat
  BY DEF LogEvent

LEMMA NewRowFields ==
  ASSUME NEW rows, NEW s \in Seq(LogEvent), NEW t \in Seq(LogEvent), NEW n \in 0..MaxLogged, Ordered(rows, s \o t, n),
         NEW i \in 1..Len(s)
  PROVE  LET r == NewRow(rows, s, i) IN
         /\ r \in LogRow /\ r.id = LastId(rows) + i /\ r.level = s[i].level /\ r.born = s[i].born
         /\ r.id + Len(t) <= n /\ r.born <= n
         /\ \A q \in rows : q.id < r.id /\ q.born < r.born
         /\ \A j \in 1..Len(t) : r.born < t[j].born
         /\ \A j \in 1..Len(s) : i < j => r.born < s[j].born
  <1>. DEFINE r == NewRow(rows, s, i)
              q == s \o t
              last == LastId(rows)
  <1>1. /\ Len(s) \in Nat /\ Len(t) \in Nat /\ Len(q) = Len(s) + Len(t)
        /\ \A j \in 1..Len(s) : j \in 1..Len(q) /\ q[j] = s[j] /\ s[j] \in LogEvent
        /\ \A j \in 1..Len(t) : Len(s) + j \in 1..Len(q) /\ q[Len(s) + j] = t[j]
    BY ConcatProperties, LenProperties, ElementOfSeq
  <1>2. /\ rows \subseteq LogRow /\ Len(q) <= n
        /\ \A x \in rows : x.id + Len(q) <= n /\ x.id \in Nat
        /\ \A j \in 1..Len(q) : q[j].born <= n /\ \A x \in rows : x.born < q[j].born
        /\ \A j, k \in 1..Len(q) : j < k => q[j].born < q[k].born
    BY RowFieldsOf DEF Ordered
  <1>3. last \in Nat /\ (\A x \in rows : x.id <= last) /\ (rows # {} => \E x \in rows : x.id = last) /\ (rows = {} => last = 0)
    <2>1. rows = {} => last = 0
      BY DEF LastId
    <2>. QED BY <1>2, <2>1, LastIdIs
  <1>4. r.id = last + i /\ r.level = s[i].level /\ r.born = s[i].born
    BY DEF NewRow
  <1>. HIDE DEF q, last
  <1>5. last + Len(q) <= n
    <2>1. CASE rows = {}
      BY <1>1, <1>2, <1>3, <2>1
    <2>2. CASE rows # {}
      BY <1>2, <1>3, <2>2
    <2>. QED BY <2>1, <2>2
  <1>6. r.id + Len(t) <= n /\ r.id \in 1..MaxLogged
    BY <1>1, <1>3, <1>4, <1>5, LogAssumption
  <1>7. r \in LogRow
    <2>1. r.id \in 1..MaxLogged /\ s[i].level \in EntryLevels /\ s[i].born \in 1..MaxLogged
      BY <1>1, <1>6, EventFields
    <2>. QED BY <1>4, <2>1 DEF LogRow, NewRow
  <1>. HIDE DEF r
  <1>8. \A x \in rows : x.id < r.id /\ x.born < r.born
    BY <1>1, <1>2, <1>3, <1>4
  <1>9. \A j \in 1..Len(t) : r.born < t[j].born
    <2>1. \A j \in 1..Len(t) : i < Len(s) + j
      BY <1>1
    <2>. QED BY <1>1, <1>2, <1>4, <2>1
  <1>10. \A j \in 1..Len(s) : i < j => r.born < s[j].born
    BY <1>1, <1>2, <1>4
  <1>11. r.born <= n
    BY <1>1, <1>2, <1>4
  <1>. QED BY <1>4, <1>6, <1>7, <1>8, <1>9, <1>10, <1>11 DEF r, last

\* A batch goes into the table, or is lost: what is left to come is still in order.
LEMMA InsertKeepsOrder ==
  ASSUME NEW rows, NEW s \in Seq(LogEvent), NEW t \in Seq(LogEvent), NEW n \in 0..MaxLogged, Ordered(rows, s \o t, n)
  PROVE  Ordered(rows \cup NewRows(rows, s), t, n)
  <1>. DEFINE N == NewRows(rows, s)
              all == rows \cup N
              q == s \o t
  <1>1. /\ Len(s) \in Nat /\ Len(t) \in Nat /\ Len(q) = Len(s) + Len(t) /\ n \in Nat
        /\ \A j \in 1..Len(t) : Len(s) + j \in 1..Len(q) /\ q[Len(s) + j] = t[j]
    BY ConcatProperties, LenProperties, LogAssumption
  <1>2. /\ rows \subseteq LogRow /\ IsFiniteSet(rows) /\ IdsApart(rows) /\ Len(q) <= n
        /\ \A x \in rows : x.id + Len(q) <= n /\ x.born <= n /\ x.id \in Nat /\ x.born \in Nat
        /\ \A x, y \in rows : x.id < y.id => x.born < y.born
        /\ \A j \in 1..Len(q) : q[j].born <= n /\ \A x \in rows : x.born < q[j].born
        /\ \A j, k \in 1..Len(q) : j < k => q[j].born < q[k].born
    BY RowFieldsOf DEF Ordered
  <1>3. \A i \in 1..Len(s) :
          LET r == NewRow(rows, s, i) IN
          /\ r \in LogRow /\ r.id = LastId(rows) + i /\ r.born = s[i].born
          /\ r.id + Len(t) <= n /\ r.born <= n
          /\ \A x \in rows : x.id < r.id /\ x.born < r.born
          /\ \A j \in 1..Len(t) : r.born < t[j].born
          /\ \A j \in 1..Len(s) : i < j => r.born < s[j].born
    BY NewRowFields
  <1>4. \A r \in N : /\ r \in LogRow /\ r.id + Len(t) <= n /\ r.born <= n /\ r.id \in Nat
                     /\ \A x \in rows : x.id < r.id /\ x.born < r.born
                     /\ \A j \in 1..Len(t) : r.born < t[j].born
    BY <1>3, RowFieldsOf DEF NewRows
  <1>5. LastId(rows) \in Nat
    BY <1>2, LastIdIs
  <1>6. \A r, x \in N : (r.id = x.id => r = x) /\ (r.id < x.id => r.born < x.born)
    <2>1. ASSUME NEW i \in 1..Len(s), NEW j \in 1..Len(s)
          PROVE  LET r == NewRow(rows, s, i) x == NewRow(rows, s, j) IN
                 (r.id = x.id => r = x) /\ (r.id < x.id => r.born < x.born)
      <3>1. NewRow(rows, s, i).id = NewRow(rows, s, j).id => i = j
        BY <1>3, <1>5
      <3>2. NewRow(rows, s, i).id < NewRow(rows, s, j).id => i < j
        BY <1>3, <1>5
      <3>. QED BY <1>3, <3>1, <3>2
    <2>. QED BY <2>1 DEF NewRows
  <1>7. IsFiniteSet(N)
    <2>. DEFINE f == [i \in 1..Len(s) |-> NewRow(rows, s, i)]
    <2>1. f \in Surjection(1..Len(s), N)
      BY DEF Surjection, NewRows
    <2>. QED BY <1>1, <2>1, FS_Interval, FS_Surjection
  <1>. HIDE DEF N, q
  <1>8. IsFiniteSet(all) /\ all \subseteq LogRow
    BY <1>2, <1>4, <1>7, FS_Union
  <1>9. IdsApart(all)
    <2>1. ASSUME NEW r \in all, NEW x \in all, r.id = x.id PROVE r = x
      <3>1. CASE r \in rows /\ x \in rows
        BY <1>2, <2>1, <3>1 DEF IdsApart
      <3>2. CASE r \in N /\ x \in N
        BY <1>6, <2>1, <3>2
      <3>3. CASE (r \in N /\ x \in rows) \/ (r \in rows /\ x \in N)
        BY <1>2, <1>4, <2>1, <3>3
      <3>. QED BY <3>1, <3>2, <3>3
    <2>. QED BY <2>1 DEF IdsApart
  <1>10. \A r \in all : r.id + Len(t) <= n /\ r.born <= n
    BY <1>1, <1>2, <1>4
  <1>11. \A r, x \in all : r.id < x.id => r.born < x.born
    <2>1. ASSUME NEW r \in all, NEW x \in all, r.id < x.id PROVE r.born < x.born
      <3>1. CASE r \in rows /\ x \in rows
        BY <1>2, <2>1, <3>1
      <3>2. CASE r \in N /\ x \in N
        BY <1>6, <2>1, <3>2
      <3>3. CASE r \in rows /\ x \in N
        BY <1>4, <3>3
      <3>4. CASE r \in N /\ x \in rows
        BY <1>2, <1>4, <2>1, <3>4
      <3>. QED BY <3>1, <3>2, <3>3, <3>4
    <2>. QED BY <2>1
  <1>12. \A i \in 1..Len(t) : t[i].born <= n /\ \A r \in all : r.born < t[i].born
    BY <1>1, <1>2, <1>4
  <1>13. \A i, j \in 1..Len(t) : i < j => t[i].born < t[j].born
    <2>1. ASSUME NEW i \in 1..Len(t), NEW j \in 1..Len(t), i < j PROVE t[i].born < t[j].born
      <3>1. Len(s) + i < Len(s) + j
        BY <1>1, <2>1
      <3>. QED BY <1>1, <1>2, <3>1
    <2>. QED BY <2>1
  <1>14. Len(t) <= n
    BY <1>1, <1>2
  <1>. HIDE DEF all
  <1>15. Ordered(all, t, n)
    BY <1>8, <1>9, <1>10, <1>11, <1>12, <1>13, <1>14 DEF Ordered
  <1>. QED BY <1>15 DEF all, N

LEMMA LossKeepsOrder ==
  ASSUME NEW rows, NEW s \in Seq(LogEvent), NEW t \in Seq(LogEvent), NEW n \in 0..MaxLogged, Ordered(rows, s \o t, n)
  PROVE  Ordered(rows, t, n)
  <1>. DEFINE q == s \o t
  <1>1. /\ Len(s) \in Nat /\ Len(t) \in Nat /\ Len(q) = Len(s) + Len(t) /\ n \in Nat
        /\ \A j \in 1..Len(t) : Len(s) + j \in 1..Len(q) /\ q[Len(s) + j] = t[j]
    BY ConcatProperties, LenProperties, LogAssumption
  <1>2. /\ rows \subseteq LogRow /\ IsFiniteSet(rows) /\ IdsApart(rows) /\ Len(q) <= n
        /\ \A x \in rows : x.id + Len(q) <= n /\ x.born <= n /\ x.id \in Nat /\ x.born \in Nat
        /\ \A x, y \in rows : x.id < y.id => x.born < y.born
        /\ \A j \in 1..Len(q) : q[j].born <= n /\ \A x \in rows : x.born < q[j].born
        /\ \A j, k \in 1..Len(q) : j < k => q[j].born < q[k].born
    BY RowFieldsOf DEF Ordered
  <1>. HIDE DEF q
  <1>3. \A i \in 1..Len(t) : t[i].born <= n /\ \A r \in rows : r.born < t[i].born
    BY <1>1, <1>2
  <1>4. \A i, j \in 1..Len(t) : i < j => t[i].born < t[j].born
    <2>1. ASSUME NEW i \in 1..Len(t), NEW j \in 1..Len(t), i < j PROVE t[i].born < t[j].born
      <3>1. Len(s) + i < Len(s) + j
        BY <1>1, <2>1
      <3>. QED BY <1>1, <1>2, <3>1
    <2>. QED BY <2>1
  <1>5. Len(t) <= n /\ \A x \in rows : x.id + Len(t) <= n
    BY <1>1, <1>2
  <1>. QED BY <1>2, <1>3, <1>4, <1>5 DEF Ordered

LEMMA FewerKeepOrder ==
  ASSUME NEW rows, NEW q, NEW n, Ordered(rows, q, n), NEW gone
  PROVE  Ordered(rows \ gone, q, n)
  <1>1. IsFiniteSet(rows \ gone)
    BY FS_Difference DEF Ordered
  <1>. QED BY <1>1 DEF Ordered, IdsApart

LEMMA EmptyBatch ==
  <<>> \in Seq(LogEvent) /\ Len(<<>>) = 0 /\ \A s \in Seq(LogEvent) : s \o <<>> = s /\ <<>> \o s = s
  BY EmptySeq, ConcatEmptySeq

LEMMA EmitKeepsOrder ==
  ASSUME OrderPart, NEW l \in EntryLevels, NEW own, Emit(l, own)
  PROVE  OrderPart'
  <1>. DEFINE e == [level |-> l, born |-> logged + 1]
              q == Pending
              p == Append(q, e)
  <1>1. /\ logged \in Nat /\ logged < MaxLogged /\ logged' = logged + 1 /\ logged' \in 0..MaxLogged
        /\ batch \in Seq(LogEvent) /\ backlog \in Seq(LogEvent) /\ UNCHANGED <<batch, logRows>>
        /\ backlog' = Append(backlog, e)
    BY LogAssumption DEF OrderPart, Emit
  <1>2. e \in LogEvent /\ e.born = logged + 1
    BY <1>1, LogAssumption DEF LogEvent
  <1>. HIDE DEF e
  <1>3. /\ q \in Seq(LogEvent) /\ p \in Seq(LogEvent) /\ Len(p) = Len(q) + 1 /\ Len(q) \in Nat
        /\ \A i \in 1..Len(q) : p[i] = q[i]
        /\ p[Len(q) + 1] = e
    <2>1. q \in Seq(LogEvent)
      BY <1>1, ConcatProperties DEF Pending
    <2>. HIDE DEF q
    <2>2. Len(q) \in Nat /\ p \in Seq(LogEvent) /\ Len(p) = Len(q) + 1
      BY <1>2, <2>1, AppendProperties, LenProperties
    <2>. QED BY <1>2, <2>1, <2>2, AppendProperties
  <1>4. Pending' = p /\ backlog' \in Seq(LogEvent)
    <2>1. batch \o Append(backlog, e) = Append(batch \o backlog, e)
      BY <1>1, <1>2, AppendIsConcat, ConcatAssociative, ConcatProperties, <1>3 DEF Pending
    <2>. QED BY <1>1, <1>2, <2>1, AppendProperties DEF Pending
  <1>5. /\ logRows \subseteq LogRow /\ IsFiniteSet(logRows) /\ IdsApart(logRows) /\ Len(q) <= logged
        /\ \A x \in logRows : x.id + Len(q) <= logged /\ x.born <= logged /\ x.id \in Nat /\ x.born \in Nat
        /\ \A x, y \in logRows : x.id < y.id => x.born < y.born
        /\ \A j \in 1..Len(q) : q[j].born <= logged /\ \A x \in logRows : x.born < q[j].born
        /\ \A j, k \in 1..Len(q) : j < k => q[j].born < q[k].born
    BY RowFieldsOf DEF OrderPart, Ordered
  <1>6. \A j \in 1..Len(q) : q[j] \in LogEvent /\ q[j].born \in Nat
    BY <1>3, ElementOfSeq, EventFields
  <1>. HIDE DEF p, q
  <1>7. \A i \in 1..Len(p) : i \in 1..Len(q) \/ i = Len(q) + 1
    BY <1>3
  <1>8. \A i \in 1..Len(p) : p[i].born <= logged + 1 /\ \A r \in logRows : r.born < p[i].born
    <2>1. ASSUME NEW i \in 1..Len(q) PROVE p[i].born <= logged + 1 /\ \A r \in logRows : r.born < p[i].born
      BY <1>1, <1>3, <1>5, <1>6
    <2>2. \A r \in logRows : r.born < p[Len(q) + 1].born
      BY <1>1, <1>2, <1>3, <1>5
    <2>3. p[Len(q) + 1].born <= logged + 1
      BY <1>1, <1>2, <1>3
    <2>. QED BY <1>7, <2>1, <2>2, <2>3
  <1>9. \A i, j \in 1..Len(p) : i < j => p[i].born < p[j].born
    <2>1. ASSUME NEW i \in 1..Len(p), NEW j \in 1..Len(p), i < j PROVE p[i].born < p[j].born
      <3>1. i \in 1..Len(q)
        BY <1>3, <1>7, <2>1
      <3>2. CASE j \in 1..Len(q)
        BY <1>3, <1>5, <2>1, <3>1, <3>2
      <3>3. CASE j = Len(q) + 1
        BY <1>1, <1>2, <1>3, <1>5, <1>6, <3>1, <3>3
      <3>. QED BY <1>7, <3>2, <3>3
    <2>. QED BY <2>1
  <1>10. Len(p) <= logged + 1 /\ \A x \in logRows : x.id + Len(p) <= logged + 1 /\ x.born <= logged + 1
    BY <1>1, <1>3, <1>5
  <1>11. Ordered(logRows, p, logged + 1)
    BY <1>5, <1>8, <1>9, <1>10 DEF Ordered
  <1>. QED BY <1>1, <1>4, <1>11 DEF OrderPart

LEMMA ReceiveKeepsOrder ==
  ASSUME OrderPart, ReceiveLog
  PROVE  OrderPart'
  <1>1. /\ batch \in Seq(LogEvent) /\ backlog \in Seq(LogEvent) /\ backlog # <<>> /\ Len(batch) < LogBatch
        /\ batch' = Append(batch, Head(backlog)) /\ backlog' = Tail(backlog) /\ UNCHANGED <<logged, logRows>>
    BY DEF OrderPart, ReceiveLog
  <1>2. /\ Head(backlog) \in LogEvent /\ Tail(backlog) \in Seq(LogEvent)
        /\ <<Head(backlog)>> \in Seq(LogEvent) /\ <<Head(backlog)>> \o Tail(backlog) = backlog
    BY <1>1, HeadTailProperties
  <1>3. batch' \in Seq(LogEvent) /\ Len(batch') <= LogBatch
    BY <1>1, <1>2, AppendProperties, LenProperties, LogAssumption
  <1>4. batch' \o backlog' = batch \o backlog
    <2>1. Append(batch, Head(backlog)) = batch \o <<Head(backlog)>>
      BY <1>1, <1>2, AppendIsConcat
    <2>2. (batch \o <<Head(backlog)>>) \o Tail(backlog) = batch \o (<<Head(backlog)>> \o Tail(backlog))
      BY <1>1, <1>2, ConcatAssociative
    <2>. QED BY <1>1, <1>2, <2>1, <2>2
  <1>. QED BY <1>1, <1>2, <1>3, <1>4 DEF OrderPart, Pending

LEMMA WritesKeepOrder ==
  ASSUME OrderPart, FlushBatch \/ DrainLogs
  PROVE  OrderPart'
  <1>1. /\ batch \in Seq(LogEvent) /\ backlog \in Seq(LogEvent) /\ UNCHANGED logged /\ logged \in 0..MaxLogged
        /\ batch' = <<>> /\ Ordered(logRows, batch \o backlog, logged) /\ Len(batch') <= LogBatch
    BY EmptyBatch, LogAssumption DEF OrderPart, Pending, FlushBatch, DrainLogs
  <1>2. CASE FlushBatch
    <2>1. backlog' = backlog /\ (InsertLogBatch(batch) \/ UNCHANGED logRows)
      BY <1>2 DEF FlushBatch
    <2>2. Ordered(logRows', backlog, logged)
      <3>1. CASE InsertLogBatch(batch)
        BY <1>1, <3>1, InsertIs, InsertKeepsOrder
      <3>2. CASE UNCHANGED logRows
        BY <1>1, <3>2, LossKeepsOrder
      <3>. QED BY <2>1, <3>1, <3>2
    <2>3. Pending' = backlog
      BY <1>1, <2>1, EmptyBatch DEF Pending
    <2>. QED BY <1>1, <2>1, <2>2, <2>3, EmptyBatch DEF OrderPart
  <1>3. CASE DrainLogs
    <2>. DEFINE q == batch \o backlog
    <2>1. backlog' = <<>> /\ (InsertLogBatch(q) \/ UNCHANGED logRows) /\ q \in Seq(LogEvent)
      BY <1>1, <1>3, ConcatProperties DEF DrainLogs
    <2>. HIDE DEF q
    <2>2. Ordered(logRows, q \o <<>>, logged)
      BY <1>1, <2>1, EmptyBatch DEF q
    <2>3. Ordered(logRows', <<>>, logged)
      <3>1. CASE InsertLogBatch(q)
        <4>1. logRows' = logRows \cup NewRows(logRows, q)
          BY <2>1, <3>1, InsertIs
        <4>2. <<>> \in Seq(LogEvent)
          BY EmptyBatch
        <4>3. Ordered(logRows \cup NewRows(logRows, q), <<>>, logged)
          BY <1>1, <2>1, <2>2, <4>2, InsertKeepsOrder
        <4>. QED BY <4>1, <4>3
      <3>2. CASE UNCHANGED logRows
        BY <1>1, <2>1, <2>2, <3>2, EmptyBatch, LossKeepsOrder
      <3>. QED BY <2>1, <3>1, <3>2
    <2>4. Pending' = <<>>
      BY <1>1, <2>1, EmptyBatch DEF Pending
    <2>. QED BY <1>1, <2>1, <2>3, <2>4, EmptyBatch DEF OrderPart
  <1>. QED BY <1>2, <1>3

LEMMA PruneKeepsOrder ==
  ASSUME OrderPart, PruneLogs
  PROVE  OrderPart'
  <1>1. PICK rows : logRows' = logRows \ rows
    BY DEF PruneLogs, Deleted
  <1>. QED BY <1>1, FewerKeepOrder DEF PruneLogs, OrderPart, Pending

LEMMA EndKeepsOrder ==
  ASSUME OrderPart, EndServe
  PROVE  OrderPart'
  <1>1. /\ batch \o backlog \in Seq(LogEvent) /\ Ordered(logRows, (batch \o backlog) \o <<>>, logged)
        /\ logged \in 0..MaxLogged
    BY ConcatProperties, EmptyBatch DEF OrderPart, Pending
  <1>2. Ordered(logRows, <<>>, logged)
    BY <1>1, EmptyBatch, LossKeepsOrder
  <1>3. Pending' = <<>> /\ backlog' = <<>> /\ batch' = <<>> /\ UNCHANGED <<logRows, logged>>
    BY EmptyBatch DEF EndServe, Pending
  <1>. QED BY <1>1, <1>2, <1>3, EmptyBatch, LogAssumption DEF OrderPart

(* The counts. *)

LEMMA TallyFields ==
  /\ \A s \in Seq(LogEvent) : Tally(s) \in [EntryLevels -> Nat]
  /\ \A c \in [EntryLevels -> Nat] : Plus(c, Tally(<<>>)) = c
  /\ \A c, d \in [EntryLevels -> Nat] : Plus(c, d) \in [EntryLevels -> Nat]
  /\ NoCounts \in [EntryLevels -> Nat]
  <1>1. ASSUME NEW s \in Seq(LogEvent) PROVE Tally(s) \in [EntryLevels -> Nat]
    <2>1. Len(s) \in Nat /\ DOMAIN s = 1..Len(s) /\ IsFiniteSet(1..Len(s))
      BY LenProperties, FS_Interval
    <2>2. ASSUME NEW l \in EntryLevels PROVE Cardinality({i \in DOMAIN s : s[i].level = l}) \in Nat
      <3>. DEFINE I == {i \in DOMAIN s : s[i].level = l}
      <3>1. I \in SUBSET (1..Len(s))
        BY <2>1
      <3>. HIDE DEF I
      <3>2. IsFiniteSet(I)
        BY <2>1, <3>1, FS_Subset
      <3>3. Cardinality(I) \in Nat
        BY <3>2, FS_CardinalityType
      <3>. QED BY <3>3 DEF I
    <2>. QED BY <2>2 DEF Tally
  <1>2. ASSUME NEW c \in [EntryLevels -> Nat] PROVE Plus(c, Tally(<<>>)) = c
    <2>1. Tally(<<>>) = [l \in EntryLevels |-> 0]
      <3>1. DOMAIN <<>> = {}
        OBVIOUS
      <3>2. \A l \in EntryLevels : {i \in DOMAIN <<>> : <<>>[i].level = l} = {}
        BY <3>1
      <3>. QED BY <3>2, FS_EmptySet DEF Tally
    <2>. QED BY <2>1 DEF Plus
  <1>. QED BY <1>1, <1>2 DEF Plus, NoCounts

LEMMA CountsFields ==
  ASSUME NEW rows, IsFiniteSet(rows)
  PROVE  CountsOf(rows) \in [EntryLevels -> Nat]
  <1>1. ASSUME NEW l \in EntryLevels PROVE Cardinality({r \in rows : r.level = l}) \in Nat
    <2>. DEFINE A == {r \in rows : r.level = l}
    <2>1. A \in SUBSET rows
      OBVIOUS
    <2>. HIDE DEF A
    <2>2. Cardinality(A) \in Nat
      BY <2>1, FS_Subset, FS_CardinalityType
    <2>. QED BY <2>2 DEF A
  <1>. QED BY <1>1 DEF CountsOf

LEMMA CountGrows ==
  ASSUME NEW rows, NEW s \in Seq(LogEvent), NEW t \in Seq(LogEvent), NEW n \in 0..MaxLogged, Ordered(rows, s \o t, n)
  PROVE  CountsOf(rows \cup NewRows(rows, s)) = Plus(CountsOf(rows), Tally(s))
  <1>1. ASSUME NEW l \in EntryLevels
        PROVE Cardinality({r \in rows \cup NewRows(rows, s) : r.level = l})
                = Cardinality({r \in rows : r.level = l}) + Cardinality({i \in DOMAIN s : s[i].level = l})
    <2>. DEFINE A == {r \in rows : r.level = l}
                I == {i \in DOMAIN s : s[i].level = l}
                B == {NewRow(rows, s, i) : i \in I}
                f == [i \in I |-> NewRow(rows, s, i)]
    <2>1. Len(s) \in Nat /\ DOMAIN s = 1..Len(s) /\ I \in SUBSET (1..Len(s))
      BY LenProperties
    <2>2. \A i \in 1..Len(s) : /\ NewRow(rows, s, i).id = LastId(rows) + i /\ NewRow(rows, s, i).level = s[i].level
                               /\ \A x \in rows : x.id < NewRow(rows, s, i).id
      BY NewRowFields
    <2>3. LastId(rows) \in Nat /\ IsFiniteSet(rows) /\ \A x \in rows : x.id \in Nat
      BY LastIdIs, RowFieldsOf DEF Ordered
    <2>4. {r \in rows \cup NewRows(rows, s) : r.level = l} = A \cup B
      BY <2>1, <2>2 DEF NewRows
    <2>5. A \cap B = {}
      BY <2>1, <2>2, <2>3
    <2>6. IsFiniteSet(A) /\ IsFiniteSet(I)
      <3>1. A \in SUBSET rows /\ IsFiniteSet(1..Len(s))
        BY <2>1, FS_Interval
      <3>. HIDE DEF A, I
      <3>. QED BY <2>1, <2>3, <3>1, FS_Subset
    <2>7. IsFiniteSet(B) /\ Cardinality(B) = Cardinality(I)
      <3>1. \A i, j \in I : f[i] = f[j] => i = j
        BY <2>1, <2>2, <2>3
      <3>2. f \in Bijection(I, B)
        <4>1. f \in [I -> B] /\ \A b \in B : \E i \in I : f[i] = b
          OBVIOUS
        <4>. HIDE DEF f, I, B
        <4>. QED BY <3>1, <4>1 DEF Bijection, Injection, Surjection, IsInjective
      <3>. HIDE DEF f, I, B
      <3>. QED BY <2>6, <3>2, FS_Bijection DEF ExistsBijection
    <2>. HIDE DEF A, B, I, f
    <2>8. Cardinality(A) \in Nat /\ Cardinality(I) \in Nat /\ Cardinality(A \cap B) = 0
      BY <2>5, <2>6, FS_CardinalityType, FS_EmptySet
    <2>9. Cardinality(A \cup B) = Cardinality(A) + Cardinality(I)
      <3>1. Cardinality(A \cup B) = Cardinality(A) + Cardinality(B) - Cardinality(A \cap B)
        BY <2>6, <2>7, FS_Union
      <3>. QED BY <2>7, <2>8, <3>1
    <2>. QED BY <2>4, <2>9 DEF A, I
  <1>. QED BY <1>1 DEF CountsOf, Plus, Tally

LEMMA WriteKeepsTally ==
  ASSUME TallyPart, OrderPart, writer # "down", uncounted = <<>>, NEW s \in Seq(LogEvent), NEW t \in Seq(LogEvent),
         batch \o backlog = s \o t, UNCHANGED <<counts, stale, writer>>,
         (InsertLogBatch(s) /\ uncounted' = s) \/ UNCHANGED <<logRows, uncounted>>
  PROVE  TallyPart'
  <1>1. CASE UNCHANGED <<logRows, uncounted>>
    BY <1>1 DEF TallyPart
  <1>2. CASE InsertLogBatch(s) /\ uncounted' = s
    <2>1. logRows' = logRows \cup NewRows(logRows, s)
      BY <1>2, InsertIs
    <2>2. logged \in 0..MaxLogged /\ Ordered(logRows, s \o t, logged)
      BY DEF OrderPart, Pending
    <2>3. CountsOf(logRows') = Plus(CountsOf(logRows), Tally(s))
      BY <2>1, <2>2, CountGrows
    <2>4. ~stale => counts = CountsOf(logRows)
      BY TallyFields DEF TallyPart
    <2>. QED BY <1>2, <2>3, <2>4 DEF TallyPart
  <1>. QED BY <1>1, <1>2

LEMMA TallyRest ==
  ASSUME TallyPart, UNCHANGED <<counts, stale, uncounted, logRows>>, writer' # "down", writer # "down"
  PROVE  TallyPart'
  BY DEF TallyPart

LEMMA LogsTally ==
  ASSUME TallyPart, OrderPart, LogsNext
  PROVE  TallyPart'
  <1>0. batch \in Seq(LogEvent) /\ backlog \in Seq(LogEvent) /\ IsFiniteSet(logRows) /\ <<>> \in Seq(LogEvent)
    BY EmptyBatch DEF OrderPart, Ordered
  <1>1. CASE ServeLogs
    <2>1. /\ counts' = CountsOf(logRows) /\ stale' = FALSE /\ uncounted' = <<>> /\ logRows' = logRows
      BY <1>1 DEF ServeLogs, TallyPart
    <2>2. CountsOf(logRows) \in [EntryLevels -> Nat]
      BY <1>0, CountsFields
    <2>. QED BY <1>0, <1>1, <2>1, <2>2, TallyFields DEF ServeLogs, TallyPart
  <1>2. ASSUME UNCHANGED <<counts, stale, uncounted, logRows, writer>> PROVE TallyPart'
    BY <1>2 DEF TallyPart
  <1>3. CASE ReloadFloor \/ ReloadConsole \/ ReloadFile
    BY <1>2, <1>3 DEF ReloadFloor, ReloadConsole, ReloadFile, writerVars
  <1>4. ASSUME NEW c \in LogConfs, SaveLoggingSettings(c) PROVE TallyPart'
    BY <1>2, <1>4 DEF SaveLoggingSettings, writerVars
  <1>5. ASSUME NEW l \in EntryLevels, NEW own \in BOOLEAN, Emit(l, own) PROVE TallyPart'
    BY <1>2, <1>5 DEF Emit
  <1>6. CASE PruneLogs
    <2>1. PICK rows \in SUBSET logRows : /\ logRows' = logRows \ rows
                                         /\ \/ counts' = CountsOf(logRows \ rows) /\ stale' = FALSE
                                            \/ UNCHANGED counts /\ stale' = TRUE
      BY <1>6 DEF PruneLogs, Deleted
    <2>2. uncounted = <<>> /\ uncounted' = <<>> /\ writer' = "running"
      BY <1>6 DEF PruneLogs
    <2>3. CountsOf(logRows') \in [EntryLevels -> Nat]
      BY <1>0, <2>1, FS_Difference, CountsFields
    <2>. QED BY <1>0, <2>1, <2>2, <2>3, TallyFields DEF TallyPart
  <1>7. CASE ReceiveLog
    BY <1>2, <1>7 DEF ReceiveLog
  <1>8. CASE FlushBatch
    BY <1>0, <1>8, WriteKeepsTally DEF FlushBatch
  <1>9. CASE AddCounts
    <2>1. /\ uncounted' = <<>> /\ counts' = Plus(counts, Tally(uncounted)) /\ UNCHANGED <<logRows, stale, writer>>
          /\ uncounted \in Seq(LogEvent) /\ counts \in [EntryLevels -> Nat] /\ writer # "down"
      BY <1>9 DEF AddCounts, TallyPart
    <2>2. counts' \in [EntryLevels -> Nat]
      BY <2>1, TallyFields
    <2>3. Plus(counts', Tally(<<>>)) = counts'
      BY <2>2, TallyFields
    <2>. QED BY <1>0, <2>1, <2>2, <2>3 DEF TallyPart
  <1>10. CASE ShutdownWriter
    BY <1>10, TallyRest DEF ShutdownWriter
  <1>11. CASE DrainLogs
    <2>. DEFINE q == batch \o backlog
    <2>1. q \in Seq(LogEvent) /\ q = q \o <<>>
      BY <1>0, ConcatProperties, EmptyBatch
    <2>2. /\ writer # "down" /\ uncounted = <<>> /\ UNCHANGED <<counts, stale, writer>>
          /\ (InsertLogBatch(q) /\ uncounted' = q) \/ UNCHANGED <<logRows, uncounted>>
      BY <1>11 DEF DrainLogs
    <2>3. batch \o backlog = q \o <<>>
      BY <2>1
    <2>. HIDE DEF q
    <2>. QED BY <1>0, <2>1, <2>2, <2>3, WriteKeepsTally
  <1>12. CASE EndServe
    BY <1>0, <1>12, TallyFields DEF EndServe, TallyPart
  <1>13. CASE LoadInitialLogs \/ LoadOlderLogs
    BY <1>2, <1>13 DEF LoadInitialLogs, LoadOlderLogs, writerVars
  <1>. QED BY <1>1, <1>3, <1>4, <1>5, <1>6, <1>7, <1>8, <1>9, <1>10, <1>11, <1>12, <1>13 DEF LogsNext

(* The pages. *)

\* A page has the newest rows, all that are not older than its last one.
LEMMA PageFields ==
  ASSUME NEW rows, rows \subseteq LogRow, IsFiniteSet(rows), rows # {}
  PROVE  /\ QueryLogs(rows) \subseteq rows /\ QueryLogs(rows) # {}
         /\ Least(QueryLogs(rows)) \in Nat /\ (\E q \in rows : q.id = Least(QueryLogs(rows)))
         /\ \A r \in rows : r \in QueryLogs(rows) <=> Least(QueryLogs(rows)) <= r.id
  <1>. DEFINE page == QueryLogs(rows)
              Above(r) == {s \in rows : s.id > r.id}
  <1>1. page \subseteq rows /\ \A r \in rows : r \in page <=> Cardinality(Above(r)) < PageRows
    BY DEF QueryLogs
  <1>2. \A r \in rows : r.id \in Nat
    BY RowFieldsOf
  <1>3. page # {}
    <2>1. PICK r \in rows : r.id = LastId(rows)
      BY LastIdIs
    <2>2. LastId(rows) \in Nat /\ \A s \in rows : s.id <= LastId(rows)
      BY LastIdIs
    <2>3. Above(r) = {}
      BY <1>2, <2>1, <2>2
    <2>4. Cardinality(Above(r)) = 0
      BY <2>3, FS_EmptySet
    <2>. QED BY <1>1, <2>1, <2>4, LogAssumption
  <1>4. /\ Least(page) \in Nat /\ (\E r \in page : r.id = Least(page)) /\ \A r \in page : Least(page) <= r.id
    BY <1>1, <1>3, LeastIs
  <1>5. ASSUME NEW r \in rows, Least(page) <= r.id PROVE r \in page
    <2>1. PICK q \in page : q.id = Least(page)
      BY <1>4
    <2>2. Above(r) \in SUBSET Above(q) /\ Above(q) \in SUBSET rows
      BY <1>1, <1>2, <1>5, <2>1
    <2>3. Cardinality(Above(q)) < PageRows
      BY <1>1, <2>1
    <2>. HIDE DEF Above
    <2>4. IsFiniteSet(Above(q)) /\ Cardinality(Above(q)) \in Nat
      BY <2>2, FS_Subset, FS_CardinalityType
    <2>5. IsFiniteSet(Above(r)) /\ Cardinality(Above(r)) <= Cardinality(Above(q)) /\ Cardinality(Above(r)) \in Nat
      BY <2>2, <2>4, FS_Subset, FS_CardinalityType
    <2>6. Cardinality(Above(r)) < PageRows
      BY <2>3, <2>4, <2>5, LogAssumption
    <2>. QED BY <1>1, <2>6
  <1>. HIDE DEF page, Above
  <1>6. \E q \in rows : q.id = Least(page)
    BY <1>1, <1>4
  <1>. QED BY <1>1, <1>3, <1>4, <1>5, <1>6 DEF page

LEMMA ShownFields ==
  ASSUME NEW p \in ReaderPage
  PROVE  p.top \in Nat /\ p.cursor \in Nat /\ p.seen \subseteq LogRow /\ p.more \in BOOLEAN
  BY DEF ReaderPage

LEMMA InitialKeeps ==
  ASSUME PagePart, OrderPart, LoadInitialLogs
  PROVE  PagePart'
  <1>. DEFINE page == QueryLogs(logRows)
              p == [top |-> LastId(logRows), cursor |-> Least(page), seen |-> page, more |-> page # logRows]
  <1>1. /\ logRows \subseteq LogRow /\ IsFiniteSet(logRows) /\ logRows # {} /\ logRows' = logRows
        /\ reader' = p /\ idsReused' = FALSE
    BY DEF OrderPart, Ordered, LoadInitialLogs, writerVars
  <1>2. /\ LastId(logRows) \in Nat /\ (\E r \in logRows : r.id = LastId(logRows))
        /\ \A r \in logRows : r.id <= LastId(logRows) /\ r.id \in Nat
    BY <1>1, LastIdIs, RowFieldsOf
  <1>3. /\ page \subseteq logRows /\ Least(page) \in Nat /\ (\E q \in logRows : q.id = Least(page))
        /\ \A r \in logRows : r \in page <=> Least(page) <= r.id
    BY <1>1, PageFields
  <1>. HIDE DEF page
  <1>4. p \in ReaderPage /\ p.top = LastId(logRows) /\ p.cursor = Least(page) /\ p.seen = page /\ (p.more <=> page # logRows)
    BY <1>1, <1>2, <1>3 DEF ReaderPage
  <1>. HIDE DEF p
  <1>5. p.cursor <= p.top /\ \E r \in logRows : p.top <= r.id
    BY <1>2, <1>3, <1>4
  <1>6. \A r \in logRows : p.cursor <= r.id => r \in p.seen
    BY <1>3, <1>4
  <1>7. ~p.more => \A r \in logRows : p.cursor <= r.id
    BY <1>3, <1>4
  <1>. QED BY <1>1, <1>4, <1>5, <1>6, <1>7 DEF PagePart

LEMMA OlderKeeps ==
  ASSUME PagePart, OrderPart, LoadOlderLogs
  PROVE  PagePart'
  <1>. DEFINE rows == OlderThan(reader.cursor)
              page == QueryLogs(rows)
              c == IF page = {} THEN reader.cursor ELSE Least(page)
              p == [top |-> reader.top, cursor |-> c, seen |-> reader.seen \cup page, more |-> page # rows]
  <1>1. /\ logRows \subseteq LogRow /\ IsFiniteSet(logRows) /\ logRows' = logRows /\ UNCHANGED idsReused
        /\ reader \in ReaderPage /\ reader # Away /\ idsReused \in BOOLEAN
        /\ reader' = [reader EXCEPT !.cursor = c, !.seen = @ \cup page, !.more = page # rows]
    BY DEF OrderPart, Ordered, LoadOlderLogs, writerVars, PagePart
  <1>2. reader' = p
    BY <1>1 DEF ReaderPage
  <1>3. /\ rows \subseteq logRows /\ rows \subseteq LogRow /\ IsFiniteSet(rows)
        /\ \A r \in logRows : r \in rows <=> r.id < reader.cursor
    <2>1. rows \in SUBSET logRows
      BY DEF OlderThan
    <2>. QED BY <1>1, <2>1, FS_Subset DEF OlderThan
  <1>4. /\ reader.cursor \in Nat /\ reader.top \in Nat /\ reader.seen \subseteq LogRow
        /\ \A r \in logRows : r.id \in Nat
    BY <1>1, ShownFields, RowFieldsOf
  <1>. HIDE DEF rows
  <1>5. /\ page \subseteq rows /\ c \in Nat /\ c <= reader.cursor
        /\ \A r \in rows : r \in page <=> c <= r.id
    <2>1. CASE rows = {}
      <3>1. page = {}
        BY <2>1 DEF QueryLogs
      <3>. QED BY <1>4, <2>1, <3>1
    <2>2. CASE rows # {}
      <3>1. /\ page \subseteq rows /\ page # {} /\ Least(page) \in Nat /\ (\E q \in rows : q.id = Least(page))
            /\ \A r \in rows : r \in page <=> Least(page) <= r.id
        BY <1>3, <2>2, PageFields
      <3>2. c = Least(page)
        BY <3>1
      <3>3. c <= reader.cursor
        BY <1>3, <1>4, <3>1, <3>2
      <3>. QED BY <3>1, <3>2, <3>3
    <2>. QED BY <2>1, <2>2
  <1>. HIDE DEF page, c
  <1>6. p \in ReaderPage /\ p.top = reader.top /\ p.cursor = c /\ p.seen = reader.seen \cup page /\ (p.more <=> page # rows)
    BY <1>3, <1>4, <1>5 DEF ReaderPage
  <1>. HIDE DEF p
  <1>7. SUFFICES ASSUME ~idsReused
        PROVE  /\ p.cursor <= p.top /\ \E r \in logRows : p.top <= r.id
               /\ \A r \in logRows : p.cursor <= r.id /\ r.id <= p.top => r \in p.seen
               /\ ~p.more => \A r \in logRows : p.cursor <= r.id
    BY <1>1, <1>2, <1>6 DEF PagePart
  <1>8. /\ reader.cursor <= reader.top /\ \E r \in logRows : reader.top <= r.id
        /\ \A r \in logRows : reader.cursor <= r.id /\ r.id <= reader.top => r \in reader.seen
    BY <1>1, <1>7 DEF PagePart
  <1>9. p.cursor <= p.top
    BY <1>4, <1>5, <1>6, <1>8
  <1>10. ASSUME NEW r \in logRows, p.cursor <= r.id, r.id <= p.top PROVE r \in p.seen
    <2>1. CASE r \in rows
      BY <1>5, <1>6, <1>10, <2>1
    <2>2. CASE r \notin rows
      BY <1>3, <1>4, <1>6, <1>8, <1>10, <2>2
    <2>. QED BY <2>1, <2>2
  <1>11. ASSUME ~p.more, NEW r \in logRows PROVE p.cursor <= r.id
    <2>1. CASE r \in rows
      BY <1>5, <1>6, <1>11, <2>1
    <2>2. CASE r \notin rows
      BY <1>3, <1>4, <1>5, <1>6, <2>2
    <2>. QED BY <2>1, <2>2
  <1>. QED BY <1>6, <1>8, <1>9, <1>10, <1>11

LEMMA InsertKeepsPages ==
  ASSUME PagePart, OrderPart, NEW s \in Seq(LogEvent), NEW t \in Seq(LogEvent), batch \o backlog = s \o t,
         InsertLogBatch(s), UNCHANGED readVars
  PROVE  PagePart'
  <1>1. logRows' = logRows \cup NewRows(logRows, s)
    BY InsertIs
  <1>2. \A r \in NewRows(logRows, s) : r.id \in Nat /\ \A x \in logRows : x.id < r.id
    <2>1. logged \in 0..MaxLogged /\ Ordered(logRows, s \o t, logged)
      BY DEF OrderPart, Pending
    <2>2. \A i \in 1..Len(s) : /\ NewRow(logRows, s, i) \in LogRow
                               /\ \A x \in logRows : x.id < NewRow(logRows, s, i).id
      BY <2>1, NewRowFields
    <2>. QED BY <2>2, RowFieldsOf DEF NewRows
  <1>3. \A x \in logRows : x.id \in Nat
    BY RowFieldsOf DEF OrderPart, Ordered
  <1>4. reader' = reader /\ idsReused' = idsReused
    BY DEF readVars
  <1>5. reader.top \in Nat /\ reader.cursor \in Nat
    BY ShownFields DEF PagePart
  <1>6. ASSUME reader # Away, ~idsReused, NEW r \in NewRows(logRows, s)
        PROVE  reader.top < r.id /\ reader.cursor <= r.id
    <2>1. PICK x \in logRows : reader.top <= x.id
      BY <1>6 DEF PagePart
    <2>. QED BY <1>2, <1>3, <1>5, <1>6, <2>1 DEF PagePart
  <1>7. \A r \in logRows' : r \in logRows \/ r \in NewRows(logRows, s)
    BY <1>1
  <1>8. logRows \subseteq logRows'
    BY <1>1
  <1>9. ASSUME reader # Away, ~idsReused, NEW r \in logRows', reader.cursor <= r.id, r.id <= reader.top
        PROVE  r \in reader.seen
    <2>1. r \in logRows
      BY <1>2, <1>5, <1>6, <1>7, <1>9
    <2>. QED BY <1>9, <2>1 DEF PagePart
  <1>10. ASSUME reader # Away, ~idsReused, ~reader.more, NEW r \in logRows' PROVE reader.cursor <= r.id
    BY <1>6, <1>7, <1>10 DEF PagePart
  <1>. QED BY <1>4, <1>8, <1>9, <1>10 DEF PagePart

LEMMA PruneKeepsPages ==
  ASSUME PagePart, OrderPart, PruneLogs
  PROVE  PagePart'
  <1>1. PICK rows \in SUBSET logRows :
          /\ Oldest(rows) /\ logRows' = logRows \ rows
          /\ idsReused' = (idsReused \/ (logRows \subseteq rows /\ reader # Away)) /\ reader' = reader
    BY DEF PruneLogs, Deleted
  <1>2. idsReused \in BOOLEAN /\ idsReused' \in BOOLEAN
    BY <1>1 DEF PagePart
  <1>3. ASSUME reader # Away, ~idsReused' PROVE ~idsReused /\ \E r \in logRows' : reader.top <= r.id
    <2>1. ~idsReused /\ ~(logRows \subseteq rows)
      BY <1>1, <1>3
    <2>2. PICK k \in logRows : k \notin rows
      BY <2>1
    <2>3. PICK r \in logRows : reader.top <= r.id
      BY <1>3, <2>1 DEF PagePart
    <2>4. k \in LogRow /\ r \in LogRow /\ IdsApart(logRows) /\ \A x, y \in logRows : x.id < y.id => x.born < y.born
      BY DEF OrderPart, Ordered
    <2>5. k.id \in Nat /\ r.id \in Nat /\ k.born \in Nat /\ r.born \in Nat /\ reader.top \in Nat
      BY <2>4, RowFieldsOf, ShownFields DEF PagePart
    <2>6. CASE r \in rows
      <3>1. ~(k.born < r.born)
        BY <1>1, <2>2, <2>6 DEF Oldest
      <3>2. r.id <= k.id
        BY <2>4, <2>5, <3>1
      <3>. QED BY <1>1, <2>1, <2>2, <2>3, <2>5, <3>2
    <2>7. CASE r \notin rows
      BY <1>1, <2>1, <2>3, <2>7
    <2>. QED BY <2>6, <2>7
  <1>. QED BY <1>1, <1>2, <1>3 DEF PagePart

LEMMA LogsPages ==
  ASSUME PagePart, OrderPart, LogsNext
  PROVE  PagePart'
  <1>0. batch \in Seq(LogEvent) /\ backlog \in Seq(LogEvent) /\ <<>> \in Seq(LogEvent)
    BY EmptyBatch DEF OrderPart
  <1>1. ASSUME UNCHANGED <<logRows, readVars>> PROVE PagePart'
    BY <1>1 DEF PagePart, readVars
  <1>2. CASE ServeLogs \/ ReloadFloor \/ ReloadConsole \/ ReloadFile \/ ReceiveLog \/ AddCounts \/ ShutdownWriter \/ EndServe
    BY <1>1, <1>2 DEF ServeLogs, ReloadFloor, ReloadConsole, ReloadFile, ReceiveLog, AddCounts, ShutdownWriter, EndServe, writerVars
  <1>3. ASSUME NEW c \in LogConfs, SaveLoggingSettings(c) PROVE PagePart'
    BY <1>1, <1>3 DEF SaveLoggingSettings, writerVars
  <1>4. ASSUME NEW l \in EntryLevels, NEW own \in BOOLEAN, Emit(l, own) PROVE PagePart'
    BY <1>1, <1>4 DEF Emit
  <1>5. CASE PruneLogs
    BY <1>5, PruneKeepsPages
  <1>6. CASE FlushBatch
    BY <1>0, <1>1, <1>6, InsertKeepsPages DEF FlushBatch
  <1>7. CASE DrainLogs
    <2>. DEFINE q == batch \o backlog
    <2>1. q \in Seq(LogEvent) /\ batch \o backlog = q \o <<>>
      BY <1>0, ConcatProperties, EmptyBatch
    <2>2. UNCHANGED readVars /\ (InsertLogBatch(q) \/ UNCHANGED logRows)
      BY <1>7 DEF DrainLogs
    <2>. HIDE DEF q
    <2>. QED BY <1>0, <1>1, <2>1, <2>2, InsertKeepsPages
  <1>8. CASE LoadInitialLogs
    BY <1>8, InitialKeeps
  <1>9. CASE LoadOlderLogs
    BY <1>9, OlderKeeps
  <1>. QED BY <1>2, <1>3, <1>4, <1>5, <1>6, <1>7, <1>8, <1>9 DEF LogsNext

LEMMA LogsOrder ==
  ASSUME OrderPart, LogsNext
  PROVE  OrderPart'
  <1>1. ASSUME UNCHANGED <<logged, batch, backlog, logRows>> PROVE OrderPart'
    BY <1>1 DEF OrderPart, Pending
  <1>2. CASE ServeLogs \/ ReloadFloor \/ ReloadConsole \/ ReloadFile \/ AddCounts \/ ShutdownWriter \/ LoadInitialLogs \/ LoadOlderLogs
    BY <1>1, <1>2 DEF ServeLogs, ReloadFloor, ReloadConsole, ReloadFile, AddCounts, ShutdownWriter,
                      LoadInitialLogs, LoadOlderLogs, writerVars
  <1>3. ASSUME NEW c \in LogConfs, SaveLoggingSettings(c) PROVE OrderPart'
    BY <1>1, <1>3 DEF SaveLoggingSettings, writerVars
  <1>. QED BY <1>2, <1>3, EmitKeepsOrder, ReceiveKeepsOrder, WritesKeepOrder, PruneKeepsOrder, EndKeepsOrder DEF LogsNext

LEMMA LogsLayers ==
  ASSUME LayerPart, TallyPart, LogsNext
  PROVE  LayerPart'
  <1>1. ASSUME UNCHANGED layerVars, writer' = writer PROVE LayerPart'
    BY <1>1 DEF LayerPart, layerVars
  <1>2. CASE ReceiveLog \/ FlushBatch \/ AddCounts \/ DrainLogs \/ LoadInitialLogs \/ LoadOlderLogs
    BY <1>1, <1>2 DEF ReceiveLog, FlushBatch, AddCounts, DrainLogs, LoadInitialLogs, LoadOlderLogs, writerVars
  <1>3. ASSUME NEW l \in EntryLevels, NEW own \in BOOLEAN, Emit(l, own) PROVE LayerPart'
    BY <1>1, <1>3 DEF Emit
  <1>4. CASE PruneLogs \/ ShutdownWriter
    BY <1>4, LayersRest DEF PruneLogs, ShutdownWriter
  <1>5. ASSUME NEW c \in LogConfs, SaveLoggingSettings(c) PROVE LayerPart'
    BY <1>5, ConfiguresKeep
  <1>. QED BY <1>2, <1>3, <1>4, <1>5, ConfiguresKeep, ReloadsKeep, EndKeepsLayers DEF LogsNext

LEMMA LogsInitInv == LogsInit => LogsInv
  <1>. SUFFICES ASSUME LogsInit PROVE LogsInv
    OBVIOUS
  <1>1. LayerPart
    <2>1. FirstLayers \in Layers /\ FirstLayers.ownFloor >= FirstLayers.floor
      BY DEF FirstLayers, Layers, LevelOrOff, LogLevels, Error, Info, Debug, Trace
    <2>2. [all |-> Info, own |-> Debug] \in LogFilter
      BY DEF LogFilter, LevelOrOff, LogLevels, Error, Info, Debug, Trace
    <2>. QED BY <2>1, <2>2 DEF LogsInit, LayerPart
  <1>2. OrderPart
    <2>1. Pending = <<>> /\ <<>> \in Seq(LogEvent) /\ Len(<<>>) = 0 /\ logRows = {}
      BY EmptyBatch DEF LogsInit, Pending
    <2>2. Ordered({}, <<>>, 0)
      BY <2>1, FS_EmptySet DEF Ordered, IdsApart
    <2>. QED BY <2>1, <2>2, LogAssumption DEF LogsInit, OrderPart
  <1>3. TallyPart
    BY EmptyBatch, TallyFields DEF LogsInit, TallyPart
  <1>4. PagePart
    <2>1. Away \in ReaderPage
      BY DEF Away, ReaderPage
    <2>. QED BY <2>1 DEF LogsInit, PagePart
  <1>. QED BY <1>1, <1>2, <1>3, <1>4 DEF LogsInv

LEMMA LogsNextInv == LogsInv /\ [LogsNext]_logVars => LogsInv'
  <1>. SUFFICES ASSUME LogsInv, [LogsNext]_logVars PROVE LogsInv'
    OBVIOUS
  <1>1. CASE UNCHANGED logVars
    BY <1>1 DEF logVars, LogsInv, LayerPart, OrderPart, TallyPart, PagePart, Pending
  <1>2. CASE LogsNext
    BY <1>2, LogsLayers, LogsOrder, LogsTally, LogsPages DEF LogsInv
  <1>. QED BY <1>1, <1>2

LEMMA LogsInvShows == ASSUME LogsInv PROVE LogsTypeOK /\ LogsAreComplete
  <1>1. LogsTypeOK
    BY DEF LogsInv, LayerPart, OrderPart, TallyPart, PagePart, Ordered, IdsApart, LogsTypeOK
  <1>2. CountsAreRows
    <2>1. writer # "down" /\ uncounted = <<>> /\ ~stale => Plus(counts, Tally(<<>>)) = CountsOf(logRows)
      BY DEF LogsInv, TallyPart
    <2>. QED BY <2>1, TallyFields DEF LogsInv, TallyPart, CountsAreRows
  <1>3. PagesAreWhole
    <2>1. reader.top \in Nat /\ reader.cursor \in Nat /\ \A r \in logRows : r.id \in Nat
      BY ShownFields, RowFieldsOf DEF LogsInv, PagePart, OrderPart, Ordered
    <2>2. \A r \in logRows : r.id \in reader.cursor..reader.top => reader.cursor <= r.id /\ r.id <= reader.top
      BY <2>1
    <2>3. (\A r \in logRows : reader.cursor <= r.id) => OlderThan(reader.cursor) = {}
      BY <2>1 DEF OlderThan
    <2>. QED BY <2>2, <2>3 DEF LogsInv, PagePart, PagesAreWhole
  <1>. QED BY <1>1, <1>2, <1>3, LayersShow DEF LogsInv, LogsAreComplete

\* Every reachable state of the log is well typed.
THEOREM LogsTyped == LogsSpec => []LogsTypeOK
  BY LogsInvShows, LogsInitInv, LogsNextInv, PTL DEF LogsSpec

\* For any configurations, flags, levels, batch and page sizes: whatever is emitted,
\* flushed, lost, pruned, drained and paged through meanwhile, the counts are those of the
\* table, a reader sees every row down to the cursor, and each layer gets its level.
THEOREM LogsComplete == LogsSpec => []LogsAreComplete
  BY LogsInvShows, LogsInitInv, LogsNextInv, PTL DEF LogsSpec

(***************************************************************************)
(* Side by side                                                            *)
(***************************************************************************)

\* A component at rest takes no step: what happens to it is a behaviour of its own module.
recordVars == <<part, accountVars, configVars, editVars, backupVars, groupVars, depVars, addonVars,
                logVars, serverVars, folderVars, noteVars, boardVars, playerVars, formVars>>

LEMMA RecordsStart ==
  RecordsInit =>
    /\ AccountsInit /\ ConfigInit /\ EditInit /\ BackupsInit /\ DepsInit /\ AddonsInit /\ LogsInit
    /\ ServerInit /\ FolderInit /\ NotesInit /\ BoardInit /\ PlayersInit /\ FormsInit
  BY DEF RecordsInit

LEMMA NoGroupsIsAStart ==
  ASSUME syncFile = NoGroups, clientMods = SyncMods
  PROVE  GroupsInit
  <1>. DEFINE in == [m \in SyncMods |-> Inherit]
              flags == [s \in Slugs |-> Inherit]
  <1>1. syncFile = OldFile("on", NoOverrides, in, flags)
    BY DEF NoGroups
  <1>2. in \in [SyncMods -> Slugs \cup {Inherit}] /\ flags \in [Slugs -> {"off", Inherit}]
        /\ "on" \in Settings /\ NoOverrides \in [SyncMods -> Flags \cup {"none"}]
    BY DEF Settings, NoOverrides
  <1>. HIDE DEF in, flags
  <1>. QED BY <1>1, <1>2 DEF GroupsInit

LEMMA RecordsSteps ==
  [RecordsNext]_recordVars =>
    /\ [AccountsNext]_accountVars /\ [ConfigNext]_configVars /\ [EditNext]_editVars
    /\ [BackupsNext]_backupVars /\ [GroupsNext]_groupVars /\ [DepsNext]_depVars
    /\ [AddonsNext]_addonVars /\ [LogsNext]_logVars /\ [ServerNext]_serverVars
    /\ [FolderNext]_folderVars /\ [NotesNext]_noteVars /\ [BoardNext]_boardVars
    /\ [PlayersNext]_playerVars /\ [FormsNext]_formVars /\ UNCHANGED part
  BY DEF RecordsNext, recordVars

LEMMA PartsStart == RecordsInit => GroupsInit
  <1>1. CASE part = "groups"
    BY <1>1 DEF RecordsInit
  <1>2. CASE part # "groups"
    BY <1>2, NoGroupsIsAStart DEF RecordsInit
  <1>. QED BY <1>1, <1>2

RecordParts == {"accounts", "config", "editor", "backups", "groups", "deps", "addons", "logs",
                "server", "folder", "notes", "board", "players", "forms"}

LEMMA PartStays ==
  /\ RecordsInit => part \in RecordParts
  /\ part \in RecordParts /\ [RecordsNext]_recordVars => (part \in RecordParts)'
  BY RecordsSteps DEF RecordsInit, RecordParts

LEMMA RecordsAreParts ==
  RecordsSpec =>
    /\ AccountsSpec /\ ConfigSpec /\ EditSpec /\ BackupsSpec /\ GroupsSpec /\ DepsSpec /\ AddonsSpec
    /\ LogsSpec /\ ServerSpec /\ FolderSpec /\ NotesSpec /\ BoardSpec /\ PlayersSpec /\ FormsSpec
    /\ [](part \in RecordParts)
  <1>1. RecordsSpec => RecordsInit /\ [][RecordsNext]_recordVars
    BY DEF RecordsSpec, recordVars
  <1>2. RecordsSpec => AccountsSpec /\ ConfigSpec /\ EditSpec /\ BackupsSpec /\ GroupsSpec
    BY <1>1, RecordsStart, PartsStart, RecordsSteps, PTL
       DEF AccountsSpec, ConfigSpec, EditSpec, BackupsSpec, GroupsSpec
  <1>3. RecordsSpec => DepsSpec /\ AddonsSpec /\ LogsSpec /\ ServerSpec /\ FolderSpec
    BY <1>1, RecordsStart, RecordsSteps, PTL
       DEF DepsSpec, AddonsSpec, LogsSpec, ServerSpec, FolderSpec
  <1>4. RecordsSpec => NotesSpec /\ BoardSpec /\ PlayersSpec /\ FormsSpec
    BY <1>1, RecordsStart, RecordsSteps, PTL DEF NotesSpec, BoardSpec, PlayersSpec, FormsSpec
  <1>5. RecordsSpec => [](part \in RecordParts)
    BY <1>1, PartStays, PTL
  <1>. QED BY <1>2, <1>3, <1>4, <1>5

\* Whichever component runs, for any values of all constants, its state is well-formed.
THEOREM RecordsTyped == RecordsSpec => []RecordsTypeOK
  <1>1. /\ AccountsTypeOK /\ ConfigTypeOK /\ EditTypeOK /\ BackupsTypeOK /\ GroupsTypeOK /\ DepsTypeOK
        /\ AddonsTypeOK /\ LogsTypeOK /\ ServerTypeOK /\ FolderTypeOK /\ NotesTypeOK /\ BoardTypeOK
        /\ PlayersTypeOK /\ FormsTypeOK /\ part \in RecordParts
        => RecordsTypeOK
    BY DEF RecordsTypeOK, RecordParts
  <1>2. RecordsSpec => [](AccountsTypeOK /\ ConfigTypeOK /\ EditTypeOK /\ BackupsTypeOK /\ GroupsTypeOK)
    BY RecordsAreParts, AccountsTyped, ConfigTyped, EditTyped, BackupsTyped, GroupsTyped, PTL
  <1>3. RecordsSpec => [](DepsTypeOK /\ AddonsTypeOK /\ LogsTypeOK /\ ServerTypeOK /\ FolderTypeOK)
    BY RecordsAreParts, DepsTyped, AddonsTyped, LogsTyped, ServerTyped, FolderTyped, PTL
  <1>4. RecordsSpec => [](NotesTypeOK /\ BoardTypeOK /\ PlayersTypeOK /\ FormsTypeOK)
    BY RecordsAreParts, NotesTyped, BoardTyped, PlayersWellFormed, FormsTyped, PTL
  <1>. QED BY <1>1, <1>2, <1>3, <1>4, RecordsAreParts, PTL

\* What every component of the records promises, it promises beside the others, for any
\* values of all constants with which core mods stay apart (CoreModsAreApart): at every
\* moment the state is as its handlers left it for the next (the first two lines), and no
\* step breaks what was agreed (the others).
THEOREM RecordsHold ==
  RecordsSpec =>
    /\ [](ChecksHoldAtWrite /\ SavedStays /\ OriginalIsKept /\ RowsMatchFiles /\ MigrationKeepsSettings)
    /\ [](NeedsAreKept /\ AddonsOnTheirMod /\ LogsAreComplete /\ ServerPagesHold /\ HistoryIsWhole)
    /\ ProfilesAgree /\ FormsKeepSettings /\ ChangesAreBackedUp /\ NotesAreTheirAuthors
    /\ FilesHaveOwners
  <1>1. RecordsSpec => [](ChecksHoldAtWrite /\ SavedStays /\ OriginalIsKept /\ RowsMatchFiles /\ MigrationKeepsSettings)
    BY RecordsAreParts, ChecksHold, SettingsStay, OriginalStays, FilesMatch, SettingsKept, PTL
  <1>2. RecordsSpec => [](NeedsAreKept /\ AddonsOnTheirMod /\ LogsAreComplete /\ ServerPagesHold /\ HistoryIsWhole)
    BY RecordsAreParts, Kept, OnTheirMod, LogsComplete, PagesHold, WholeHistory, PTL
  <1>3. RecordsSpec => ProfilesAgree /\ FormsKeepSettings /\ ChangesAreBackedUp /\ NotesAreTheirAuthors
    BY RecordsAreParts, ProfilesAre, FormsKeep, BackedUpFirst, AuthorsDecide
  <1>4. RecordsSpec => FilesHaveOwners
    BY RecordsAreParts, EachHasItsOwner, CoreModsAreApart
  <1>. QED BY <1>1, <1>2, <1>3, <1>4
=============================================================================
