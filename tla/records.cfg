SPECIFICATION RecordsSpec
CONSTANTS
  Names = {n1, n2, n3}
  Codes = {c1}
  CustomRoles = {r1}
  BuiltIn = {"admin", "player"}
  MaxUsers = 3
  MaxPending = 2
  FirstAdmin = n1
  None = None
  Sections = {"web", "queue"}
  Values = {0, 1}
  Initial = 0
  GroupMods = {m1}
  Savers = {h1, h2}
  Remover = rm
  Unset = Unset
  EnvOf <- MCEnvOf
  Contents = {t1, t2}
  Original = t1
  Editors = {e1, e2}
  MaxRevs = 3
  Blank = Blank
  Mods = {m1}
  Addons = {a1}
  ParentOf <- MCParentOf
  MaxVersion = 2
  MaxDirs = 3
  MaxBackups = 1
  Nothing = Nothing
  SyncMods = {"m1", "m2"}
  UserSlugs = {"group"}
  SplitSlug <- MCSplitSlug
  NoHeadless = "no-headless"
  Catchall = "default"
  SlugOrder <- MCSlugOrder
  Inherit = "inherit"
  ForgeMods = {"a", "b", "c"}
  Releases = {1, 2}
  Forges <- MCForges
  Runners = {h1}
  Shells = {k1}
  MaxAsked = 3
  MaxWalk = 10
  Absent = Absent
  HostMods = {"p1", "p2"}
  ForgeAddons = {x1}
  HostOf <- MCHostOf
  Workers = {w1}
  Commands = {k1}
  MaxRelease = 2
  MaxHosts = 2
  MaxWishes = 2
  Missing = Missing
  LogConfs <- MCLogConfs
  LogFlags <- MCLogFlags
  EntryLevels = {2, 4}
  MaxLogged = 3
  LogBatch = 2
  PageRows = 1
  Presets = {"q1", "q2"}
  FirstPreset = "q1"
  SvmSections = {"s1", "s2"}
  SvmValues = {0, 1}
  SvmDefault = 0
  Unreadable = {"q2"}
  Handlers = {h1, h2}
  OnExit = "stop"
  MaxEdits = 3
  NoFile = NoFile
  FolderMods = {"A"}
  ArchivesOf <- MCReleases
  Spelling <- MCSpelling
  CoreMods <- MCCoreMods
  CorePaths <- MCCorePaths
  CoreExclude <- MCExclude
  CoreFiles <- MCCoreFiles
  OnGithub = {"headless"}
  GameFiles <- MCGameFiles
  NoMod = NoMod
  Writers = {w1, w2}
  NoteIds = {1}
  NoNote = NoNote
  Members = {u1, u2}
  Voters = {u2}
  MaxVoting = 1
  RequestIds = {1}
  MaxLog = 4
  NoRequest = NoRequest
  Players = {u1, u2}
  Aids = {"a1"}
  StashItems <- MCStashItems
  Kinds <- MCKinds
  CountOf <- MCCountOf
  PriceList <- MCPriceList
  Handbook <- MCHandbook
  Locale <- MCLocale
  MaxClerks = 2
  MaxBegun = 1
  NoOne = NoOne
  OtherSections = {"pmc"}
  NoForm = NoForm
INVARIANTS RecordsTypeOK ChecksHoldAtWrite SavedStays  RowsMatchFiles MigrationKeepsSettings NeedsAreKept  LogsAreComplete ServerPagesHold HistoryIsWhole
PROPERTIES ProfilesAgree  ChangesAreBackedUp FilesHaveOwners NotesAreTheirAuthors
CHECK_DEADLOCK FALSE
