SPECIFICATION BackgroundSpec
CONSTANTS
  Ids <- MCIds
  Zero = 0
  Cap = 2
  MaxTasks = 6
  DismissAny = FALSE
  Players = {p1, p2}
  MaxRaids = 3
  MaxKills = 1
  Headless = {p2}
  MaxExits = 1
  RaidsPerPage = 1
  Changers = {c1, c2}
  MaxChanges = 3
  NoReport = NoReport
  Mods = {m1}
  MaxVersion = 2
  Pages = {q1, q2}
  Poller = poller
  NoNews = NoNews
  ModOrder <- MCModOrder
  Extras = {"a1"}
  ParentMod <- MCParentMod
  Folders = {"f1", "f2"}
  FolderMaps <- MCFolderMaps
  Groups = {g1}
  Ungrouped = plain
  Regens = {h1}
  Nowhere = Nowhere
  Urls = {u1, u2}
  FileNames = {"n"}
  NameOf <- MCNameOf
  Handlers = {d1}
  Commands = {k1}
  MaxSeconds = 1
  MaxUrlOps = 2
  Missing = Missing
INVARIANTS BackgroundTypeOK ShownOnce RaidsAreTrue CachesAreTrue ArchivesServe
PROPERTIES LayoutServes
CHECK_DEADLOCK FALSE
SYMMETRY UrlSymmetry
