SPECIFICATION NewsSpec
CONSTANTS
  Mods = {m1}
  MaxVersion = 2
  Pages = {q1}
  Poller = poller
  NoNews = NoNews
PROPERTIES UpdatesAreHeardOf
CHECK_DEADLOCK FALSE
