SPECIFICATION AddonsFairSpec
CONSTANTS
  HostMods = {"p1"}
  ForgeAddons = {x1}
  HostOf <- MCHostOf
  Workers = {h1}
  Commands = {k1}
  MaxRelease = 1
  MaxHosts = 1
  MaxWishes = 2
  Missing = Missing
PROPERTIES QueueIsApplied
CHECK_DEADLOCK FALSE
