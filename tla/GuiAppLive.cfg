CONSTANTS
  Keys = {k1}
  NoKey = NoKey
  Ports = {"Nfc"}
  Transports = {"Nfc"}
  Profiles = {plain, touch}
  TouchProfiles = {touch}
  MaxJobs = 2
  MaxClicks = 2
  MaxWorld = 2
  MaxFaults = 1
SPECIFICATION Spec
PROPERTIES Converges ReadingEnds BusyEnds CopiedCodeLeaves
