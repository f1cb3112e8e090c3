CONSTANTS
  Keys = {k1, k2}
  NoKey = NoKey
  Ports = {"Nfc"}
  Transports = {"Nfc"}
  Profiles = {touch}
  TouchProfiles = {touch}
  MaxJobs = 2
  MaxClicks = 1
  MaxWorld = 2
  MaxFaults = 0
SPECIFICATION Spec
PROPERTY AbsentKeyForgotten
