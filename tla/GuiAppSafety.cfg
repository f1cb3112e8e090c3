CONSTANTS
  Keys = {k1, k2}
  NoKey = NoKey
  Ports = {"Nfc", "Hid"}
  Transports = {"Auto", "Nfc"}
  Profiles = {plain}
  TouchProfiles = {}
  MaxJobs = 2
  MaxClicks = 2
  MaxWorld = 2
  MaxFaults = 1
SPECIFICATION Spec
SYMMETRY KeySymmetry
INVARIANT TypeOK
PROPERTY ListIsOneRead
