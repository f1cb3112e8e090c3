CONSTANTS
  Keys = {"KeyA", "KeyZ"}
  DefaultKey = "KeyA"
  Transports = {"auto", "nfc"}
  FirstFiles = {"unset", "saved"}
  MaxServices = 2
  MaxQueue = 1
SPECIFICATION Spec
INVARIANTS TypeOK RegistrationMatchesIntent PreferenceSurvives TransportInForce
PROPERTIES ApplySucceeds PressesAreTaken DroppedThreadsEnd
