CONSTANTS
  Keys = {"KeyA", "KeyZ"}
  DefaultKey = "KeyA"
  Transports = {"auto", "nfc"}
  FirstFiles = {"unset", "saved"}
  MaxServices = 2
  MaxQueue = 1
SPECIFICATION Spec
PROPERTY ServesOwnPresses
