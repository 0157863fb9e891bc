SPECIFICATION Spec
CONSTANTS
  Port = {"host", "pa"}
  File = {"console", "mem", "sock", "dma", "i2c", "other"}
  Passing = {"other"}
  Console = "console"
  NoFile = "none"
  Fd = {0, 1, 2, 3, 4, 5, 6}
  Client = {"pa"}
  Asks <- MCAsks
  Rate = {115200, 12345}
  Supported = {9600, 115200}
  Failures = 4
  MaxFrames = 4
  Body <- MCBody
  Known = {1, 3, 4}
  BufSize = 5
  LastState = 3
  LineMax = 8
  Burst = 2
  Faults = 1
  Bytes = {"END", "ESC", "ESC_END", "ESC_ESC", "x"}
  END = "END"
  ESC = "ESC"
  ESC_END = "ESC_END"
  ESC_ESC = "ESC_ESC"
  SlipInputs <- MCSlipInputs
  Rooms = {0, 1, 2, 3, 4, 5, 6, 7, 8}
  N = 2
  Payloads <- MCPayloads
  Damages <- MCDamages
CHECK_DEADLOCK FALSE
INVARIANTS DeviceTypeOK FramerTypeOK HostTypeOK GettersAgree OwnPort
  DescriptorsAccounted FreedAtRest StartsIdle NoThreadMeetsBadMapping
  WholeFramesHandled OnceUnlessShort SlipRoundTrip DamageDetected
PROPERTIES CommandsInOrder HostInOrder FramesGetThrough
