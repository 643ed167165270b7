\* The sensors and the main loop, reset, the slots, the check sums, the streams.
\* A transfer and the reading of a frame end, and so there is no deadlock check.
SPECIFICATION Spec
CHECK_DEADLOCK FALSE
CONSTANTS
  a = a
  b = b
  x = x
  junk = junk
  Devices = {a, b, x}
  ValidCodes = {a, b, x}
  Codes = {a, b, x, junk}
  NoCode = NoCode
  Targets <- NoTargets
  NoTarget = NoTarget
  FamilyCode <- MCFamilyCode
  Resolution <- MCResolution
  Broken = {x}
  Temperatures <- MCTemperatures
  Conversions = {10, 75}
  PortTick = 10
  NoTemperature = NoTemperature
  ResetPulseUs = 500
  ResetTimeUs = 700
  ResetStepUs = 10
  PollUs = 2
  Busy <- MCBusy
  Rises <- MCRises
  Begins <- MCBegins
  Ends <- MCEnds
  Overruns <- MCOverruns
  MaxOverrun = 60
  WordBits = 8
  Samples <- MCSamples
  Holds <- MCSamples
  Late <- MCLate
  MaxLate = 1
  Bytes <- MCBytes
  Calls <- MCCalls
  Data8 <- MCData8
  Data16 <- MCData16
  BufSizes <- MCBufSizes
  Items <- MCItems
  Messages <- MCMessages
  ClassSize <- MCClassSize
  MaxValues = 2
INVARIANTS
  ReportsTruth
  NeverBusy
  ResetTells
  BytesCross
  CatchesErrors
  RoundTrip
PROPERTIES
  ReportedAgain
  ResetReturns
