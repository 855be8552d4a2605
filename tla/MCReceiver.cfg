SPECIFICATION Spec
CONSTANTS
  Lines <- MCLines
  Decoded <- MCDecoded
  Sent <- MCSent
  Mistaken <- MCMistaken
  Unchecked = {"nexus"}
  NoProtocol = 0
  Unknown = Unknown
  RepeatWindow = 2
  MinGap = 2
  Window = 5
INVARIANTS TypeOK ShowsLastHeard DecodedWasSent
PROPERTIES SensorsAreHeardTwice OneEventPerPress
