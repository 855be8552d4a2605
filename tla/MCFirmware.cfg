SPECIFICATION Spec
CONSTANTS
  Parts = {0, 1}
  Valid <- MCValid
  DefaultFreq <- MCDefaultFreq
  DriverFreq = DriverFreq
  Mods = {2, 4, 5}
  ValidMods = {2, 4}
  DefaultMod = 2
  FifoSize = 2
  MaxResets = 2
INVARIANTS ListensAsSet InBand SendsUndisturbed NothingStale
PROPERTIES KeptAcrossRestarts GetsBack
