SPECIFICATION SettingsSpec
CONSTANTS
  NaN = NaN
  None = None
  MaxEdits = 0
  MaxOpens = 1
  Locations <- MCLocations
  TextValues = {""}
  EditedTexts = {}
  EditedStream = {}
  EditedRates = {22050, 48000}
  EditedBits = {0, 1, 5, 32, 48}
  EditedNumbers = {0, 9}
  EditedGains <- MCGains
  EditedOffsets <- MCOffsets
  OldFiles <- MCOldFiles
  HandLines <- MCHandLines
INVARIANT QualityIsInEffect
CHECK_DEADLOCK FALSE
