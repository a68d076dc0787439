SPECIFICATION SettingsSpec
CONSTANTS
  NaN = NaN
  None = None
  MaxEdits = 2
  MaxOpens = 2
  Locations <- MCLocations
  TextValues = {"", " text"}
  EditedTexts = {"username", "identity", "script_up"}
  EditedStream = {"name", "url"}
  EditedRates = {22050, 48000}
  EditedBits = {0, 1, 5, 32, 48}
  EditedNumbers = {0, 9}
  EditedGains <- MCGains
  EditedOffsets <- MCOffsets
  OldFiles <- MCOldFiles
  HandLines <- MCHandLines
INVARIANTS
  EncoderObeysForms
  ValidFormsStart
  LoadReturnsWhatWasSaved
  OrderDoesNotMatter
CHECK_DEADLOCK FALSE
