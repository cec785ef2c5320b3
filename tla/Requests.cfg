SPECIFICATION Spec
CONSTANTS
  Profiles <- MCProfiles
  Apps = {"stb", "xhome"}
  Firmwares = {"v1", "v2"}
  Networks = {"n1", "n2"}
  Devices <- MCDevices
  Tables <- MCTables
  Configs <- MCConfigs
  Payloads <- MCPayloads
  MaxRequests = 2
  MaxChanges = 2
  Unknown = Unknown Empty = Empty None = None NoHash = NoHash
  f1 = f1
  Nothing = Nothing
  f2 = f2
  eponRow = eponRow
  partnerRow = partnerRow
  twoA = twoA
  twoB = twoB
  Formulas = {f1, f2}
  VodRows = {"v"}
  SettingTypes = {"epon", "other"}
  Hash = 1000003
  Draws = {0, 99}
  MaxAsks = 2
  MaxEdits = 2
  FormulaOf <- MCFormulaOf
  DevRows <- MCDevRows
  LusRows <- MCLusRows
  FirstTables <- MCFirstTables
  SettingRules <- MCSettingRules
  ProfileRows <- MCProfileRows
  TwoRules <- MCTwoRules
  TwoRows <- MCTwoRows
  Asks <- MCAsks
INVARIANTS  FeaturesOfTables PartsOfFormula 
 
CHECK_DEADLOCK FALSE
