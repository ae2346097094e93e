INIT Init
NEXT Next
CONSTANTS
  Files <- MCFiles
  Root = "/"
  Parent <- MCParent
  Above <- MCAbove
  Chunks = {1}
  MetasOf <- MCMetas
  Regular = {"/d/f"}
  Asked = {"/d/f"}
  HashOf <- MCHash
  Plain = 0
  MaxChunks = 1
  MaxTrees = 2
  Repositories <- MCRepositories
  Top = "/"
  DirOf <- DirName
  Bytes <- MCBytes
  Lost = Lost
  Garbled = Garbled
  NoSum = NoSum
  Clients = {"c1", "c2"}
  Settings <- MCSettings
  Changes <- MCChanges
  Users = {ann, bob}
  Toplevels = {"t1", "t2"}
  DataTops = {"t1"}
  Data = {"text", "noise"}
  Packable = {"text"}
  Times <- MCTimes
  PeriodOf <- MCPeriodOf
  Options <- MCOptions
  MaxMade = 4
  BytesOf <- MCBytesOf
  FileShapes <- MCFileShapes
  MaxGens = 2
  MaxRead = 3
  Writers = {w1, w2}
  Paths = {"lock", "root"}
  Roots = {"root"}
  Written <- MCWritten
  MaxCalls = 3
CONSTRAINT KeysMatter
SYMMETRY MCAlike
INVARIANTS
  TypesOK
  CleanFsckMeansWhole
  AlarmsAreReal
  UsedStayIndexed
  RestoreIsRight
  VerifyIsRight
  WrittenIsRead
  KeysAreKept
  PolicyIsKept
  ReadIsSlice
  WrittenStays
PROPERTY ImplementsClientFiles
CHECK_DEADLOCK FALSE
