SPECIFICATION Spec
CONSTANTS
  Goroutines = {k1, k2}
  Things = {x1, x2, x3}
  MaxFd = 7
  PageSize = 2
  MaxAddr = 12
  Starts = {0, 1, 2, 4, 6, 8}
  Lengths = {0, 2, 3, 4, 6, 8}
  Sizes = {1, 4}
  UserHooks = {"onIntr", "onMem"}
  IntrHooks = {"onIntr"}
  Count = 1
  Regions = 2
  GuestCode = {6, 10}
  Blocks = {0, 2}
  Hosts = {"p1", "p2"}
  Values = {0, 1}
  MaxBinds = 2
  First = "first"
  MaxOpen = 5
  NoModule = "nil"
  Names = {"a", "b"}
  Paths <- AllPaths
  Handles = {"h"}
  Root = "root"
  Others = {"other"}
  NoNode = "none"
  Octets = {0, 1}
  MaxData = 2
  FewNodes = {"n1", "n2"}
  FewClients = {"client"}
  FewPaths <- SomePaths
  RegCount = 2
  PointerSize = 8
  ValueSize = 8
  SingleStep = 2
  StackAlign = 16
  ArgKinds <- SomeArgs
  RetKinds <- SomeResults
  MaxArgs = 4
  Top = 256
INVARIANTS
  FilesCounted
  TableAgrees
  AddrsAccounted
  BlocksHeld ReadsLatest
  Found
  SocketsAccounted
  LoadedIsFound
  CallsArrive BelowTheCaller
  RoundTrip WithinBlocks
PROPERTIES
  NothingForgotten
  DoneByReturn GuestServed
  EntriesKept WriteKeepsRest ListsAll
SYMMETRY Symmetry
CHECK_DEADLOCK FALSE
