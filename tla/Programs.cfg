SPECIFICATION Spec
CONSTANTS
  Programs = {"proxy", "process_list", "process", "threaded_msort", "knapsack", "dijkstra", "strassen", "tromino",
              "phone_directory", "branch_predictor", "scoreboard"}
  ann = ann
  bob = bob
  cat = cat
  Browsers = {ann, bob, cat}
  NoBrowser = NoBrowser
  Sockets = {4, 5}
  Urls = {"u", "v"}
  Unparsable = "bad"
  Crowds <- MCCrowds
  Viewers = {v, w}
  Pids = {1, 2, 3}
  FirstPids <- MCFirstPids
  Mortal = {2}
  StateOf <- MCStateOf
  MaxLines = 3
  Heights = {1, 2, 3}
  ChildCounts = {0, 1, 2}
  MaxProcesses = 7
  Misfortunes = 1
  IntMax = 3
  Commands <- MCCommands
  Files <- MCFiles
  Graphs <- MCGraphs
  INT_MAX = 100
  Factors <- MCFactors
  MaxK = 3
  Lists <- MCLists
  Names <- MCNames
  Phones = {1, 2}
  Draws <- MCDraws
  MaxSize = 4
  Ids = {0, 1}
  HistoryBits = 2
  Garbage <- MCGarbage
  MaxBranches = 5
  NoRegister = NoRegister
  Boards <- MCBoards
INVARIANTS
  AnswersAreRight
  CacheEnds
  SnapshotIsWhole
  ParentsOutlive
  SortIsRight
  ResultsAreRight
  DirectoryIsKept
  PredictorsLearn
  OrderIsKept
CHECK_DEADLOCK FALSE
