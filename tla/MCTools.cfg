CONSTANTS
  main = main
  feat = feat
  feature = feature
  bugfix = bugfix
  hotfix = hotfix
  Names = {main, feat, feature, bugfix, hotfix}
  Main = main
  Feat = feat
  Feature = feature
  Bugfix = bugfix
  Hotfix = hotfix
  TypedNames = {feat, 2}
  MaxCommits = 5
  Lessons = {1, 4}
  MaxCommands = 2
  MaxSteps = 4
  Arrays <- MCArrays
  Graphs <- MCGraphs
  Weighted <- MCWeighted
  Tables <- MCTables
  Expressions <- MCExpressions
  SecondsPerMinute = 2
  MinutesPerHour = 3
  HoursPerDay = 2
  FirstDay <- MCFirstDay
  CalendarDays = 20
  ClockChange = 104
  MinuteIterations = 60
  SecondIterations = 60
  Upcoming = 4
  Instants = {3, 100}
  Documents <- MCDocuments
  Contexts <- MCContexts
  JsonDocuments <- MCJsonDocuments
  Steps <- MCSteps
  MaxSegments = 3
  ColonNames = {"a:b"}
  Inherited = {"toString"}
  MaxResults = 12
  Lexemes <- MCLexemes
  MaxLexemes = 3
  Dialects = {"postgres", "mysql"}
  MaxVisits = 2
  Samples <- MCSamples
  RootNames = {"item", "Rows"}
  Keys = {"item", "items"}
  Languages = {"typescript", "csharp", "java", "kotlin", "go", "python", "rust"}
  MaxDepth = 3
  PascalCase <- MCPascalCase
  Singularize <- MCSingularize
SPECIFICATION ToolsSpec
INVARIANTS
   ProgressIsSaved
  SortsItsInput TraversalsKeepOrder SettledDistancesAreFinal HeapsStayOrdered TreesKeepOrder HashTableKeepsValues
  OneTimerWhilePlaying
  OccurrencesAreTheNextOnes DiffIsMinimalAndWhole   
PROPERTIES
  HistoryIsImmutable  
CHECK_DEADLOCK FALSE
