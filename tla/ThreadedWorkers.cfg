SPECIFICATION FairSpec
CONSTANTS
  MaxWorkers = 2
  MaxTasks = 2
  MaxStart = 2
  MaxErrors = 0
  Builds = {"qt", "cpp20", "pthread"}
INVARIANTS TypeOK IdleCountExact WorkersFit TasksConserved WaitMeansDone StopQuiesces ExitIsLast
PROPERTIES AbortOnlyWhenStopping ImplementsContract RunEnds CallsReturn
