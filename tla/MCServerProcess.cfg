SPECIFICATION FairSpec
CONSTANTS
  Runs <- MCRuns
  Requests <- MCRequests
  Nobody = Nobody
INVARIANTS TypeOK StoreOutlivesWorker CleanExitAnswersEveryRequest
PROPERTIES ScheduleSpec ShutdownTerminates WorkerKeepsRunning
