\* One caller per thread, as in MCSchedPolicy.cfg; t3 may exit and its tid
\* be given to a new thread.
CONSTANTS
  Tids <- MCTids
  Callers <- MCCallers
  Targets <- MCTargetsOwn
  Requests <- MCRequests
  UseCpusets = FALSE
  CpuctlPresent = TRUE
  CpusetPresent = TRUE
  RtPermitted = TRUE
  SlackPrctl = TRUE
  SlackCapable = TRUE

SPECIFICATION ReuseSpec

INVARIANT SlackMatchesReportedClass
