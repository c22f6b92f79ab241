\* One caller per thread, a build with USE_CPUSETS, every open may fail; no
\* SP_REALTIME.
CONSTANTS
  Tids <- MCTids
  Callers <- MCCallers
  Targets <- MCTargetsOwn
  Requests <- MCRequestsNoRt
  UseCpusets = TRUE
  CpuctlPresent = TRUE
  CpusetPresent = TRUE
  RtPermitted = TRUE
  SlackPrctl = TRUE
  SlackCapable = TRUE

SPECIFICATION Spec
PROPERTY AtomicSetSpec
