\* SP_REALTIME followed by another policy, with and without schedgroups.
CONSTANTS
  Tids <- MCTids
  Callers <- MCCallers
  Targets <- MCTargetsOwn
  Requests <- MCRequests
  UseCpusets = FALSE
  CpuctlPresent = TRUE
  CpusetPresent = TRUE
  RtPermitted = TRUE
  SlackPrctl = TRUE
  SlackCapable = TRUE

SPECIFICATION Spec

INVARIANT RealtimeOnlyWhenAsked
