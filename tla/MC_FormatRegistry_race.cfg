CONSTANTS
  p1 = p1
  p2 = p2
  p3 = p3
  NONE = NONE
  Procs <- MCProcs
  InitFormats <- MCInitFormats
  LateFormats <- MCLateFormats

SPECIFICATION Spec

INVARIANT NoConcurrentMapAccess

CHECK_DEADLOCK FALSE
