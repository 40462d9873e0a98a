CONSTANTS
  p1 = p1
  p2 = p2
  p3 = p3
  Proc = {p1, p2, p3}
  Pid <- MCPid
  NoProc = none
  MaxPushes = 2
  MaxClock = 2
CHECK_DEADLOCK FALSE
SPECIFICATION Spec
INVARIANTS FilesTypeOK OneServer PidNamesServer DumpIsOwn KeysKept
