\* Any of six descriptors in use at first, three messages about settings.
CONSTANTS
  FdMax = 5
  Closed = Closed
  None = None
  Levels = {1, 5, 7}
  MaxEarly = 3
SPECIFICATION Spec
INVARIANTS
  Detached
  EachOnce
  SyslogComplete
  PidFileOfDaemon
\* The program ends.
CHECK_DEADLOCK FALSE
