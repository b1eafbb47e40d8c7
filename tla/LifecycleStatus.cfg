\* Instances one after the other, one failure.
CONSTANTS
  Proc = {p1, p2}
  NoFile = NoFile
  Modes = {"systemd"}
  Overlap = FALSE
  MaxFaults = 1
SPECIFICATION Spec
INVARIANT ExitStatusAnnounced
