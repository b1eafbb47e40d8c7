\* A second instance beside a serving one, nothing fails.
CONSTANTS
  Proc = {p1, p2}
  NoFile = NoFile
  Modes = {"fork", "systemd"}
  Overlap = TRUE
  MaxFaults = 0
SPECIFICATION Spec
INVARIANT SocketOfServing
