\* Three processes, one after the other, every mode, two failures of main or kills;
\* one connection that loses its authentication between mails; the directory may
\* fail.  No symmetry: liveness is checked.
CONSTANTS
  Proc = {p1, p2, p3}
  NoFile = NoFile
  Modes = {"foreground", "fork", "systemd"}
  Overlap = FALSE
  MaxFaults = 2
  Session = {s1}
  Sender = {"team"}
  Account = {"a"}
  NoAccount = "none"
  NoMail = NoMail
  ListAnswers <- MCListAnswers
  OwnAnswers <- MCOwnAnswers
  Id = {d1, d2}
  NULL = NULL
  Free = Free
  AddMayFail = FALSE
  MayAbort = FALSE
  MayHangUp = TRUE
  AuthMayLapse = TRUE
  LdapMayFail = TRUE
  AllocMayFail = FALSE
SPECIFICATION FairProgram
INVARIANTS
  NotificationsOrdered
  ExitAnnounced
  FailureStatusTold
  PidFileNamesDaemon
  CleanExit
  SearchesBound
  NothingLeaked
PROPERTIES
  ImplementsExpansion
  ServesAgain
  EveryEomEnds
