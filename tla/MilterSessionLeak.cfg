\* One connection that may give up mails.
CONSTANTS
  Session = {s1}
  Sender = {"team", "user"}
  Account = {"a", "b"}
  NoAccount = "none"
  NoMail = NoMail
  ListAnswers <- MCListAnswers
  OwnAnswers <- MCOwnAnswers
  Id = {d1, d2, d3}
  NULL = NULL
  Free = Free
  AddMayFail = FALSE
  MayAbort = TRUE
  MayHangUp = FALSE
  AuthMayLapse = FALSE
  AllocMayFail = FALSE
  LdapMayFail = FALSE
SPECIFICATION Spec
INVARIANT NothingLeaked
\* With every object leaked, or the process dead, nothing happens any more.
CHECK_DEADLOCK FALSE
