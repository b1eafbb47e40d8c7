\* Two connections that may give up mails, hang up and lose their authentication
\* between mails; the directory and the allocator may fail.
CONSTANTS
  Session = {s1, s2}
  Sender = {"team"}
  Account = {"a", "b"}
  NoAccount = "none"
  NoMail = NoMail
  ListAnswers <- MCListAnswers
  OwnAnswers <- MCOwnAnswers
  Id = {d1, d2, d3}
  NULL = NULL
  Free = Free
  AddMayFail = FALSE
  MayAbort = TRUE
  MayHangUp = TRUE
  AuthMayLapse = TRUE
  AllocMayFail = TRUE
  LdapMayFail = TRUE
SPECIFICATION Spec
INVARIANTS
  DataPrivate
  DataOfThisMail
PROPERTY ImplementsExpansion
SYMMETRY Symmetry
\* With every object leaked, or the process dead, nothing happens any more.
CHECK_DEADLOCK FALSE
