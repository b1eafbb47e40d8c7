\* Up to two options and three lines.
CONSTANTS
  Text <- MCText
  LdapField = {"bind_host"}
  Options <- MCOptions
  Lines <- MCLines
  NULL = NULL
  MaxOptions = 2
  MaxLines = 3
SPECIFICATION Spec
INVARIANTS
  TypeOK
  FirstErrorReported
  NoErrorForgotten
  LastWriterWins
\* The settings are read once.
CHECK_DEADLOCK FALSE
