-------------------------- MODULE MCRuntimeSetting ---------------------------
(***************************************************************************)
(* Options and lines for RuntimeSetting: for every way a setting is stored *)
(* a value that is taken, one that is not and an empty one; headers that   *)
(* are known, unknown and unclosed.                                        *)
(***************************************************************************)
EXTENDS RuntimeSetting

O(opt, arg) == [opt |-> opt, arg |-> arg]
L(kind, name, value) == [kind |-> kind, name |-> name, value |-> value]

MCText == STRING

MCOptions ==
  {O("f", ""), O("h", ""), O("?", ""), O("d", "systemd"), O("d", "wrong"), O("d", ""),
   O("p", "cli"), O("p", "")}

MCLines ==
  {L("blank", "", ""), L("noise", "", ""), L("unclosed", "", ""),
   L("section", "general", ""), L("section", "log", ""), L("section", "ldap", ""),
   L("entry", "daemon_mode", "fork"), L("entry", "daemon_mode", "wrong"),
   L("entry", "pid_file", "file"), L("entry", "pid_file", ""),
   L("entry", "log_ident", "file"), L("entry", "bind_host", "")}
=============================================================================
