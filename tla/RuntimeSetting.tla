--------------------------- MODULE RuntimeSetting ---------------------------
(***************************************************************************)
(* How an instance comes by its settings: init_rt_setting, parse_cli and   *)
(* parse_ini of src/runtime_setting.c over the line parser of              *)
(* src/ini_parser.c, as main calls them.  The command line and the file    *)
(* are sequences of options and of lines, one action reads one of them.    *)
(* Several spellings of a name count as one, and the characters of a line  *)
(* as what the parser makes of them; realloc and malloc of values, which   *)
(* the code does not check, succeed.                                       *)
(***************************************************************************)
EXTENDS Integers, Sequences

CONSTANTS Text,          \* strings
          LdapField,     \* the settings of section [LDAP]
          Options,       \* options that occur on the command line
          Lines,         \* lines that occur in the file
          NULL,          \* the null pointer
          MaxOptions,    \* bound: options on the command line
          MaxLines       \* bound: lines of the file

Default ==
  [daemon_mode |-> "fork", log_level |-> "warning", log_facility |-> "mail",
   config_file |-> "default", pid_file |-> "default", socket_file |-> "default"]

LogLevels ==
  {"emergency", "alert", "critical", "error", "warning", "notice", "info", "debug"}
LogFacilities ==
  {"user", "mail", "daemon", "local0", "local1", "local2", "local3", "local4", "local5",
   "local6", "local7"}
DaemonModes == {"foreground", "fork", "systemd"}

\* The names the three conversions of a string know.
Recognised ==
  [daemon_mode |-> DaemonModes, log_level |-> LogLevels, log_facility |-> LogFacilities]

Enumerated == DOMAIN Recognised
Optional == {"pid_file", "log_ident"}
StringField == {"config_file", "pid_file", "socket_file", "log_ident"} \cup LdapField
Field == Enumerated \cup StringField

CliField == [c |-> "config_file", d |-> "daemon_mode", l |-> "log_level",
             p |-> "pid_file", s |-> "socket_file"]

\* Unused parts of an option or a line are "".
Option == [opt : DOMAIN CliField \cup {"f", "h", "v", "?"}, arg : Text]
Line == [kind : {"blank", "section", "unclosed", "entry", "noise"}, name : Text, value : Text]

ASSUME FieldsAssumption == LdapField \cap (Enumerated \cup DOMAIN Default \cup Optional) = {}
ASSUME InputsAssumption == Options \subseteq Option /\ Lines \subseteq Line
ASSUME TextAssumption == {"", "default"} \subseteq Text /\ NULL \notin Text
ASSUME BoundsAssumption == MaxOptions \in Nat /\ MaxLines \in Nat

VARIABLES args,         \* the command line (never written)
          optind,       \* options read
          lines,        \* the lines of the configuration file (never written)
          line_no,      \* lines read
          section,      \* section_buf
          rt_setting,   \* field -> value
          answer,       \* shall_print_usage or shall_print_version
          result_code,  \* of parse_cli, then of main
          first_error_line_no,
          pc            \* the call of main that is running

inputs == <<args, lines>>
vars == <<inputs, optind, line_no, section, rt_setting, answer, result_code,
          first_error_line_no, pc>>

Init ==
  /\ \E n \in 0..MaxOptions : args \in [1..n -> Options]
  /\ \E n \in 0..MaxLines : lines \in [1..n -> Lines]
  /\ optind = 0 /\ line_no = 0 /\ section = ""
  /\ rt_setting = [f \in Field |-> IF f \in Enumerated THEN Default[f] ELSE NULL]
  /\ answer = FALSE
  /\ result_code = "EX_OK"
  /\ first_error_line_no = 0
  /\ pc = "init_rt_setting"

-----------------------------------------------------------------------------
(* Values.                                                                 *)

\* A setting takes the value: the optional ones in any case.
Acceptable(f, v) ==
  \/ f \in Optional
  \/ f \in Enumerated /\ v \in Recognised[f]
  \/ f \notin Optional \cup Enumerated /\ v # ""

\* What the setting is afterwards.
\* Mutants: the failed conversion is stored; an empty value leaves the old one.
OptionalWritten_Kept(f, v) == IF v = "" THEN rt_setting[f] ELSE v
OptionalWritten(f, v) == IF v = "" THEN NULL ELSE v

EnumeratedWritten_Unchecked(f, v) == IF v \in Recognised[f] THEN v ELSE "-1"
EnumeratedWritten(f, v) == IF v \in Recognised[f] THEN v ELSE Default[f]

MandatoryWritten(f, v) == IF v = "" THEN rt_setting[f] ELSE v

Written(f, v) ==
  CASE f \in Optional   -> OptionalWritten(f, v)
    [] f \in Enumerated -> EnumeratedWritten(f, v)
    [] OTHER            -> MandatoryWritten(f, v)

Set(f, v) == rt_setting' = [rt_setting EXCEPT ![f] = v]

\* cleanup_rt_setting frees the strings, all but log_ident.
Cleanup ==
  rt_setting' = [f \in Field |-> IF f \in StringField \ {"log_ident"} THEN NULL
                                 ELSE rt_setting[f]]

Exit(c) == Cleanup /\ result_code' = c /\ pc' = "exited"

-----------------------------------------------------------------------------
(* init_rt_setting and parse_cli.                                          *)

InitRtSetting ==
  /\ pc = "init_rt_setting"
  /\ rt_setting' = [f \in Field |-> IF f \in DOMAIN Default THEN Default[f] ELSE rt_setting[f]]
  /\ pc' = "parse_cli"
  /\ UNCHANGED <<inputs, optind, line_no, section, answer, result_code, first_error_line_no>>

InitNoMemory ==
  /\ pc = "init_rt_setting"
  /\ Exit("-1")
  /\ UNCHANGED <<inputs, optind, line_no, section, answer, first_error_line_no>>

NextOption(o) ==
  /\ pc = "parse_cli" /\ optind < Len(args)
  /\ o = args[optind + 1]
  /\ optind' = optind + 1
  /\ UNCHANGED <<inputs, line_no, section, first_error_line_no, pc>>

\* result_code |= EX_USAGE.  Mutant: the result of an option before is lost.
Usage_LastOnly(good) == result_code' = IF good THEN "EX_OK" ELSE "EX_USAGE"
Usage(good) == result_code' = IF good THEN result_code ELSE "EX_USAGE"

\* -c, -d, -l, -p, -s: an empty argument changes nothing, none is legal.
SettingOption ==
  \E o \in Options :
    /\ NextOption(o) /\ o.opt \in DOMAIN CliField
    /\ LET f == CliField[o.opt] IN
       /\ Usage(o.arg # "" /\ Acceptable(f, o.arg))
       /\ Set(f, IF o.arg = "" THEN rt_setting[f] ELSE Written(f, o.arg))
    /\ UNCHANGED answer

\* -f, -h, -v
ModeOption ==
  \E o \in Options :
    /\ NextOption(o) /\ o.opt \in {"f", "h", "v"}
    /\ Set("daemon_mode", "foreground")
    /\ answer' = (answer \/ o.opt \in {"h", "v"})
    /\ Usage(TRUE)

InvalidOption ==
  \E o \in Options :
    /\ NextOption(o) /\ o.opt = "?"
    /\ Usage(FALSE)
    /\ UNCHANGED <<rt_setting, answer>>

CliRead == pc = "parse_cli" /\ optind = Len(args)

CliRefused ==
  /\ CliRead /\ result_code # "EX_OK"
  /\ Exit(result_code)
  /\ UNCHANGED <<inputs, optind, line_no, section, answer, first_error_line_no>>

\* print_usage, print_version
CliAnswered ==
  /\ CliRead /\ result_code = "EX_OK" /\ answer
  /\ Exit("EX_OK")
  /\ UNCHANGED <<inputs, optind, line_no, section, answer, first_error_line_no>>

-----------------------------------------------------------------------------
(* parse_ini.                                                              *)

Open ==
  /\ CliRead /\ result_code = "EX_OK" /\ ~answer
  /\ pc' = "parse_ini"
  /\ UNCHANGED <<inputs, optind, line_no, section, rt_setting, answer, result_code,
                 first_error_line_no>>

OpenFails ==
  /\ CliRead /\ result_code = "EX_OK" /\ ~answer
  /\ Exit("EX_NOPERM")
  /\ UNCHANGED <<inputs, optind, line_no, section, answer, first_error_line_no>>

NextLine(l) ==
  /\ pc = "parse_ini" /\ line_no < Len(lines)
  /\ l = lines[line_no + 1]
  /\ line_no' = line_no + 1
  /\ UNCHANGED <<inputs, optind, answer, result_code, pc>>

\* Mutant: the last error instead of the first.
Note_Last(good) == first_error_line_no' = IF good THEN first_error_line_no ELSE line_no'
Note(good) ==
  first_error_line_no' =
    IF good \/ first_error_line_no # 0 THEN first_error_line_no ELSE line_no'

GeneralField == {"daemon_mode", "pid_file", "socket_file"}
LogField == {"log_ident", "log_facility", "log_level"}

FieldsOf(sec) ==
  CASE sec = "general" -> GeneralField
    [] sec = "ldap"    -> LdapField
    [] sec = "log"     -> LogField
    [] OTHER           -> {}

\* Section [General] takes any other option.
General(f, v) == f \in GeneralField => Acceptable(f, v)
Ldap(f, v) == f \in LdapField /\ Acceptable(f, v)
Log(f, v) == f \in LogField /\ Acceptable(f, v)

\* handle_ini_entry returns 0.
Handled(sec, f, v) ==
  CASE sec = "general" -> General(f, v)
    [] sec = "ldap"    -> Ldap(f, v)
    [] sec = "log"     -> Log(f, v)
    [] OTHER           -> FALSE

\* Empty lines and comments.
BlankLine ==
  \E l \in Lines : NextLine(l) /\ l.kind = "blank" /\ Note(TRUE) /\ UNCHANGED <<section, rt_setting>>

SectionLine ==
  \E l \in Lines : /\ NextLine(l) /\ l.kind = "section"
                   /\ section' = l.name
                   /\ Note(TRUE) /\ UNCHANGED rt_setting

\* "[" without "]": what follows is in no section.
UnclosedLine ==
  \E l \in Lines : /\ NextLine(l) /\ l.kind = "unclosed"
                   /\ section' = ""
                   /\ Note(FALSE) /\ UNCHANGED rt_setting

EntryLine ==
  \E l \in Lines : /\ NextLine(l) /\ l.kind = "entry"
                   /\ Note(Handled(section, l.name, l.value))
                   /\ IF l.name \in FieldsOf(section)
                      THEN Set(l.name, Written(l.name, l.value)) ELSE UNCHANGED rt_setting
                   /\ UNCHANGED section

\* Neither "=" nor ":".
NoiseLine ==
  \E l \in Lines : NextLine(l) /\ l.kind = "noise" /\ Note(FALSE) /\ UNCHANGED <<section, rt_setting>>

\* A buffer of the parser cannot be had or grown.
IniNoMemory ==
  /\ pc = "parse_ini"
  /\ Exit("EX_OSERR")
  /\ UNCHANGED <<inputs, optind, line_no, section, answer, first_error_line_no>>

IniRead == pc = "parse_ini" /\ line_no = Len(lines)

IniRefused ==
  /\ IniRead /\ first_error_line_no # 0
  /\ Exit("EX_USAGE")
  /\ UNCHANGED <<inputs, optind, line_no, section, answer, first_error_line_no>>

IniAccepted ==
  /\ IniRead /\ first_error_line_no = 0
  /\ pc' = "configured"
  /\ UNCHANGED <<inputs, optind, line_no, section, rt_setting, answer, result_code,
                 first_error_line_no>>

Next ==
  \/ InitRtSetting \/ InitNoMemory
  \/ SettingOption \/ ModeOption \/ InvalidOption \/ CliRefused \/ CliAnswered
  \/ Open \/ OpenFails
  \/ BlankLine \/ SectionLine \/ UnclosedLine \/ EntryLine \/ NoiseLine
  \/ IniNoMemory \/ IniRefused \/ IniAccepted

Spec == Init /\ [][Next]_vars

-----------------------------------------------------------------------------
(* Properties.                                                             *)

TypeOK ==
  /\ args \in Seq(Options) /\ optind \in 0..Len(args)
  /\ lines \in Seq(Lines) /\ line_no \in 0..Len(lines)
  /\ section \in Text
  /\ DOMAIN rt_setting = Field
  /\ \A f \in Enumerated : rt_setting[f] \in Recognised[f]
  /\ \A f \in StringField : rt_setting[f] \in (Text \ {""}) \cup {NULL}
  /\ answer \in BOOLEAN
  /\ result_code \in {"EX_OK", "EX_USAGE", "EX_NOPERM", "EX_OSERR", "-1"}
  /\ first_error_line_no \in 0..line_no
  /\ pc \in {"init_rt_setting", "parse_cli", "parse_ini", "configured", "exited"}

\* The lines of a set after which no other of the set follows.
Latest(K) == {k \in K : \A i \in K : i <= k}

\* The section line k belongs to, read off the file: that of the last header,
\* and none after a header that is not closed.
Headers(k) == {h \in 1..k : lines[h].kind \in {"section", "unclosed"}}
Opens(h) == IF lines[h].kind = "section" THEN lines[h].name ELSE ""
InSection(k, sec) ==
  IF Headers(k) = {} THEN sec = "" ELSE \A h \in Latest(Headers(k)) : Opens(h) = sec

WrongLine(k) ==
  \/ lines[k].kind \in {"unclosed", "noise"}
  \/ lines[k].kind = "entry" /\
       \E sec \in {""} \cup {l.name : l \in Lines} :
         InSection(k, sec) /\ ~Handled(sec, lines[k].name, lines[k].value)

WrongOption(k) ==
  \/ args[k].opt = "?"
  \/ args[k].opt \in DOMAIN CliField /\
       (args[k].arg = "" \/ ~Acceptable(CliField[args[k].opt], args[k].arg))

\* The line that is blamed is the first wrong one, whatever follows it, and
\* only when there is one (contract of parse_ini_file).
FirstErrorReported ==
  IF first_error_line_no = 0
  THEN \A k \in 1..line_no : ~WrongLine(k)
  ELSE WrongLine(first_error_line_no) /\ \A k \in 1..first_error_line_no-1 : ~WrongLine(k)

\* No mistake is forgotten: the filter starts only with a command line and a
\* file that have none, and it exits with success only to print an answer.
NoErrorForgotten ==
  /\ pc = "configured" =>
       (\A k \in DOMAIN args : ~WrongOption(k)) /\ (\A k \in DOMAIN lines : ~WrongLine(k))
  /\ pc = "exited" /\ result_code = "EX_OK" =>
       answer /\ \A k \in DOMAIN args : ~WrongOption(k)

\* Lines and options that write a setting, and what the last of them wrote.
LinesFor(f) ==
  {k \in DOMAIN lines : lines[k].kind = "entry" /\ lines[k].name = f
                        /\ \E sec \in {"general", "ldap", "log"} :
                             InSection(k, sec) /\ f \in FieldsOf(sec)}
OptionsFor(f) ==
  {k \in DOMAIN args : \/ args[k].opt \in DOMAIN CliField /\ CliField[args[k].opt] = f
                       \/ args[k].opt = "f" /\ f = "daemon_mode"}
LastWritten(f, v) ==
  IF LinesFor(f) # {}
  THEN \A k \in Latest(LinesFor(f)) : v = IF lines[k].value = "" THEN NULL ELSE lines[k].value
  ELSE IF OptionsFor(f) # {}
  THEN \A k \in Latest(OptionsFor(f)) : v = IF args[k].opt = "f" THEN "foreground" ELSE args[k].arg
  ELSE v = IF f \in DOMAIN Default THEN Default[f] ELSE NULL

\* A filter that starts runs with what was written last: the file overrides the
\* command line, a later line or option an earlier one, the default comes last.
LastWriterWins ==
  pc = "configured" => \A f \in Field : LastWritten(f, rt_setting[f])
=============================================================================
