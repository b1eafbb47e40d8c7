------------------------ MODULE RuntimeSettingProofs ------------------------
(***************************************************************************)
(* Proofs about the settings, for command lines and files of any length    *)
(* with any options, names and values.                                     *)
(***************************************************************************)
EXTENDS RuntimeSetting, TLAPS

-----------------------------------------------------------------------------
(* Types.                                                                  *)

\* A value a setting may have once it has its type.
Value(f) == IF f \in Enumerated THEN Recognised[f] ELSE (Text \ {""}) \cup {NULL}

LEMMA DefaultValue == \A f \in DOMAIN Default : f \in Field /\ Default[f] \in Value(f)
<1>1. DOMAIN Default = {"daemon_mode", "log_level", "log_facility",
                        "config_file", "pid_file", "socket_file"}
  BY DEF Default
<1>2. Enumerated = {"daemon_mode", "log_level", "log_facility"}
  BY DEF Enumerated, Recognised
<1>3. /\ Default["daemon_mode"] \in Recognised["daemon_mode"]
      /\ Default["log_level"] \in Recognised["log_level"]
      /\ Default["log_facility"] \in Recognised["log_facility"]
  BY DEF Default, Recognised, DaemonModes, LogLevels, LogFacilities
<1>4. \A f \in {"config_file", "pid_file", "socket_file"} :
        f \notin Enumerated /\ Default[f] \in Text \ {""}
  <2>1. {"config_file", "pid_file", "socket_file"} \cap Enumerated = {}
    BY <1>2
  <2>2. "default" # ""
    OBVIOUS
  <2>3. "default" \in Text
    BY TextAssumption
  <2>4. \A f \in {"config_file", "pid_file", "socket_file"} : Default[f] = "default"
    BY DEF Default
  <2> QED BY <2>1, <2>2, <2>3, <2>4
<1> QED BY <1>1, <1>2, <1>3, <1>4 DEF Value, Field, StringField

LEMMA FieldSplit == Enumerated \cap StringField = {} /\ Optional \subseteq StringField
BY FieldsAssumption DEF Enumerated, Recognised, StringField, Optional

\* The settings part of TypeOK.
Settings == DOMAIN rt_setting = Field /\ \A f \in Field : rt_setting[f] \in Value(f)

LEMMA SettingsType ==
  Settings <=> /\ DOMAIN rt_setting = Field
               /\ \A f \in Enumerated : rt_setting[f] \in Recognised[f]
               /\ \A f \in StringField : rt_setting[f] \in (Text \ {""}) \cup {NULL}
BY FieldSplit DEF Settings, Field, Value

LEMMA WrittenValue ==
  ASSUME Settings, NEW f \in Field, NEW v \in Text
  PROVE  Written(f, v) \in Value(f)
<1>1. CASE f \in Optional
  BY <1>1, FieldSplit DEF Written, OptionalWritten, Value
<1>2. CASE f \in Enumerated
  <2>1. f \in DOMAIN Default /\ f \notin Optional
    BY <1>2, FieldSplit DEF Enumerated, Recognised, Default
  <2>2. Written(f, v) = EnumeratedWritten(f, v)
    BY <1>2, <2>1 DEF Written
  <2> QED BY <1>2, <2>1, <2>2, DefaultValue DEF EnumeratedWritten, Value
<1>3. CASE f \notin Optional \cup Enumerated
  <2>1. Written(f, v) = MandatoryWritten(f, v)
    BY <1>3 DEF Written
  <2> QED BY <1>3, <2>1 DEF MandatoryWritten, Value, Settings
<1> QED BY <1>1, <1>2, <1>3

LEMMA SetSettings ==
  ASSUME Settings, NEW f \in Field, NEW v \in Value(f), Set(f, v)
  PROVE  Settings'
BY DEF Settings, Set, Value

LEMMA CleanupSettings ==
  ASSUME Settings, Cleanup
  PROVE  Settings'
BY FieldSplit DEF Settings, Cleanup, Value
LEMMA CliFields == \A x \in DOMAIN CliField : CliField[x] \in Field
<1>1. DOMAIN CliField = {"c", "d", "l", "p", "s"}
  BY DEF CliField
<1>2. {"config_file", "daemon_mode", "log_level", "pid_file", "socket_file"} \subseteq Field
  BY DEF Field, Enumerated, Recognised, StringField
<1> QED BY <1>1, <1>2 DEF CliField

LEMMA FileFields == \A sec : FieldsOf(sec) \subseteq Field
BY DEF FieldsOf, GeneralField, LogField, Field, Enumerated, Recognised, StringField

Results == {"EX_OK", "EX_USAGE", "EX_NOPERM", "EX_OSERR", "-1"}

\* The other parts of TypeOK.
Positions ==
  /\ args \in Seq(Options) /\ optind \in 0..Len(args)
  /\ lines \in Seq(Lines) /\ line_no \in 0..Len(lines)
  /\ first_error_line_no \in 0..line_no
Others ==
  /\ section \in Text
  /\ answer \in BOOLEAN
  /\ result_code \in Results
  /\ pc \in {"init_rt_setting", "parse_cli", "parse_ini", "configured", "exited"}

LEMMA TypeParts == TypeOK <=> Positions /\ Others /\ Settings
<1>1. TypeOK <=> /\ Positions /\ Others /\ DOMAIN rt_setting = Field
                 /\ \A f \in Enumerated : rt_setting[f] \in Recognised[f]
                 /\ \A f \in StringField : rt_setting[f] \in (Text \ {""}) \cup {NULL}
  BY Zenon DEF TypeOK, Positions, Others, Results
<1> QED BY <1>1, SettingsType, Zenon

\* An option that is read, and a line that is read.
LEMMA OptionRead ==
  ASSUME Positions, NEW o \in Options, NextOption(o)
  PROVE  /\ optind' = optind + 1 /\ Positions'
         /\ o = args[optind'] /\ o.arg \in Text
         /\ pc = "parse_cli" /\ UNCHANGED <<args, lines, line_no, section, first_error_line_no, pc>>
<1>1. /\ pc = "parse_cli" /\ optind < Len(args) /\ o = args[optind + 1] /\ optind' = optind + 1
      /\ UNCHANGED <<args, lines, line_no, section, first_error_line_no, pc>>
  BY DEF NextOption, inputs
<1>2. o.arg \in Text
  BY InputsAssumption DEF Option
<1>3. Len(args) \in Nat /\ optind \in Nat
  BY DEF Positions
<1>4. Positions'
  BY <1>1, <1>3 DEF Positions
<1> QED BY <1>1, <1>2, <1>4

LEMMA LineRead ==
  ASSUME Positions, NEW l \in Lines, NextLine(l), NEW good, Note(good)
  PROVE  /\ line_no' = line_no + 1 /\ Positions'
         /\ l = lines[line_no'] /\ l.name \in Text /\ l.value \in Text
         /\ pc = "parse_ini" /\ UNCHANGED <<args, lines, optind, answer, result_code, pc>>
<1>1. /\ pc = "parse_ini" /\ line_no < Len(lines) /\ l = lines[line_no + 1] /\ line_no' = line_no + 1
      /\ UNCHANGED <<args, lines, optind, answer, result_code, pc>>
  BY DEF NextLine, inputs
<1>2. l.name \in Text /\ l.value \in Text
  BY InputsAssumption DEF Line
<1>3. Len(lines) \in Nat /\ line_no \in Nat /\ first_error_line_no \in 0..line_no
  BY DEF Positions
<1>4. first_error_line_no' \in {first_error_line_no, line_no'}
  BY DEF Note
<1>5. Positions'
  BY <1>1, <1>3, <1>4 DEF Positions
<1> QED BY <1>1, <1>2, <1>5

LEMMA UsageType ==
  ASSUME Others, NEW good, Usage(good)
  PROVE  result_code' \in Results
<1>1. result_code' \in {result_code, "EX_USAGE"}
  BY DEF Usage
<1> QED BY <1>1 DEF Others, Results

LEMMA InitTypeOK == Init => TypeOK
<1> SUFFICES ASSUME Init PROVE TypeOK
  OBVIOUS
<1>1. PICK n \in 0..MaxOptions : args \in [1..n -> Options]
  BY Zenon DEF Init
<1>2. args \in Seq(Options) /\ Len(args) \in Nat
  BY <1>1, BoundsAssumption
<1>3. PICK m \in 0..MaxLines : lines \in [1..m -> Lines]
  BY Zenon DEF Init
<1>4. lines \in Seq(Lines) /\ Len(lines) \in Nat
  BY <1>3, BoundsAssumption
<1>5. /\ optind = 0 /\ line_no = 0 /\ first_error_line_no = 0 /\ section = "" /\ answer = FALSE
      /\ result_code = "EX_OK" /\ pc = "init_rt_setting"
      /\ rt_setting = [f \in Field |-> IF f \in Enumerated THEN Default[f] ELSE NULL]
  BY Zenon DEF Init
<1>6. Positions
  <2>1. 0 \in 0..Len(args) /\ 0 \in 0..Len(lines) /\ 0 \in 0..0
    BY <1>2, <1>4
  <2> QED BY <1>2, <1>4, <1>5, <2>1, Zenon DEF Positions
<1>7. Others
  BY <1>5, TextAssumption DEF Others, Results
<1>8. \A f \in Enumerated : f \in DOMAIN Default
  BY DEF Enumerated, Recognised, Default
<1>9. Settings
  BY <1>5, <1>8, DefaultValue DEF Settings, Value
<1> QED BY <1>6, <1>7, <1>9, TypeParts

LEMMA NextTypeOK == TypeOK /\ [Next]_vars => TypeOK'
<1> SUFFICES ASSUME Positions, Others, Settings, [Next]_vars
             PROVE  Positions' /\ Others' /\ Settings'
  BY TypeParts, PTL
<1>1. CASE UNCHANGED vars
  BY <1>1 DEF vars, inputs, Positions, Others, Settings
<1>2. CASE InitRtSetting
  <2>1. Settings'
    BY <1>2, DefaultValue DEF InitRtSetting, Settings
  <2> QED BY <1>2, <2>1 DEF InitRtSetting, inputs, Positions, Others
<1>3. ASSUME NEW c \in Results, Exit(c),
             UNCHANGED <<args, lines, optind, line_no, section, answer, first_error_line_no>>
      PROVE  Positions' /\ Others' /\ Settings'
  <2>1. Settings'
    BY <1>3, CleanupSettings DEF Exit
  <2> QED BY <1>3, <2>1 DEF Exit, Positions, Others
<1>4. CASE SettingOption
  <2>1. PICK o \in Options :
          /\ NextOption(o) /\ o.opt \in DOMAIN CliField
          /\ Usage(o.arg # "" /\ Acceptable(CliField[o.opt], o.arg))
          /\ Set(CliField[o.opt],
                 IF o.arg = "" THEN rt_setting[CliField[o.opt]] ELSE Written(CliField[o.opt], o.arg))
          /\ UNCHANGED answer
    BY <1>4 DEF SettingOption
  <2> DEFINE f == CliField[o.opt]
  <2>2. f \in Field /\ o.arg \in Text
    BY <2>1, CliFields, OptionRead
  <2>3. (IF o.arg = "" THEN rt_setting[f] ELSE Written(f, o.arg)) \in Value(f)
    BY <2>2, WrittenValue DEF Settings
  <2>4. Settings'
    BY <2>1, <2>2, <2>3, SetSettings
  <2>5. result_code' \in Results
    BY <2>1, UsageType
  <2> QED BY <2>1, <2>4, <2>5, OptionRead DEF Others
<1>5. CASE ModeOption
  <2>1. PICK o \in Options :
          /\ NextOption(o) /\ Set("daemon_mode", "foreground")
          /\ answer' = (answer \/ o.opt \in {"h", "v"}) /\ Usage(TRUE)
    BY <1>5 DEF ModeOption
  <2>2. "daemon_mode" \in Field /\ "foreground" \in Value("daemon_mode")
    BY DEF Field, Value, Enumerated, Recognised, DaemonModes
  <2>3. Settings'
    BY <2>1, <2>2, SetSettings
  <2>4. answer' \in BOOLEAN
    BY <2>1
  <2>5. result_code' \in Results
    BY <2>1, UsageType
  <2> QED BY <2>1, <2>3, <2>4, <2>5, OptionRead DEF Others
<1>6. CASE InvalidOption
  <2>1. PICK o \in Options : NextOption(o) /\ Usage(FALSE) /\ UNCHANGED <<rt_setting, answer>>
    BY <1>6 DEF InvalidOption
  <2> QED BY <2>1, OptionRead, UsageType DEF Others, Settings
<1>7. CASE Open \/ IniAccepted
  BY <1>7 DEF Open, IniAccepted, inputs, Positions, Others, Settings
<1>8. CASE BlankLine \/ SectionLine \/ UnclosedLine \/ NoiseLine
  <2>1. PICK l \in Lines : /\ NextLine(l) /\ section' \in {section, l.name, ""} /\ UNCHANGED rt_setting
                           /\ \E good \in BOOLEAN : Note(good)
    BY <1>8 DEF BlankLine, SectionLine, UnclosedLine, NoiseLine
  <2>2. section' \in Text
    BY <2>1, LineRead, TextAssumption DEF Others
  <2> QED BY <2>1, <2>2, LineRead DEF Others, Settings
<1>9. CASE EntryLine
  <2>1. PICK l \in Lines : /\ NextLine(l) /\ Note(Handled(section, l.name, l.value))
                           /\ IF l.name \in FieldsOf(section)
                              THEN Set(l.name, Written(l.name, l.value)) ELSE UNCHANGED rt_setting
                           /\ UNCHANGED section
    BY <1>9 DEF EntryLine
  <2>2. Settings'
    <3>1. CASE l.name \in FieldsOf(section)
      <4>1. l.name \in Field /\ Written(l.name, l.value) \in Value(l.name)
        BY <2>1, <3>1, FileFields, LineRead, WrittenValue
      <4> QED BY <2>1, <3>1, <4>1, SetSettings
    <3>2. CASE l.name \notin FieldsOf(section)
      BY <2>1, <3>2 DEF Settings
    <3> QED BY <3>1, <3>2
  <2> QED BY <2>1, <2>2, LineRead DEF Others
<1>10. CASE \/ InitNoMemory \/ CliRefused \/ CliAnswered \/ OpenFails \/ IniNoMemory \/ IniRefused
  <2>1. PICK c \in Results : Exit(c)
    BY <1>10 DEF InitNoMemory, CliRefused, CliAnswered, OpenFails, IniNoMemory, IniRefused, Others,
                 Results
  <2>2. UNCHANGED <<args, lines, optind, line_no, section, answer, first_error_line_no>>
    BY <1>10 DEF InitNoMemory, CliRefused, CliAnswered, OpenFails, IniNoMemory, IniRefused, inputs
  <2> QED BY <1>3, <2>1, <2>2
<1> QED BY <1>1, <1>2, <1>4, <1>5, <1>6, <1>7, <1>8, <1>9, <1>10 DEF Next

\* Type correctness: whatever a command line and a file contain, every setting has
\* a value the program knows, or none where it may have none.
THEOREM TypeCorrect == Spec => []TypeOK
BY InitTypeOK, NextTypeOK, PTL DEF Spec

-----------------------------------------------------------------------------
(* The line that is blamed.                                                *)

\* The parser is in the section the lines it has read say.
SectionInv == InSection(line_no, section) /\ \A sec : InSection(line_no, sec) => sec = section

Names == {""} \cup {l.name : l \in Lines}
LineInv == section \in Names /\ SectionInv /\ FirstErrorReported

\* A line that is not read yet changes nothing about those that are.
LEMMA HeadersBefore ==
  ASSUME Positions, NEW k \in Nat, lines[k+1].kind \notin {"section", "unclosed"}
  PROVE  Headers(k+1) = Headers(k)
BY DEF Headers

\* Lines that open nothing leave the section.
LEMMA SectionKept ==
  ASSUME Positions, SectionInv, line_no' = line_no + 1, UNCHANGED <<lines, section>>,
         lines[line_no+1].kind \notin {"section", "unclosed"}
  PROVE  SectionInv'
<1>1. Headers(line_no') = Headers(line_no)
  BY HeadersBefore DEF Positions
<1>2. \A sec : InSection(line_no, sec)' <=> InSection(line_no, sec)
  BY <1>1 DEF InSection, Headers, Latest, Opens
<1> QED BY <1>2 DEF SectionInv

\* A header is the last one.
LEMMA SectionOpened ==
  ASSUME Positions, Positions', line_no' = line_no + 1, UNCHANGED lines,
         lines[line_no+1].kind \in {"section", "unclosed"}, section' = Opens(line_no + 1)
  PROVE  SectionInv'
<1> DEFINE n == line_no + 1
<1>1. n \in Nat /\ n \in Headers(n) /\ \A h \in Headers(n) : h <= n /\ h \in Nat
  BY DEF Headers, Positions
<1>2. Latest(Headers(n)) = {n}
  BY <1>1 DEF Latest
<1>3. \A sec : InSection(n, sec) <=> Opens(n) = sec
  BY <1>1, <1>2 DEF InSection
<1>4. \A sec : InSection(line_no, sec)' <=> InSection(n, sec)
  BY DEF InSection, Headers, Latest, Opens
<1>5. section' = Opens(n)
  OBVIOUS
<1> HIDE DEF n
<1>6. \A sec : InSection(line_no, sec)' <=> sec = section'
  BY <1>3, <1>4, <1>5
<1> QED BY <1>6 DEF SectionInv

\* In line k, an entry, the section is the one the line before was in.
LEMMA EntryWrong ==
  ASSUME Positions, LineInv, NEW l \in Lines, lines[line_no+1] = l, l.kind = "entry"
  PROVE  WrongLine(line_no+1) <=> ~Handled(section, l.name, l.value)
<1>1. Headers(line_no+1) = Headers(line_no)
  BY HeadersBefore DEF Positions
<1>2. \A sec : InSection(line_no+1, sec) <=> sec = section
  BY <1>1 DEF InSection, LineInv, SectionInv
<1> QED BY <1>2 DEF WrongLine, LineInv, Names

\* Noting whether the line that was read is wrong.
LEMMA NoteReports ==
  ASSUME Positions, FirstErrorReported, line_no' = line_no + 1, UNCHANGED lines,
         NEW good, good <=> ~WrongLine(line_no+1), Note(good)
  PROVE  FirstErrorReported'
<1>1. line_no \in Nat /\ first_error_line_no \in 0..line_no
  BY DEF Positions
<1>2. \A k \in Nat : WrongLine(k)' <=> WrongLine(k)
  BY DEF WrongLine, InSection, Headers, Latest, Opens
<1>3. CASE first_error_line_no # 0
  <2>1. first_error_line_no' = first_error_line_no
    BY <1>3 DEF Note
  <2> QED BY <1>1, <1>2, <1>3, <2>1 DEF FirstErrorReported
<1>4. CASE first_error_line_no = 0 /\ ~WrongLine(line_no+1)
  <2>1. first_error_line_no' = 0
    BY <1>4 DEF Note
  <2> QED BY <1>1, <1>2, <1>4, <2>1 DEF FirstErrorReported
<1>5. CASE first_error_line_no = 0 /\ WrongLine(line_no+1)
  <2>1. first_error_line_no' = line_no + 1
    BY <1>5 DEF Note
  <2> QED BY <1>1, <1>2, <1>5, <2>1 DEF FirstErrorReported
<1> QED BY <1>3, <1>4, <1>5

LEMMA NextLineInv == TypeOK /\ LineInv /\ [Next]_vars => LineInv'
<1> SUFFICES ASSUME Positions, Positions', LineInv, [Next]_vars PROVE LineInv'
  BY TypeParts, NextTypeOK, PTL
<1>1. CASE UNCHANGED <<lines, line_no, section, first_error_line_no>>
  <2>1. \A k, sec : InSection(k, sec)' <=> InSection(k, sec)
    BY <1>1 DEF InSection, Headers, Latest, Opens
  <2>2. \A k : WrongLine(k)' <=> WrongLine(k)
    BY <1>1, <2>1 DEF WrongLine
  <2> QED BY <1>1, <2>1, <2>2 DEF LineInv, SectionInv, FirstErrorReported
<1>2. CASE BlankLine \/ NoiseLine \/ EntryLine
  <2>1. PICK l \in Lines, good \in BOOLEAN :
          /\ NextLine(l) /\ Note(good) /\ UNCHANGED section
          /\ \/ l.kind = "blank" /\ good
             \/ l.kind = "noise" /\ ~good
             \/ l.kind = "entry" /\ (good <=> Handled(section, l.name, l.value))
    BY <1>2 DEF BlankLine, NoiseLine, EntryLine, Handled, General, Ldap, Log
  <2>2. lines[line_no+1] = l /\ line_no' = line_no + 1 /\ UNCHANGED lines
    BY <2>1 DEF NextLine, inputs
  <2>3. SectionInv'
    BY <2>1, <2>2, SectionKept DEF LineInv
  <2>4. good <=> ~WrongLine(line_no+1)
    BY <2>1, <2>2, EntryWrong DEF WrongLine
  <2>5. FirstErrorReported'
    BY <2>1, <2>2, <2>4, NoteReports DEF LineInv
  <2> QED BY <2>1, <2>3, <2>5 DEF LineInv
<1>3. CASE SectionLine \/ UnclosedLine
  <2>1. PICK l \in Lines, good \in BOOLEAN :
          /\ NextLine(l) /\ Note(good)
          /\ \/ l.kind = "section" /\ good /\ section' = l.name
             \/ l.kind = "unclosed" /\ ~good /\ section' = ""
    BY <1>3 DEF SectionLine, UnclosedLine
  <2>2. lines[line_no+1] = l /\ line_no' = line_no + 1 /\ UNCHANGED lines
    BY <2>1 DEF NextLine, inputs
  <2>3. SectionInv'
    BY <2>1, <2>2, SectionOpened DEF Opens
  <2>4. good <=> ~WrongLine(line_no+1)
    BY <2>1, <2>2 DEF WrongLine
  <2>5. FirstErrorReported'
    BY <2>1, <2>2, <2>4, NoteReports DEF LineInv
  <2>6. section' \in Names
    BY <2>1 DEF Names
  <2> QED BY <2>3, <2>5, <2>6 DEF LineInv
<1> QED BY <1>1, <1>2, <1>3
        DEF Next, vars, inputs, InitRtSetting, InitNoMemory, SettingOption, ModeOption, InvalidOption,
            NextOption, CliRefused, CliAnswered, Open, OpenFails, IniNoMemory, IniRefused, IniAccepted

LEMMA LineInvAlways == Spec => [](TypeOK /\ LineInv)
<1>1. Init => LineInv
  <2> SUFFICES ASSUME Init PROVE LineInv
    OBVIOUS
  <2>1. line_no = 0 /\ section = "" /\ first_error_line_no = 0
    BY Zenon DEF Init
  <2>2. Headers(0) = {}
    BY DEF Headers
  <2>3. SectionInv
    BY <2>1, <2>2 DEF SectionInv, InSection
  <2>4. FirstErrorReported
    <3>1. \A k \in 1..0 : FALSE
      OBVIOUS
    <3> QED BY <2>1, <3>1, Zenon DEF FirstErrorReported
  <2> QED BY <2>1, <2>3, <2>4 DEF LineInv, Names
<1> QED BY <1>1, InitTypeOK, NextTypeOK, NextLineInv, PTL DEF Spec

\* Whatever a file of any length contains, the line parse_ini blames is the first
\* wrong one, and it blames one if there is one.
THEOREM FirstBlamed == Spec => []FirstErrorReported
<1>1. LineInv => FirstErrorReported
  BY DEF LineInv
<1> QED BY <1>1, LineInvAlways, PTL

-----------------------------------------------------------------------------
(* Nothing wrong is accepted.                                              *)

\* What has been passed when main is at some call.
CliInv ==
  /\ pc = "init_rt_setting" => optind = 0
  /\ pc \in {"parse_cli", "parse_ini", "configured"} /\ result_code = "EX_OK" =>
       \A k \in 1..optind : ~WrongOption(k)
  /\ pc \in {"parse_ini", "configured"} => optind = Len(args) /\ result_code = "EX_OK"
  /\ pc = "configured" => line_no = Len(lines) /\ first_error_line_no = 0
  /\ pc = "exited" /\ result_code = "EX_OK" =>
       answer /\ \A k \in DOMAIN args : ~WrongOption(k)

LEMMA NextCliInv == TypeOK /\ CliInv /\ [Next]_vars => CliInv'
<1> SUFFICES ASSUME Positions, Others, CliInv, [Next]_vars PROVE CliInv'
  BY TypeParts
<1>0. /\ DOMAIN args = 1..Len(args) /\ Len(args) \in Nat /\ optind \in Nat
      /\ (UNCHANGED args => \A k : WrongOption(k)' <=> WrongOption(k))
  <2>1. ASSUME UNCHANGED args, NEW k PROVE WrongOption(k)' <=> WrongOption(k)
    BY <2>1 DEF WrongOption
  <2> QED BY <2>1 DEF Positions
<1>1. CASE UNCHANGED vars
  BY <1>0, <1>1 DEF vars, inputs, CliInv
<1>2. CASE InitRtSetting
  BY <1>2 DEF InitRtSetting, inputs, CliInv
<1>3. CASE SettingOption \/ ModeOption \/ InvalidOption
  <2>1. PICK o \in Options, good \in BOOLEAN :
          /\ NextOption(o) /\ Usage(good)
          /\ \/ /\ o.opt \in DOMAIN CliField
                /\ good <=> o.arg # "" /\ Acceptable(CliField[o.opt], o.arg)
             \/ o.opt \in {"f", "h", "v"} /\ good
             \/ ~good
    BY <1>3 DEF SettingOption, ModeOption, InvalidOption, Acceptable
  <2>2. /\ optind' = optind + 1 /\ o = args[optind + 1] /\ UNCHANGED args
        /\ pc = "parse_cli" /\ pc' = "parse_cli"
    BY <2>1, OptionRead
  <2>3. good => ~WrongOption(optind + 1)
    BY <2>1, <2>2 DEF WrongOption, CliField
  <2>4. result_code' = "EX_OK" => good /\ result_code = "EX_OK"
    BY <2>1 DEF Usage
  <2> QED BY <1>0, <2>2, <2>3, <2>4 DEF CliInv
<1>4. CASE CliAnswered
  BY <1>0, <1>4 DEF CliAnswered, CliRead, Exit, inputs, CliInv
<1>5. CASE InitNoMemory \/ CliRefused \/ OpenFails \/ IniNoMemory \/ IniRefused
  <2>1. pc' = "exited" /\ result_code' # "EX_OK"
    BY <1>5 DEF InitNoMemory, CliRefused, OpenFails, IniNoMemory, IniRefused, Exit
  <2> QED BY <2>1 DEF CliInv
<1>6. CASE Open
  BY <1>0, <1>6 DEF Open, CliRead, inputs, CliInv
<1>7. CASE BlankLine \/ SectionLine \/ UnclosedLine \/ EntryLine \/ NoiseLine
  <2>1. pc = "parse_ini" /\ UNCHANGED <<args, optind, answer, result_code, pc>>
    BY <1>7 DEF BlankLine, SectionLine, UnclosedLine, EntryLine, NoiseLine, NextLine, inputs
  <2> QED BY <1>0, <2>1 DEF CliInv
<1>8. CASE IniAccepted
  BY <1>0, <1>8 DEF IniAccepted, IniRead, inputs, CliInv
<1> QED BY <1>1, <1>2, <1>3, <1>4, <1>5, <1>6, <1>7, <1>8 DEF Next

\* The filter starts only with a command line and a file without any mistake,
\* however long they are, and exits with success only to answer.
THEOREM NothingForgotten == Spec => []NoErrorForgotten
<1>1. Init => CliInv
  <2> SUFFICES ASSUME Init PROVE CliInv
    OBVIOUS
  <2>1. optind = 0 /\ pc = "init_rt_setting"
    BY Zenon DEF Init
  <2> QED BY <2>1 DEF CliInv
<1>2. TypeOK /\ LineInv /\ CliInv => NoErrorForgotten
  <2> SUFFICES ASSUME Positions, LineInv, CliInv PROVE NoErrorForgotten
    BY TypeParts
  <2>1. DOMAIN args = 1..Len(args) /\ DOMAIN lines = 1..Len(lines)
    BY DEF Positions
  <2> QED BY <2>1 DEF LineInv, FirstErrorReported, CliInv, NoErrorForgotten
<1> QED BY <1>1, <1>2, LineInvAlways, NextCliInv, PTL DEF Spec

-----------------------------------------------------------------------------
(* Who wrote a setting last.                                               *)

\* LinesFor, OptionsFor and LastWritten as far as n lines and i options go.
LinesTo(f, n) ==
  {k \in 1..n : lines[k].kind = "entry" /\ lines[k].name = f
                /\ \E sec \in {"general", "ldap", "log"} :
                     InSection(k, sec) /\ f \in FieldsOf(sec)}
OptionsTo(f, i) ==
  {k \in 1..i : \/ args[k].opt \in DOMAIN CliField /\ CliField[args[k].opt] = f
                \/ args[k].opt = "f" /\ f = "daemon_mode"}

FromLine(k) == IF lines[k].value = "" THEN NULL ELSE lines[k].value
FromOption(k) == IF args[k].opt = "f" THEN "foreground" ELSE args[k].arg
FromDefault(f) == IF f \in DOMAIN Default THEN Default[f] ELSE NULL

WrittenTo(f, v, i, n) ==
  IF LinesTo(f, n) # {} THEN \A k \in Latest(LinesTo(f, n)) : v = FromLine(k)
  ELSE IF OptionsTo(f, i) # {} THEN \A k \in Latest(OptionsTo(f, i)) : v = FromOption(k)
  ELSE v = FromDefault(f)

\* As long as nothing wrong was read and no answer is due, every setting has what
\* was written last so far.
WriteInv ==
  /\ pc = "init_rt_setting" => optind = 0
  /\ pc \in {"parse_ini", "configured"} => ~answer
  /\ pc \in {"init_rt_setting", "parse_cli"} => line_no = 0
  /\ pc = "init_rt_setting" => rt_setting = [f \in Field |-> IF f \in Enumerated THEN Default[f] ELSE NULL]
  /\ pc \in {"parse_cli", "parse_ini", "configured"} /\ result_code = "EX_OK" /\ ~answer
       /\ first_error_line_no = 0
     => \A f \in Field : WrittenTo(f, rt_setting[f], optind, line_no)

LEMMA LatestIsNew ==
  ASSUME NEW n \in Nat, NEW K \in SUBSET (1..n)
  PROVE  Latest(K \cup {n+1}) = {n+1}
<1>1. \A k \in K : k \in Int /\ k <= n+1 /\ ~(n+1 <= k)
  OBVIOUS
<1>2. n+1 <= n+1
  OBVIOUS
<1> DEFINE m == n+1
<1> HIDE DEF m
<1>3. (\A k \in K : k <= m /\ ~(m <= k)) /\ m <= m => Latest(K \cup {m}) = {m}
  BY Zenon DEF Latest
<1> QED BY <1>1, <1>2, <1>3 DEF m

LEMMA NothingToRead ==
  ASSUME NEW f
  PROVE  LinesTo(f, 0) = {} /\ OptionsTo(f, 0) = {}
BY DEF LinesTo, OptionsTo

\* What is acceptable is stored as it is, if not empty.
LEMMA WrittenAsGiven ==
  ASSUME NEW f \in Field, NEW v, Acceptable(f, v)
  PROVE  Written(f, v) = IF v = "" THEN NULL ELSE v
<1>1. CASE f \in Optional
  BY <1>1, FieldSplit DEF Written, OptionalWritten
<1>2. CASE f \in Enumerated
  <2>1. f \notin Optional
    BY <1>2, FieldSplit
  <2>2. v \in Recognised[f]
    BY <1>2, <2>1 DEF Acceptable
  <2>3. Recognised[f] \in {DaemonModes, LogLevels, LogFacilities}
    BY <1>2 DEF Enumerated, Recognised
  <2>4. "" \notin DaemonModes /\ "" \notin LogLevels /\ "" \notin LogFacilities
    BY DEF DaemonModes, LogLevels, LogFacilities
  <2>5. v # ""
    BY <2>2, <2>3, <2>4
  <2> QED BY <1>2, <2>1, <2>2, <2>5 DEF Written, EnumeratedWritten
<1>3. CASE f \notin Optional \cup Enumerated
  <2>1. v # ""
    BY <1>3 DEF Acceptable
  <2>2. Written(f, v) = MandatoryWritten(f, v)
    BY <1>3 DEF Written
  <2> QED BY <2>1, <2>2 DEF MandatoryWritten
<1> QED BY <1>1, <1>2, <1>3

\* Option i+1 is read, before any line.
LEMMA OptionWrites ==
  ASSUME NEW i \in Nat, NEW f \in Field, NEW v, NEW w,
         WrittenTo(f, v, i, 0),
         IF i + 1 \in OptionsTo(f, i+1) THEN w = FromOption(i+1) ELSE w = v
  PROVE  WrittenTo(f, w, i+1, 0)
<1>1. LinesTo(f, 0) = {}
  BY NothingToRead
<1>2. OptionsTo(f, i) \in SUBSET (1..i)
  BY DEF OptionsTo
<1>3. CASE i + 1 \in OptionsTo(f, i+1)
  <2>1. OptionsTo(f, i+1) = OptionsTo(f, i) \cup {i+1}
    BY <1>3 DEF OptionsTo
  <2>2. Latest(OptionsTo(f, i+1)) = {i+1}
    BY <1>2, <2>1, LatestIsNew
  <2> QED BY <1>1, <1>3, <2>2 DEF WrittenTo
<1>4. CASE i + 1 \notin OptionsTo(f, i+1)
  <2>1. OptionsTo(f, i+1) = OptionsTo(f, i)
    BY <1>4 DEF OptionsTo
  <2> QED BY <1>1, <1>4, <2>1 DEF WrittenTo
<1> QED BY <1>3, <1>4

\* Line n+1 is read.
LEMMA LineWrites ==
  ASSUME NEW n \in Nat, NEW i, NEW f \in Field, NEW v, NEW w,
         WrittenTo(f, v, i, n),
         IF n + 1 \in LinesTo(f, n+1) THEN w = FromLine(n+1) ELSE w = v
  PROVE  WrittenTo(f, w, i, n+1)
<1>1. LinesTo(f, n) \in SUBSET (1..n)
  BY DEF LinesTo
<1>2. CASE n + 1 \in LinesTo(f, n+1)
  <2>1. LinesTo(f, n+1) = LinesTo(f, n) \cup {n+1}
    BY <1>2 DEF LinesTo
  <2>2. Latest(LinesTo(f, n+1)) = {n+1}
    BY <1>1, <2>1, LatestIsNew
  <2> QED BY <1>2, <2>2 DEF WrittenTo
<1>3. CASE n + 1 \notin LinesTo(f, n+1)
  <2>1. LinesTo(f, n+1) = LinesTo(f, n)
    BY <1>3 DEF LinesTo
  <2> QED BY <1>3, <2>1 DEF WrittenTo
<1> QED BY <1>2, <1>3

LEMMA NextWriteInv == TypeOK /\ LineInv /\ CliInv /\ WriteInv /\ [Next]_vars => WriteInv'
<1> SUFFICES ASSUME Positions, Others, Settings, LineInv, CliInv, WriteInv, [Next]_vars
             PROVE  WriteInv'
  BY TypeParts
<1>0. /\ optind \in Nat /\ line_no \in Nat
      /\ Len(args) \in Nat /\ Len(lines) \in Nat
  BY DEF Positions
<1>1. CASE UNCHANGED vars
  <2>1. UNCHANGED <<inputs, optind, line_no, rt_setting, answer, result_code, first_error_line_no, pc>>
    BY <1>1 DEF vars
  <2>2. \A f \in Field : WrittenTo(f, rt_setting[f], optind, line_no)' <=>
                         WrittenTo(f, rt_setting[f], optind, line_no)
    BY <2>1 DEF inputs, WrittenTo, LinesTo, OptionsTo, FromLine, FromOption, InSection, Headers, Latest, Opens
  <2> QED BY <2>1, <2>2 DEF WriteInv
<1>u. ASSUME UNCHANGED inputs
      PROVE  \A f \in Field : WrittenTo(f, rt_setting[f], optind, line_no)' <=>
                              WrittenTo(f, rt_setting'[f], optind', line_no')
  BY <1>u DEF inputs, WrittenTo, LinesTo, OptionsTo, FromLine, FromOption, InSection, Headers, Latest, Opens
<1>2. CASE InitRtSetting
  <2>1. /\ pc = "init_rt_setting" /\ pc' = "parse_cli" /\ optind' = 0 /\ line_no' = 0
        /\ UNCHANGED inputs
        /\ rt_setting' = [f \in Field |-> IF f \in DOMAIN Default THEN Default[f] ELSE rt_setting[f]]
        /\ rt_setting = [f \in Field |-> IF f \in Enumerated THEN Default[f] ELSE NULL]
    BY <1>2 DEF InitRtSetting, WriteInv
  <2>2. \A f \in Enumerated : f \in DOMAIN Default
    BY DEF Enumerated, Recognised, Default
  <2>3. \A f \in Field : rt_setting'[f] = FromDefault(f)
    BY <2>1, <2>2 DEF FromDefault
  <2>4. \A f \in Field : WrittenTo(f, rt_setting'[f], 0, 0)
    BY <2>3, NothingToRead DEF WrittenTo
  <2> QED BY <1>u, <2>1, <2>4 DEF WriteInv
<1>3. CASE SettingOption
  <2>1. PICK o \in Options :
          /\ NextOption(o) /\ o.opt \in DOMAIN CliField
          /\ Usage(o.arg # "" /\ Acceptable(CliField[o.opt], o.arg))
          /\ Set(CliField[o.opt],
                 IF o.arg = "" THEN rt_setting[CliField[o.opt]] ELSE Written(CliField[o.opt], o.arg))
          /\ UNCHANGED answer
    BY <1>3 DEF SettingOption
  <2> DEFINE f == CliField[o.opt]
  <2>2. f \in Field /\ f = CliField[args[optind+1].opt] /\ args[optind+1] = o
    BY <2>1, CliFields, OptionRead
  <2>3. /\ pc = "parse_cli" /\ pc' = "parse_cli" /\ optind' = optind + 1 /\ line_no = 0 /\ line_no' = 0
        /\ UNCHANGED <<inputs, answer, first_error_line_no>>
    BY <2>1, OptionRead DEF WriteInv, inputs
  <2>4. SUFFICES ASSUME result_code' = "EX_OK", ~answer, first_error_line_no = 0, NEW g \in Field
                 PROVE  WrittenTo(g, rt_setting'[g], optind + 1, 0)
    BY <1>u, <2>3 DEF WriteInv
  <2>5. o.arg # "" /\ Acceptable(f, o.arg) /\ result_code = "EX_OK"
    BY <2>1, <2>4 DEF Usage
  <2>6. Written(f, o.arg) = o.arg
    BY <2>2, <2>5, WrittenAsGiven
  <2>7. o.opt # "f"
    BY <2>1 DEF CliField
  <2>8. rt_setting'[g] = IF g = f THEN o.arg ELSE rt_setting[g]
    BY <2>1, <2>5, <2>6 DEF Set, Settings
  <2>9. optind + 1 \in OptionsTo(g, optind + 1) <=> g = f
    <3>1. optind + 1 \in 1..(optind + 1)
      BY <1>0
    <3>2. args[optind + 1].opt \in DOMAIN CliField /\ args[optind + 1].opt # "f"
      BY <2>1, <2>2, <2>7, Zenon
    <3> QED BY <2>2, <3>1, <3>2, Zenon DEF OptionsTo
  <2>10. FromOption(optind + 1) = o.arg
    BY <2>2, <2>7 DEF FromOption
  <2>11. WrittenTo(g, rt_setting[g], optind, 0)
    BY <2>3, <2>4, <2>5 DEF WriteInv
  <2> QED BY <1>0, <2>8, <2>9, <2>10, <2>11, OptionWrites
<1>4. CASE ModeOption
  <2>1. PICK o \in Options :
          /\ NextOption(o) /\ o.opt \in {"f", "h", "v"} /\ Set("daemon_mode", "foreground")
          /\ answer' = (answer \/ o.opt \in {"h", "v"}) /\ Usage(TRUE)
    BY <1>4 DEF ModeOption
  <2>2. /\ pc = "parse_cli" /\ pc' = "parse_cli" /\ optind' = optind + 1 /\ line_no = 0 /\ line_no' = 0
        /\ UNCHANGED <<inputs, first_error_line_no, result_code>> /\ args[optind+1] = o
    BY <2>1, OptionRead DEF WriteInv, inputs, Usage
  <2>3. SUFFICES ASSUME result_code' = "EX_OK", ~answer', first_error_line_no = 0, NEW g \in Field
                 PROVE  WrittenTo(g, rt_setting'[g], optind + 1, 0)
    BY <1>u, <2>2 DEF WriteInv
  <2>4. o.opt = "f" /\ ~answer /\ "f" \notin DOMAIN CliField
    BY <2>1, <2>3 DEF CliField
  <2>5. rt_setting'[g] = IF g = "daemon_mode" THEN "foreground" ELSE rt_setting[g]
    BY <2>1 DEF Set, Settings
  <2>6. optind + 1 \in OptionsTo(g, optind + 1) <=> g = "daemon_mode"
    BY <1>0, <2>2, <2>4 DEF OptionsTo
  <2>7. FromOption(optind + 1) = "foreground"
    BY <2>2, <2>4 DEF FromOption
  <2>8. WrittenTo(g, rt_setting[g], optind, 0)
    BY <2>2, <2>3, <2>4 DEF WriteInv
  <2> QED BY <1>0, <2>5, <2>6, <2>7, <2>8, OptionWrites
<1>5. CASE InvalidOption
  <2>1. pc = "parse_cli" /\ pc' = "parse_cli" /\ result_code' = "EX_USAGE" /\ UNCHANGED line_no
    BY <1>5 DEF InvalidOption, NextOption, Usage
  <2> QED BY <2>1 DEF WriteInv
<1>6. CASE InitNoMemory \/ CliRefused \/ CliAnswered \/ OpenFails \/ IniNoMemory \/ IniRefused
  <2>1. pc' = "exited"
    BY <1>6 DEF InitNoMemory, CliRefused, CliAnswered, OpenFails, IniNoMemory, IniRefused, Exit
  <2> QED BY <2>1 DEF WriteInv
<1>7. CASE Open \/ IniAccepted
  <2>1. /\ pc \in {"parse_cli", "parse_ini"} /\ pc' \in {"parse_ini", "configured"}
        /\ UNCHANGED <<inputs, optind, line_no, rt_setting, answer, result_code, first_error_line_no>>
        /\ ~answer
    BY <1>7 DEF WriteInv, Open, CliRead, IniAccepted, IniRead
  <2>2. \A f \in Field : rt_setting'[f] = rt_setting[f]
    BY <2>1
  <2> QED BY <1>u, <2>1, <2>2 DEF WriteInv
<1>8. ASSUME NEW l \in Lines, NEW good \in BOOLEAN, NextLine(l), Note(good),
             good => \A g \in Field :
                       rt_setting'[g] = IF line_no + 1 \in LinesTo(g, line_no + 1)
                                        THEN FromLine(line_no + 1) ELSE rt_setting[g]
      PROVE  WriteInv'
  <2>1. /\ line_no' = line_no + 1 /\ pc = "parse_ini" /\ pc' = "parse_ini"
        /\ UNCHANGED <<inputs, optind, answer, result_code>>
    BY <1>8, LineRead DEF inputs
  <2>2. SUFFICES ASSUME result_code = "EX_OK", ~answer, first_error_line_no' = 0, NEW g \in Field
                 PROVE  WrittenTo(g, rt_setting'[g], optind, line_no + 1)
    BY <1>u, <2>1 DEF WriteInv
  <2>3. good /\ first_error_line_no = 0
    BY <1>0, <1>8, <2>1, <2>2 DEF Note
  <2>4. WrittenTo(g, rt_setting[g], optind, line_no)
    BY <2>1, <2>2, <2>3 DEF WriteInv
  <2> QED BY <1>0, <1>8, <2>3, <2>4, LineWrites
<1>9. CASE BlankLine \/ SectionLine \/ UnclosedLine \/ NoiseLine
  <2>1. PICK l \in Lines, good \in BOOLEAN :
          /\ NextLine(l) /\ Note(good) /\ UNCHANGED rt_setting /\ l.kind # "entry"
    BY <1>9 DEF BlankLine, SectionLine, UnclosedLine, NoiseLine
  <2>2. lines[line_no + 1] = l
    BY <2>1 DEF NextLine
  <2>3. \A g \in Field : line_no + 1 \notin LinesTo(g, line_no + 1) /\ rt_setting'[g] = rt_setting[g]
    BY <2>1, <2>2 DEF LinesTo
  <2> QED BY <1>8, <2>1, <2>3
<1>10. CASE EntryLine
  <2>1. PICK l \in Lines :
          /\ NextLine(l) /\ Note(Handled(section, l.name, l.value)) /\ l.kind = "entry"
          /\ IF l.name \in FieldsOf(section)
             THEN Set(l.name, Written(l.name, l.value)) ELSE UNCHANGED rt_setting
    BY <1>10 DEF EntryLine
  <2>2. lines[line_no + 1] = l
    BY <2>1 DEF NextLine
  <2>3. Handled(section, l.name, l.value) \in BOOLEAN
    BY DEF Handled, General, Ldap, Log, Acceptable
  <2>4. Headers(line_no + 1) = Headers(line_no)
    BY <1>0, <2>1, <2>2, HeadersBefore
  <2>5. \A sec : InSection(line_no + 1, sec) <=> sec = section
    BY <2>4 DEF InSection, LineInv, SectionInv
  <2>6. l.name \in FieldsOf(section) => section \in {"general", "ldap", "log"}
    BY DEF FieldsOf
  <2>7. \A g \in Field : line_no + 1 \in LinesTo(g, line_no + 1) <=>
                           g = l.name /\ l.name \in FieldsOf(section)
    BY <1>0, <2>1, <2>2, <2>5, <2>6 DEF LinesTo
  <2>8. ASSUME l.name \in FieldsOf(section), Handled(section, l.name, l.value)
        PROVE  l.name \in Field /\ Written(l.name, l.value) = FromLine(line_no + 1)
    <3>1. l.name \in Field
      BY <2>8, FileFields
    <3>2. Acceptable(l.name, l.value)
      BY <2>6, <2>8 DEF Handled, General, Ldap, Log, FieldsOf
    <3> QED BY <2>2, <3>1, <3>2, WrittenAsGiven DEF FromLine
  <2>9. ASSUME Handled(section, l.name, l.value), NEW g \in Field
        PROVE  rt_setting'[g] = IF line_no + 1 \in LinesTo(g, line_no + 1)
                                THEN FromLine(line_no + 1) ELSE rt_setting[g]
    <3>1. CASE l.name \in FieldsOf(section)
      <4>1. rt_setting'[g] = IF g = l.name THEN Written(l.name, l.value) ELSE rt_setting[g]
        BY <2>1, <3>1 DEF Set, Settings
      <4> QED BY <2>7, <2>8, <2>9, <3>1, <4>1
    <3>2. CASE l.name \notin FieldsOf(section)
      BY <2>1, <2>7, <3>2
    <3> QED BY <3>1, <3>2
  <2> QED BY <1>8, <2>1, <2>3, <2>9
<1> QED BY <1>1, <1>2, <1>3, <1>4, <1>5, <1>6, <1>7, <1>9, <1>10 DEF Next

\* A filter that starts has every setting from the last line of its file that gives
\* it, else from the last option that does, else by default, whatever else the file
\* and the command line contain.
THEOREM LastOneWins == Spec => []LastWriterWins
<1>1. Init => WriteInv
  <2> SUFFICES ASSUME Init PROVE WriteInv
    OBVIOUS
  <2>1. optind = 0 /\ line_no = 0 /\ pc = "init_rt_setting"
        /\ rt_setting = [f \in Field |-> IF f \in Enumerated THEN Default[f] ELSE NULL]
    BY Zenon DEF Init
  <2> QED BY <2>1 DEF WriteInv
<1>2. TypeOK /\ CliInv /\ WriteInv => LastWriterWins
  <2> SUFFICES ASSUME Positions, CliInv, WriteInv, pc = "configured", NEW f \in Field
               PROVE  LastWritten(f, rt_setting[f])
    BY TypeParts DEF LastWriterWins
  <2>1. optind = Len(args) /\ line_no = Len(lines) /\ result_code = "EX_OK" /\ first_error_line_no = 0
    BY DEF CliInv
  <2>2. ~answer
    BY DEF WriteInv
  <2>3. WrittenTo(f, rt_setting[f], Len(args), Len(lines))
    BY <2>1, <2>2 DEF WriteInv
  <2>4. LinesFor(f) = LinesTo(f, Len(lines)) /\ OptionsFor(f) = OptionsTo(f, Len(args))
    BY DEF Positions, LinesFor, LinesTo, OptionsFor, OptionsTo
  <2> QED BY <2>3, <2>4 DEF WrittenTo, LastWritten, FromLine, FromOption, FromDefault
<1>3. Init => CliInv
  BY Zenon DEF Init, CliInv
<1> QED BY <1>1, <1>2, <1>3, LineInvAlways, NextCliInv, NextWriteInv, PTL DEF Spec
=============================================================================
